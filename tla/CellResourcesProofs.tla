------------------------ MODULE CellResourcesProofs ------------------------
(***************************************************************************)
(* Two results, for any layer, resources, files and number of workers.     *)
(*                                                                         *)
(* The overlays of a cell show the parts of their raster that they should  *)
(* (OverlaysAreComplete).  An image keeps what it shows through all that   *)
(* happens to it, so that it is enough to know each image when it is       *)
(* added: those from files show no part, and those of rasters are pasted   *)
(* when their cell knows all parts.  Images are reached through state sets *)
(* and skins, so these must refer to images that exist.                    *)
(*                                                                         *)
(* The file of a cell finds the files that it refers to                    *)
(* (NodesFindTheirFiles).  What a cell's cache holds is a function of its  *)
(* uses, and the packager writes, for every texture and model of the scene *)
(* graph, a file of its name and size before it writes the file of the     *)
(* cell.  Other cells may write that file again, but they write the same.  *)
(***************************************************************************)
EXTENDS CellResources, QueueLemmas, TLAPS

\* An image with an origin, which shows what it should
Fit(image) == "origin" \in DOMAIN image /\ IsComplete(image)

\* A ResourceCache whose skins refer to its state sets and these to its images
IsCache(c) ==
  /\ c = [images |-> c.images, states |-> c.states, skins |-> c.skins, models |-> c.models,
          proxies |-> c.proxies,
          result |-> [states |-> c.result.states, proxies |-> c.result.proxies]]
  /\ c.images \in Seq(Range(c.images))
  /\ \A image \in Range(c.images) : Fit(image)
  /\ c.states \in Seq(Seq(1..Len(c.images)))
  /\ c.skins \in Seq(Range(c.skins))
  /\ \A skin \in Range(c.skins) : skin.state \in 1..Len(c.states)

CachesInv ==
  /\ DOMAIN cache = Cells
  /\ \A c \in Cells : IsCache(cache[c])

\* A cell looks at parts only while it uses a raster.
StepsInv ==
  /\ layer \in Layers
  /\ phase \in [Cells -> Phases] /\ at \in [Cells -> Nat]
  /\ DOMAIN part = Cells
  /\ \A c \in Cells : part[c] # 0 => Compiling(c, "raster")

\* What is known of the parts of a raster: each cell that looks at them knows those it
\* passed, and when they are said to be initialised all are known.
RasterInv(r) ==
  /\ extents[r] \subseteq Good(r)
  /\ parts_initialized[r] => Good(r) \subseteq extents[r]
  /\ extents[r] # {} => \E p \in extents[r] : pixel_format[r] = Parts[r][p].pixel_format

PassedInv(c) ==
  part[c] # 0 /\ RasterOf(c) \in DOMAIN Parts =>
    /\ part[c] \in Nat
    /\ \A p \in Good(RasterOf(c)) : p < part[c] => p \in extents[RasterOf(c)]

PartsInv ==
  /\ DOMAIN parts_initialized = DOMAIN Parts
  /\ DOMAIN extents = DOMAIN Parts
  /\ DOMAIN pixel_format = DOMAIN Parts
  /\ \A r \in DOMAIN Parts : RasterInv(r)
  /\ \A c \in Cells : PassedInv(c)

OverlayInv == CachesInv /\ StepsInv /\ PartsInv

-----------------------------------------------------------------------------
(***************************************************************************)
(* Lists.                                                                  *)
(***************************************************************************)
LEMMA ListOf ==
  ASSUME NEW S, NEW s \in Seq(S)
  PROVE  s \in Seq(Range(s)) /\ Range(s) \subseteq S
<1>1. Range(s) \subseteq S
  BY QueueRange
<1>2. s \in Seq(Range(s))
  BY SeqOfElements
<1>. QED
  BY <1>1, <1>2

LEMMA ListAppend ==
  ASSUME NEW s, s \in Seq(Range(s)), NEW x
  PROVE  /\ Append(s, x) \in Seq(Range(Append(s, x)))
         /\ Range(Append(s, x)) = Range(s) \cup {x}
         /\ Len(Append(s, x)) = Len(s) + 1 /\ Len(s) \in Nat
<1> DEFINE S == Range(s) \cup {x}
<1>1. s \in Seq(S)
  <2>1. Range(s) \subseteq S
    OBVIOUS
  <2> HIDE DEF S
  <2>. QED
    BY <2>1, SeqOfElements
<1>2. x \in S
  OBVIOUS
<1> HIDE DEF S
<1>3. Append(s, x) \in Seq(S) /\ Range(Append(s, x)) = Range(s) \cup {x}
  BY <1>1, <1>2, AppendToQueue
<1>4. Append(s, x) \in Seq(Range(Append(s, x)))
  BY <1>3, ListOf
<1>5. Len(Append(s, x)) = Len(s) + 1 /\ Len(s) \in Nat
  BY <1>1, <1>2
<1>. QED
  BY <1>3, <1>4, <1>5

LEMMA ListConcat ==
  ASSUME NEW s, s \in Seq(Range(s)), NEW t, t \in Seq(Range(t))
  PROVE  /\ s \o t \in Seq(Range(s \o t))
         /\ Range(s \o t) = Range(s) \cup Range(t)
         /\ Len(s \o t) = Len(s) + Len(t) /\ Len(s) \in Nat /\ Len(t) \in Nat
<1> DEFINE S == Range(s) \cup Range(t)
<1>1. s \in Seq(S) /\ t \in Seq(S)
  <2>1. Range(s) \subseteq S /\ Range(t) \subseteq S
    OBVIOUS
  <2> HIDE DEF S
  <2>. QED
    BY <2>1, SeqOfElements
<1>2. /\ s \o t \in Seq(S)
      /\ Len(s \o t) = Len(s) + Len(t) /\ Len(s) \in Nat /\ Len(t) \in Nat
  <2> HIDE DEF S
  <2>. QED
    BY <1>1
<1>3. /\ DOMAIN s = 1..Len(s) /\ DOMAIN t = 1..Len(t)
      /\ DOMAIN (s \o t) = 1..(Len(s) + Len(t))
  <2> HIDE DEF S
  <2>. QED
    BY <1>1, <1>2
<1>4. /\ \A i \in 1..Len(s) : (s \o t)[i] = s[i]
      /\ \A i \in 1..Len(t) : (s \o t)[Len(s) + i] = t[i]
  <2> HIDE DEF S
  <2>. QED
    BY <1>1, <1>2
<1>5. Range(s \o t) \subseteq Range(s) \cup Range(t)
  <2>1. ASSUME NEW i \in 1..(Len(s) + Len(t))
        PROVE  (s \o t)[i] \in Range(s) \cup Range(t)
    <3>1. CASE i <= Len(s)
      <4>1. i \in 1..Len(s)
        BY <3>1, <1>2
      <4>. QED
        BY <4>1, <1>3, <1>4 DEF Range
    <3>2. CASE ~(i <= Len(s))
      <4>1. i - Len(s) \in 1..Len(t) /\ i = Len(s) + (i - Len(s))
        BY <3>2, <1>2
      <4>2. (s \o t)[i] = t[i - Len(s)]
        BY <4>1, <1>4
      <4>. QED
        BY <4>1, <4>2, <1>3 DEF Range
    <3>. QED
      BY <3>1, <3>2
  <2>. QED
    BY <2>1, <1>3 DEF Range
<1>6. Range(s) \subseteq Range(s \o t)
  <2>1. ASSUME NEW i \in 1..Len(s) PROVE i \in 1..(Len(s) + Len(t))
    BY <1>2
  <2>. QED
    BY <2>1, <1>3, <1>4 DEF Range
<1>7. Range(t) \subseteq Range(s \o t)
  <2>1. ASSUME NEW i \in 1..Len(t) PROVE Len(s) + i \in 1..(Len(s) + Len(t))
    BY <1>2
  <2>2. ASSUME NEW i \in 1..Len(t) PROVE t[i] \in Range(s \o t)
    BY <2>1, <1>3, <1>4 DEF Range
  <2>. QED
    BY <2>2, <1>3 DEF Range
<1>8. s \o t \in Seq(Range(s \o t))
  BY <1>2, ListOf
<1>. QED
  BY <1>2, <1>5, <1>6, <1>7, <1>8

\* A list of one
LEMMA ListOfOne ==
  ASSUME NEW x
  PROVE  <<x>> \in Seq(Range(<<x>>)) /\ Range(<<x>>) = {x} /\ Len(<<x>>) = 1
<1>2. <<x>> \in Seq({x}) /\ Len(<<x>>) = 1
  OBVIOUS
<1>3. Range(<<x>>) = {x}
  <2>1. DOMAIN <<x>> = 1..1 /\ <<x>>[1] = x
    OBVIOUS
  <2>. QED
    BY <2>1 DEF Range
<1>. QED
  BY <1>2, <1>3

\* The image of a function that is given over the elements of a list
LEMMA ListMapped ==
  ASSUME NEW s, s \in Seq(Range(s)), NEW t, DOMAIN t = DOMAIN s, t = [i \in DOMAIN t |-> t[i]]
  PROVE  t \in Seq(Range(t)) /\ Len(t) = Len(s)
<1>1. DOMAIN s = 1..Len(s) /\ Len(s) \in Nat
  BY DEF Range
<1>2. t \in [1..Len(s) -> Range(t)]
  BY <1>1 DEF Range
<1>. QED
  BY <1>1, <1>2, FunctionIsSeq

-----------------------------------------------------------------------------
(***************************************************************************)
(* What an image shows.                                                    *)
(***************************************************************************)
\* A path with another part
LEMMA PathWith ==
  ASSUME NEW p, IsPath(p), NEW x
  PROVE  /\ [p EXCEPT !.dir = x] = [dir |-> x, base |-> p.base, limit |-> p.limit, ext |-> p.ext]
         /\ [p EXCEPT !.base = x] = [dir |-> p.dir, base |-> x, limit |-> p.limit, ext |-> p.ext]
         /\ [p EXCEPT !.limit = x] = [dir |-> p.dir, base |-> p.base, limit |-> x, ext |-> p.ext]
         /\ [p EXCEPT !.ext = x] = [dir |-> p.dir, base |-> p.base, limit |-> p.limit, ext |-> x]
         /\ IsPath([p EXCEPT !.dir = x]) /\ IsPath([p EXCEPT !.base = x])
         /\ IsPath([p EXCEPT !.limit = x]) /\ IsPath([p EXCEPT !.ext = x])
<1>0. p = [dir |-> p.dir, base |-> p.base, limit |-> p.limit, ext |-> p.ext]
  BY DEF IsPath
<1>1. [p EXCEPT !.dir = x] = [dir |-> x, base |-> p.base, limit |-> p.limit, ext |-> p.ext]
  BY <1>0
<1>2. [p EXCEPT !.base = x] = [dir |-> p.dir, base |-> x, limit |-> p.limit, ext |-> p.ext]
  BY <1>0
<1>3. [p EXCEPT !.limit = x] = [dir |-> p.dir, base |-> p.base, limit |-> x, ext |-> p.ext]
  BY <1>0
<1>4. [p EXCEPT !.ext = x] = [dir |-> p.dir, base |-> p.base, limit |-> p.limit, ext |-> x]
  BY <1>0
<1>5. \A d, b, l, e : IsPath([dir |-> d, base |-> b, limit |-> l, ext |-> e])
  BY DEF IsPath
<1>. QED
  BY <1>1, <1>2, <1>3, <1>4, <1>5

LEMMA NoNameIsPath ==
  /\ IsPath(NoName)
  /\ NoName.dir = "" /\ NoName.base = "" /\ NoName.limit = 0 /\ NoName.ext = ""
BY DEF IsPath, NoName

\* A name without a folder
LEMMA NamedPath ==
  ASSUME NEW b, NEW e
  PROVE  [NoName EXCEPT !.base = b, !.ext = e] = [dir |-> "", base |-> b, limit |-> 0, ext |-> e]
<1> DEFINE named == [NoName EXCEPT !.base = b]
<1>1. IsPath(NoName)
  BY NoNameIsPath
<1>2. /\ named = [dir |-> NoName.dir, base |-> b, limit |-> NoName.limit, ext |-> NoName.ext]
      /\ IsPath(named)
  BY <1>1, PathWith
<1>3. [NoName EXCEPT !.base = b, !.ext = e] = [named EXCEPT !.ext = e]
  OBVIOUS
<1> HIDE DEF named
<1>4. [named EXCEPT !.ext = e] = [dir |-> named.dir, base |-> named.base, limit |-> named.limit, ext |-> e]
  BY <1>2, PathWith
<1>5. named.dir = "" /\ named.base = b /\ named.limit = 0
  BY <1>2, NoNameIsPath
<1>. QED
  BY <1>3, <1>4, <1>5

LEMMA SameOriginFits ==
  ASSUME NEW image, Fit(image), NEW other, "origin" \in DOMAIN other, other.origin = image.origin
  PROVE  Fit(other)
BY DEF Fit, IsComplete

LEMMA FilesFit ==
  ASSUME NEW image, FromFile(image)
  PROVE  Fit(image)
<1>1. "origin" \in DOMAIN image /\ image.origin.area = {} /\ image.origin.parts = {}
  BY DEF FromFile
<1>. QED
  BY <1>1 DEF Fit, IsComplete

\* A picture, or the red cross
LEMMA SkinFromFile ==
  ASSUME NEW skin
  PROVE  FromFile(createImage(skin))
<1>1. CASE skin.uri \in DOMAIN Pictures
  BY <1>1, FilesAssumption DEF createImage
<1>2. CASE skin.uri \notin DOMAIN Pictures
  <2> DEFINE path == [dir |-> "", base |-> skin.name, limit |-> 0, ext |-> "png"]
             cross == [path |-> path, origin |-> Whole(skin.name, 1), size |-> 1,
                       pixel_format |-> "RGB", compressed |-> FALSE]
  <2>1. [NoName EXCEPT !.base = skin.name, !.ext = "png"] = path
    BY NamedPath
  <2>2. createImage(skin) = cross
    BY <1>2, <2>1 DEF createImage
  <2>3. IsPath(path)
    BY DEF IsPath
  <2>4. cross.origin.size = 1 /\ cross.origin.area = {} /\ cross.origin.parts = {}
    BY DEF Whole
  <2> HIDE DEF path
  <2>. QED
    BY <2>2, <2>3, <2>4 DEF FromFile
<1>. QED
  BY <1>1, <1>2

LEMMA SkinsFit ==
  ASSUME NEW skin
  PROVE  Fit(createImage(skin))
BY SkinFromFile, FilesFit

\* Resizing and compressing change neither.
LEMMA OutputsFit ==
  ASSUME NEW image, Fit(image), NEW packager, NEW limit
  PROVE  Fit(Output(packager, limit, image).image)
<1> DEFINE limited == Limited(packager, limit, image)
           out == Output(packager, limit, image).image
<1>1. "origin" \in DOMAIN image
  BY DEF Fit
<1>2. "origin" \in DOMAIN limited /\ limited.origin = image.origin
  BY <1>1 DEF Limited, resizeImage
<1>3. "origin" \in DOMAIN out /\ out.origin = limited.origin
  <2> HIDE DEF limited
  <2>. QED
    BY <1>2 DEF Output, limited
<1> HIDE DEF limited, out
<1>4. Fit(out)
  BY <1>2, <1>3, SameOriginFits
<1>. QED
  BY <1>4 DEF out

-----------------------------------------------------------------------------
(***************************************************************************)
(* The ResourceCache.                                                      *)
(***************************************************************************)
LEMMA EmptyIsCache == IsCache(EmptyCache)
<1>1. /\ EmptyCache.images = <<>> /\ EmptyCache.states = <<>> /\ EmptyCache.skins = <<>>
      /\ EmptyCache = [images |-> EmptyCache.images, states |-> EmptyCache.states,
           skins |-> EmptyCache.skins, models |-> EmptyCache.models,
           proxies |-> EmptyCache.proxies,
           result |-> [states |-> EmptyCache.result.states,
                       proxies |-> EmptyCache.result.proxies]]
  BY DEF EmptyCache
<1>2. Range(<<>>) = {} /\ <<>> \in Seq({})
  BY EmptyQueue
<1>3. <<>> \in Seq(Seq(1..Len(<<>>)))
  OBVIOUS
<1>. QED
  BY <1>1, <1>2, <1>3 DEF IsCache

\* What a cache shows, the models and the proxies do not matter here.
LEMMA SameLists ==
  ASSUME NEW c, IsCache(c), NEW d,
         d = [images |-> c.images, states |-> c.states, skins |-> c.skins, models |-> d.models,
              proxies |-> d.proxies,
              result |-> [states |-> d.result.states, proxies |-> d.result.proxies]]
  PROVE  IsCache(d)
<1>1. d.images = c.images /\ d.states = c.states /\ d.skins = c.skins
  OBVIOUS
<1>. QED
  BY <1>1 DEF IsCache

LEMMA ShowIsCache ==
  ASSUME NEW c, IsCache(c), NEW states
  PROVE  IsCache(Show(c, states)) /\ Show(c, states).states = c.states
<1> DEFINE d == Show(c, states)
<1>0. c = [images |-> c.images, states |-> c.states, skins |-> c.skins, models |-> c.models,
           proxies |-> c.proxies,
           result |-> [states |-> c.result.states, proxies |-> c.result.proxies]]
  BY DEF IsCache
<1>1. d = [images |-> c.images, states |-> c.states, skins |-> c.skins, models |-> c.models,
           proxies |-> c.proxies,
           result |-> [states |-> c.result.states \cup states, proxies |-> c.result.proxies]]
  BY <1>0 DEF Show
<1>2. d = [images |-> c.images, states |-> c.states, skins |-> c.skins, models |-> d.models,
           proxies |-> d.proxies,
           result |-> [states |-> d.result.states, proxies |-> d.result.proxies]]
      /\ d.states = c.states
  <2> HIDE DEF d
  <2>. QED
    BY <1>1
<1> HIDE DEF d
<1>3. IsCache(d)
  BY <1>2, SameLists
<1>. QED
  BY <1>2, <1>3 DEF d

\* More skins, for state sets that there are
LEMMA SkinsIsCache ==
  ASSUME NEW c, IsCache(c), NEW skins, skins \in Seq(Range(skins)),
         \A skin \in Range(skins) : skin \in Range(c.skins) \/ skin.state \in 1..Len(c.states)
  PROVE  IsCache([c EXCEPT !.skins = skins])
<1> DEFINE d == [c EXCEPT !.skins = skins]
<1>0. c = [images |-> c.images, states |-> c.states, skins |-> c.skins, models |-> c.models,
           proxies |-> c.proxies,
           result |-> [states |-> c.result.states, proxies |-> c.result.proxies]]
  BY DEF IsCache
<1>1. d = [images |-> c.images, states |-> c.states, skins |-> skins,
           models |-> c.models, proxies |-> c.proxies,
           result |-> [states |-> c.result.states, proxies |-> c.result.proxies]]
  BY <1>0
<1> HIDE DEF d
<1>2. d.images = c.images /\ d.states = c.states /\ d.skins = skins
  BY <1>1
<1>3. d = [images |-> d.images, states |-> d.states, skins |-> d.skins, models |-> d.models,
           proxies |-> d.proxies,
           result |-> [states |-> d.result.states, proxies |-> d.result.proxies]]
  BY <1>1
<1>4. \A skin \in Range(skins) : skin.state \in 1..Len(c.states)
  BY DEF IsCache
<1>5. IsCache(d)
  BY <1>2, <1>3, <1>4 DEF IsCache
<1>. QED
  BY <1>5 DEF d

LEMMA SkinIsCache ==
  ASSUME NEW c, IsCache(c), NEW skin, skin.state \in 1..Len(c.states)
  PROVE  IsCache([c EXCEPT !.skins = Append(@, skin)])
<1> DEFINE skins == Append(c.skins, skin)
<1>1. skins \in Seq(Range(skins)) /\ Range(skins) = Range(c.skins) \cup {skin}
  BY ListAppend DEF IsCache
<1>2. \A k \in Range(skins) : k \in Range(c.skins) \/ k.state \in 1..Len(c.states)
  BY <1>1
<1> HIDE DEF skins
<1>3. IsCache([c EXCEPT !.skins = skins])
  BY <1>1, <1>2, SkinsIsCache
<1>. QED
  BY <1>3 DEF skins

LEMMA ModelsIsCache ==
  ASSUME NEW c, IsCache(c), NEW models
  PROVE  IsCache([c EXCEPT !.models = models])
<1> DEFINE d == [c EXCEPT !.models = models]
<1>0. c = [images |-> c.images, states |-> c.states, skins |-> c.skins, models |-> c.models,
           proxies |-> c.proxies,
           result |-> [states |-> c.result.states, proxies |-> c.result.proxies]]
  BY DEF IsCache
<1>1. d = [images |-> c.images, states |-> c.states, skins |-> c.skins, models |-> models,
           proxies |-> c.proxies,
           result |-> [states |-> c.result.states, proxies |-> c.result.proxies]]
  BY <1>0
<1> HIDE DEF d
<1>2. d = [images |-> c.images, states |-> c.states, skins |-> c.skins, models |-> d.models,
           proxies |-> d.proxies,
           result |-> [states |-> d.result.states, proxies |-> d.result.proxies]]
  BY <1>1
<1>3. IsCache(d)
  BY <1>2, SameLists
<1>. QED
  BY <1>3 DEF d

-----------------------------------------------------------------------------
(***************************************************************************)
(* New state sets.                                                         *)
(***************************************************************************)
\* Images of a file or a raster
IsImages(images) ==
  /\ images \in Seq(Range(images))
  /\ \A image \in Range(images) : Fit(image)

\* The state sets there are stay good when there are more images.
LEMMA MoreImages ==
  ASSUME NEW m \in Nat, NEW n \in Nat, m <= n
  PROVE  Seq(Seq(1..m)) \subseteq Seq(Seq(1..n))
<1>1. 1..m \subseteq 1..n
  OBVIOUS
<1>2. Seq(1..m) \subseteq Seq(1..n)
  <2>1. ASSUME NEW s \in Seq(1..m) PROVE s \in Seq(1..n)
    <3>1. Range(s) \subseteq 1..m
      BY QueueRange
    <3> DEFINE A == 1..m
               B == 1..n
    <3>2. s \in Seq(A) /\ Range(s) \subseteq B
      BY <3>1, <1>1
    <3> HIDE DEF A, B
    <3>3. s \in Seq(B)
      BY <3>2, SeqOfElements
    <3>. QED
      BY <3>3 DEF B
  <2>. QED
    BY <2>1
<1>3. ASSUME NEW s \in Seq(Seq(1..m)) PROVE s \in Seq(Seq(1..n))
  <2> DEFINE A == Seq(1..m)
             B == Seq(1..n)
  <2>1. s \in Seq(A) /\ A \subseteq B
    BY <1>2
  <2> HIDE DEF A, B
  <2>2. Range(s) \subseteq B
    BY <2>1, QueueRange
  <2>3. s \in Seq(B)
    BY <2>1, <2>2, SeqOfElements
  <2>. QED
    BY <2>3 DEF B
<1>. QED
  BY <1>3

LEMMA AddStateIsCache ==
  ASSUME NEW c, IsCache(c), NEW images, IsImages(images)
  PROVE  /\ IsCache(AddState(c, images))
         /\ AddState(c, images).skins = c.skins
         /\ Len(AddState(c, images).states) = Len(c.states) + 1
<1> DEFINE d == AddState(c, images)
           all == c.images \o images
           state == [i \in DOMAIN images |-> Len(c.images) + i]
           states == Append(c.states, state)
           m == Len(c.images)
           n == Len(all)
<1>0. c = [images |-> c.images, states |-> c.states, skins |-> c.skins, models |-> c.models,
           proxies |-> c.proxies,
           result |-> [states |-> c.result.states, proxies |-> c.result.proxies]]
  BY DEF IsCache
<1>1. d = [c EXCEPT !.images = all, !.states = states]
  BY DEF AddState
<1>2. /\ all \in Seq(Range(all)) /\ Range(all) = Range(c.images) \cup Range(images)
      /\ n = m + Len(images) /\ m \in Nat /\ Len(images) \in Nat
  BY ListConcat DEF IsCache, IsImages
<1>3. \A image \in Range(all) : Fit(image)
  BY <1>2 DEF IsCache, IsImages
<1>4. state \in Seq(1..n)
  <2>1. DOMAIN images = 1..Len(images)
    BY DEF IsImages, Range
  <2>2. \A i \in 1..Len(images) : m + i \in 1..n
    <3> HIDE DEF n, m
    <3>. QED
      BY <1>2
  <2>3. state \in [1..Len(images) -> 1..n]
    <3> HIDE DEF n
    <3>. QED
      BY <2>1, <2>2 DEF m
  <2> HIDE DEF n, state
  <2>. QED
    BY <2>3, <1>2, FunctionIsSeq
<1>5. c.states \in Seq(Seq(1..n))
  <2> HIDE DEF n
  <2>1. m <= n /\ n \in Nat
    <3> HIDE DEF m
    <3>. QED
      BY <1>2
  <2>2. c.states \in Seq(Seq(1..m))
    BY DEF IsCache
  <2> HIDE DEF m
  <2>. QED
    BY <2>1, <2>2, <1>2, MoreImages
<1>6. states \in Seq(Seq(1..n)) /\ Len(states) = Len(c.states) + 1 /\ Len(c.states) \in Nat
  <2> HIDE DEF n, state
  <2>. QED
    BY <1>4, <1>5
<1> HIDE DEF all, states, state, m, d
<1> DEFINE e == [c EXCEPT !.images = all]
<1>e. e = [images |-> all, states |-> c.states, skins |-> c.skins, models |-> c.models,
           proxies |-> c.proxies,
           result |-> [states |-> c.result.states, proxies |-> c.result.proxies]]
  BY <1>0
<1>f. d = [e EXCEPT !.states = states]
  BY <1>1
<1> HIDE DEF e
<1>7. d = [images |-> all, states |-> states, skins |-> c.skins, models |-> c.models,
           proxies |-> c.proxies,
           result |-> [states |-> c.result.states, proxies |-> c.result.proxies]]
  BY <1>e, <1>f
<1>8. d.images = all /\ d.states = states /\ d.skins = c.skins
  BY <1>7
<1>9. d = [images |-> d.images, states |-> d.states, skins |-> d.skins, models |-> d.models,
           proxies |-> d.proxies,
           result |-> [states |-> d.result.states, proxies |-> d.result.proxies]]
  BY <1>7
<1>10. ASSUME NEW skin \in Range(d.skins) PROVE skin.state \in 1..Len(d.states)
  <2>1. skin.state \in 1..Len(c.states)
    BY <1>8 DEF IsCache
  <2> DEFINE k == skin.state
             l == Len(c.states)
  <2>2. k \in 1..l /\ Len(d.states) = l + 1 /\ l \in Nat
    BY <2>1, <1>6, <1>8
  <2> HIDE DEF k, l
  <2>3. k \in 1..Len(d.states)
    BY <2>2
  <2>. QED
    BY <2>3 DEF k
<1>11. d.skins \in Seq(Range(d.skins))
  BY <1>8 DEF IsCache
<1>12. IsCache(d)
  BY <1>2, <1>3, <1>6, <1>8, <1>9, <1>10, <1>11 DEF IsCache, n
<1>. QED
  BY <1>6, <1>8, <1>12 DEF d

\* The loop over the state sets, up to the m-th
AddsStates(c, sets, m, f) ==
  f = [n \in 0..m |-> IF n = 0 THEN c ELSE AddState(f[n - 1], sets[n])]

LEMMA AddStatesLoop ==
  ASSUME NEW c, NEW sets, Len(sets) \in Nat
  PROVE  \E f : AddsStates(c, sets, Len(sets), f)
<1> DEFINE N == Len(sets)
           P == {m \in 0..N : \E f : AddsStates(c, sets, m, f)}
<1>1. 0 \in P
  <2> DEFINE f == [n \in 0..0 |-> c]
  <2>1. AddsStates(c, sets, 0, f)
    BY DEF AddsStates
  <2> HIDE DEF f
  <2>2. 0 \in 0..N
    OBVIOUS
  <2>. QED
    BY <2>1, <2>2
<1>2. ASSUME NEW m \in 1..N, m - 1 \in P PROVE m \in P
  <2>1. PICK f : AddsStates(c, sets, m - 1, f)
    BY <1>2
  <2> DEFINE g == [n \in 0..m |-> IF n = m THEN AddState(f[m - 1], sets[m]) ELSE f[n]]
  <2>2. ASSUME NEW n \in 0..m PROVE g[n] = IF n = 0 THEN c ELSE AddState(g[n - 1], sets[n])
    <3>1. CASE n = m
      <4>1. m # 0 /\ m - 1 \in 0..m /\ m - 1 # m
        OBVIOUS
      <4>2. g[m - 1] = f[m - 1]
        BY <4>1
      <4>3. g[n] = AddState(f[m - 1], sets[m])
        BY <3>1
      <4> HIDE DEF g
      <4>. QED
        BY <4>1, <4>2, <4>3, <3>1
    <3>2. CASE n # m
      <4>1. n \in 0..(m - 1)
        BY <3>2
      <4>2. g[n] = f[n]
        BY <3>2
      <4>3. f[n] = IF n = 0 THEN c ELSE AddState(f[n - 1], sets[n])
        BY <2>1, <4>1 DEF AddsStates
      <4>4. CASE n = 0
        <5> HIDE DEF g
        <5>. QED
          BY <4>2, <4>3, <4>4
      <4>5. CASE n # 0
        <5>1. n - 1 \in 0..m /\ n - 1 # m
          BY <4>5
        <5>2. g[n - 1] = f[n - 1]
          BY <5>1
        <5> HIDE DEF g
        <5>. QED
          BY <4>2, <4>3, <4>5, <5>2
      <4>. QED
        BY <4>4, <4>5
    <3>. QED
      BY <3>1, <3>2
  <2>3. g = [n \in 0..m |-> g[n]]
    OBVIOUS
  <2> HIDE DEF g
  <2>4. AddsStates(c, sets, m, g)
    BY <2>2, <2>3 DEF AddsStates
  <2>5. m \in 0..N
    OBVIOUS
  <2>. QED
    BY <2>4, <2>5
<1>3. N \in Nat
  OBVIOUS
<1> HIDE DEF P
<1>4. 0..N \subseteq P
  <2> HIDE DEF N
  <2>. QED
    BY <1>1, <1>2, <1>3, CountUp
<1>5. N \in P
  BY <1>3, <1>4
<1>. QED
  BY <1>5 DEF P

LEMMA AddStatesIsCache ==
  ASSUME NEW c, IsCache(c), NEW sets, Len(sets) \in Nat,
         \A n \in 1..Len(sets) : IsImages(sets[n])
  PROVE  /\ IsCache(AddStates(c, sets))
         /\ AddStates(c, sets).skins = c.skins
         /\ Len(AddStates(c, sets).states) = Len(c.states) + Len(sets)
<1> DEFINE N == Len(sets)
           f == CHOOSE g : g = [n \in 0..N |-> IF n = 0 THEN c ELSE AddState(g[n - 1], sets[n])]
           l == Len(c.states)
<1>1. \E g : AddsStates(c, sets, N, g)
  BY AddStatesLoop
<1>2. AddsStates(c, sets, N, f)
  BY <1>1 DEF AddsStates
<1>3. AddStates(c, sets) = f[N]
  BY DEF AddStates
<1> HIDE DEF f
<1>4. /\ f[0] = c
      /\ \A n \in 1..N : f[n] = AddState(f[n - 1], sets[n])
  <2>1. 0 \in 0..N /\ f[0] = IF 0 = 0 THEN c ELSE AddState(f[0 - 1], sets[0])
    BY <1>2 DEF AddsStates
  <2>2. ASSUME NEW n \in 1..N PROVE f[n] = AddState(f[n - 1], sets[n])
    <3>1. n \in 0..N /\ n # 0
      OBVIOUS
    <3>. QED
      BY <1>2, <3>1 DEF AddsStates
  <2>. QED
    BY <2>1, <2>2
<1>5. l \in Nat
  BY DEF IsCache
<1> HIDE DEF l
<1> DEFINE P == {n \in 0..N : IsCache(f[n]) /\ f[n].skins = c.skins /\ Len(f[n].states) = l + n}
<1>6. 0 \in P
  BY <1>4, <1>5 DEF l
<1>7. ASSUME NEW n \in 1..N, n - 1 \in P PROVE n \in P
  <2>1. /\ IsCache(f[n - 1]) /\ f[n - 1].skins = c.skins
        /\ Len(f[n - 1].states) = l + (n - 1)
    BY <1>7
  <2>2. f[n] = AddState(f[n - 1], sets[n]) /\ IsImages(sets[n])
    BY <1>4
  <2>3. /\ IsCache(f[n]) /\ f[n].skins = c.skins
        /\ Len(f[n].states) = Len(f[n - 1].states) + 1
    BY <2>1, <2>2, AddStateIsCache
  <2>4. n \in 0..N /\ (l + (n - 1)) + 1 = l + n
    BY <1>5
  <2>. QED
    BY <2>1, <2>3, <2>4
<1> HIDE DEF P
<1>8. 0..N \subseteq P
  <2>1. N \in Nat
    OBVIOUS
  <2> HIDE DEF N
  <2>. QED
    BY <2>1, <1>6, <1>7, CountUp
<1>9. N \in P
  BY <1>8
<1>. QED
  BY <1>3, <1>9 DEF P, l

\* One image
LEMMA AddImageIsCache ==
  ASSUME NEW c, IsCache(c), NEW image, Fit(image)
  PROVE  /\ IsCache(AddStates(c, <<<<image>>>>))
         /\ Len(AddStates(c, <<<<image>>>>).states) \in 1..Len(AddStates(c, <<<<image>>>>).states)
<1> DEFINE sets == <<<<image>>>>
           d == AddStates(c, sets)
<1>1. Len(sets) = 1 /\ sets[1] = <<image>>
  OBVIOUS
<1>2. IsImages(<<image>>)
  BY ListOfOne DEF IsImages
<1>3. Len(sets) \in Nat /\ \A n \in 1..Len(sets) : IsImages(sets[n])
  <2> HIDE DEF sets
  <2>. QED
    BY <1>1, <1>2
<1> HIDE DEF sets
<1>4. IsCache(d) /\ Len(d.states) = Len(c.states) + 1
  BY <1>1, <1>3, AddStatesIsCache
<1>5. Len(c.states) \in Nat
  BY DEF IsCache
<1> HIDE DEF d
<1>6. Len(d.states) \in 1..Len(d.states)
  BY <1>4, <1>5
<1>. QED
  BY <1>4, <1>6 DEF d, sets

LEMMA AddModelIsCache ==
  ASSUME NEW c, IsCache(c), NEW uri \in DOMAIN ModelFiles
  PROVE  IsCache(AddStates(c, ModelFiles[uri]))
<1> DEFINE sets == ModelFiles[uri]
<1>1. /\ sets \in Seq(Range(sets))
      /\ \A images \in Range(sets) :
           images \in Seq(Range(images)) /\ \A image \in Range(images) : FromFile(image)
  BY FilesAssumption
<1> HIDE DEF sets
<1>2. Len(sets) \in Nat /\ DOMAIN sets = 1..Len(sets)
  BY <1>1
<1>3. \A images \in Range(sets) : IsImages(images)
  BY <1>1, FilesFit DEF IsImages
<1>4. \A n \in 1..Len(sets) : IsImages(sets[n])
  BY <1>2, <1>3 DEF Range
<1>5. IsCache(AddStates(c, sets))
  BY <1>2, <1>4, AddStatesIsCache
<1>. QED
  BY <1>5 DEF sets

-----------------------------------------------------------------------------
(***************************************************************************)
(* What the filters do with the cache.                                     *)
(***************************************************************************)
LEMMA ApplySkinIsCache ==
  ASSUME NEW c, IsCache(c), NEW skin
  PROVE  IsCache(ApplySkin(c, skin))
<1> DEFINE known == {s \in ToSet(c.skins) : s.resource = skin}
           added == AddStates(c, <<<<createImage(skin)>>>>)
           state == Len(added.states)
           own == [resource |-> skin, limit |-> skin.limit, state |-> state]
           given == [added EXCEPT !.skins = Append(@, own)]
<1>1. IsCache(added) /\ state \in 1..Len(added.states)
  BY SkinsFit, AddImageIsCache
<1>2. own.state = state
  OBVIOUS
<1>3. IsCache(given)
  <2> HIDE DEF added, own
  <2>. QED
    BY <1>1, <1>2, SkinIsCache
<1>4. IsCache(Show(c, {s.state : s \in known})) /\ IsCache(Show(given, {state}))
  BY <1>3, ShowIsCache
<1>5. ApplySkin(c, skin) = IF known # {} THEN Show(c, {s.state : s \in known}) ELSE Show(given, {state})
  BY DEF ApplySkin
<1>. QED
  <2> HIDE DEF known, given, state
  <2>. QED
    BY <1>4, <1>5

LEMMA TexturesIsCache ==
  ASSUME NEW c, IsCache(c), NEW states, NEW limit
  PROVE  IsCache(registerTextures(c, states, limit))
<1> DEFINE l == Len(c.states)
           units == [s \in DOMAIN c.states |->
                       IF s \in states THEN [u \in DOMAIN c.states[s] |-> s] ELSE <<>>]
           textured == FlattenSeq(units)
           own == [i \in DOMAIN textured |-> OwnSkin(textured[i], limit)]
           skins == c.skins \o own
<1>1. l \in Nat /\ DOMAIN c.states = 1..l
  BY DEF IsCache
<1>2. ASSUME NEW s \in 1..l
      PROVE  (IF s \in states THEN [u \in DOMAIN c.states[s] |-> s] ELSE <<>>) \in Seq(1..l)
  <2>1. c.states[s] \in Seq(1..Len(c.images))
    BY <1>1 DEF IsCache
  <2> DEFINE n == Len(c.states[s])
  <2>2. n \in Nat /\ DOMAIN c.states[s] = 1..n
    BY <2>1
  <2> HIDE DEF n, l
  <2>3. [u \in 1..n |-> s] \in [1..n -> 1..l]
    OBVIOUS
  <2>4. [u \in 1..n |-> s] \in Seq(1..l)
    BY <2>2, <2>3, FunctionIsSeq
  <2>5. <<>> \in Seq(1..l)
    OBVIOUS
  <2>. QED
    BY <2>2, <2>4, <2>5
<1>3. units \in [1..l -> Seq(1..l)]
  <2> HIDE DEF l
  <2>. QED
    BY <1>1, <1>2
<1>4. units \in Seq(Seq(1..l))
  <2> HIDE DEF units, l
  <2>. QED
    BY <1>1, <1>3, FunctionIsSeq
<1>5. textured \in Seq(1..l)
  <2> HIDE DEF units, l
  <2>. QED
    BY <1>4, FlattenIsSeq
<1> HIDE DEF textured, units, l
<1>6. textured \in Seq(Range(textured)) /\ Range(textured) \subseteq 1..l
  BY <1>5, ListOf
<1>7. own \in Seq(Range(own))
  <2>1. DOMAIN own = DOMAIN textured /\ own = [i \in DOMAIN own |-> own[i]]
    OBVIOUS
  <2> HIDE DEF own
  <2>. QED
    BY <1>6, <2>1, ListMapped
<1>8. \A skin \in Range(own) : skin.state \in 1..l
  <2>1. ASSUME NEW i \in DOMAIN own PROVE own[i].state \in 1..l
    <3>1. own[i].state = textured[i]
      BY DEF OwnSkin
    <3>2. textured[i] \in 1..l
      BY <1>6 DEF Range
    <3>. QED
      BY <3>1, <3>2
  <2> HIDE DEF own
  <2>. QED
    BY <2>1 DEF Range
<1> HIDE DEF own
<1>9. skins \in Seq(Range(skins)) /\ Range(skins) = Range(c.skins) \cup Range(own)
  BY <1>7, ListConcat DEF IsCache
<1>10. \A skin \in Range(skins) : skin \in Range(c.skins) \/ skin.state \in 1..Len(c.states)
  BY <1>8, <1>9 DEF l
<1> HIDE DEF skins
<1>11. IsCache([c EXCEPT !.skins = skins])
  BY <1>9, <1>10, SkinsIsCache
<1>12. registerTextures(c, states, limit) = [c EXCEPT !.skins = skins]
  BY DEF registerTextures, skins, own, textured, units
<1>. QED
  BY <1>11, <1>12

LEMMA GetNodeIsCache ==
  ASSUME NEW c, IsCache(c), NEW model, model.uri \in DOMAIN ModelFiles, NEW fresh
  PROVE  IsCache(getNode(c, model, fresh))
<1> DEFINE added == AddStates(c, ModelFiles[model.uri])
           models == Append(added.models, [resource |-> model,
                                           states |-> NewStates(c, ModelFiles[model.uri])])
<1>1. IsCache(added)
  BY AddModelIsCache
<1>2. Loaded(c, model) = [added EXCEPT !.models = models]
  BY DEF Loaded
<1> HIDE DEF added, models
<1>3. IsCache(Loaded(c, model))
  <2>1. IsCache([added EXCEPT !.models = models])
    BY <1>1, ModelsIsCache
  <2>. QED
    BY <1>2, <2>1
<1>. QED
  BY <1>3 DEF getNode

LEMMA ProxiesIsCache ==
  ASSUME NEW c, IsCache(c), NEW proxies
  PROVE  /\ IsCache([c EXCEPT !.proxies = proxies])
         /\ IsCache([c EXCEPT !.result.proxies = proxies])
<1> DEFINE d == [c EXCEPT !.proxies = proxies]
           e == [c EXCEPT !.result.proxies = proxies]
<1>0. c = [images |-> c.images, states |-> c.states, skins |-> c.skins, models |-> c.models,
           proxies |-> c.proxies,
           result |-> [states |-> c.result.states, proxies |-> c.result.proxies]]
  BY DEF IsCache
<1>1. d = [images |-> c.images, states |-> c.states, skins |-> c.skins,
           models |-> c.models, proxies |-> proxies,
           result |-> [states |-> c.result.states, proxies |-> c.result.proxies]]
  BY <1>0
<1>2. e = [images |-> c.images, states |-> c.states, skins |-> c.skins,
           models |-> c.models, proxies |-> c.proxies,
           result |-> [states |-> c.result.states, proxies |-> proxies]]
  BY <1>0
<1> HIDE DEF d, e
<1>3. d = [images |-> c.images, states |-> c.states, skins |-> c.skins, models |-> d.models,
           proxies |-> d.proxies,
           result |-> [states |-> d.result.states, proxies |-> d.result.proxies]]
  BY <1>1
<1>4. e = [images |-> c.images, states |-> c.states, skins |-> c.skins, models |-> e.models,
           proxies |-> e.proxies,
           result |-> [states |-> e.result.states, proxies |-> e.result.proxies]]
  BY <1>2
<1>5. IsCache(d) /\ IsCache(e)
  BY <1>3, <1>4, SameLists
<1>. QED
  BY <1>5 DEF d, e

LEMMA ReferenceIsCache ==
  ASSUME NEW c, IsCache(c), NEW model, NEW fresh
  PROVE  IsCache(getExternalReferenceNode(c, model, fresh))
BY ProxiesIsCache DEF getExternalReferenceNode

-----------------------------------------------------------------------------
(***************************************************************************)
(* What the packager does with it.                                         *)
(***************************************************************************)
\* As many images as before, each with the origin that it had
LEMMA RewrittenIsCache ==
  ASSUME NEW packager, NEW c, IsCache(c)
  PROVE  IsCache(rewriteResourceReferences(packager, c))
<1> DEFINE images == [i \in DOMAIN c.images |->
                        IF i \in Shown(c)
                        THEN [c.images[i] EXCEPT !.path = Rewritten(packager, @)]
                        ELSE c.images[i]]
           proxies == [p \in DOMAIN c.proxies |->
                         IF p \in c.result.proxies
                         THEN [c.proxies[p] EXCEPT !.name = Simple(@)] ELSE c.proxies[p]]
           e == [c EXCEPT !.images = images]
           d == [e EXCEPT !.proxies = proxies]
<1>0. c = [images |-> c.images, states |-> c.states, skins |-> c.skins, models |-> c.models,
           proxies |-> c.proxies,
           result |-> [states |-> c.result.states, proxies |-> c.result.proxies]]
  BY DEF IsCache
<1>1. \A image \in Range(c.images) : Fit(image)
  BY DEF IsCache
<1>2. ASSUME NEW i \in DOMAIN c.images PROVE Fit(images[i])
  <2>1. Fit(c.images[i]) /\ "origin" \in DOMAIN c.images[i]
    BY <1>1 DEF Range, Fit
  <2>2. "origin" \in DOMAIN images[i] /\ images[i].origin = c.images[i].origin
    BY <2>1
  <2> HIDE DEF images
  <2>. QED
    BY <2>1, <2>2, SameOriginFits
<1>3. DOMAIN images = DOMAIN c.images /\ images = [i \in DOMAIN images |-> images[i]]
  OBVIOUS
<1>4. rewriteResourceReferences(packager, c) = d
  <2>1. rewriteResourceReferences(packager, c)
          = [c EXCEPT !.images = images, !.proxies = proxies]
    BY DEF rewriteResourceReferences
  <2> HIDE DEF images, proxies
  <2>. QED
    BY <2>1
<1> HIDE DEF images, proxies
<1>5. e = [images |-> images, states |-> c.states, skins |-> c.skins, models |-> c.models,
           proxies |-> c.proxies,
           result |-> [states |-> c.result.states, proxies |-> c.result.proxies]]
  BY <1>0
<1> HIDE DEF e
<1>6. /\ e.images = images /\ e.states = c.states /\ e.skins = c.skins
      /\ e = [images |-> e.images, states |-> e.states, skins |-> e.skins, models |-> e.models,
              proxies |-> e.proxies,
              result |-> [states |-> e.result.states, proxies |-> e.result.proxies]]
  BY <1>5
<1>7. images \in Seq(Range(images)) /\ Len(images) = Len(c.images)
  BY <1>3, ListMapped DEF IsCache
<1>8. \A image \in Range(images) : Fit(image)
  BY <1>2, <1>3 DEF Range
<1>9. IsCache(e)
  BY <1>6, <1>7, <1>8 DEF IsCache
<1>10. IsCache(d)
  BY <1>9, ProxiesIsCache
<1>. QED
  BY <1>4, <1>10

\* An image more, with the origin of one that there is
LEMMA InlineTextureIsCache ==
  ASSUME NEW packager, NEW c, IsCache(c), NEW skin, skin.state \in 1..Len(c.states)
  PROVE  /\ IsCache(InlineTexture(packager, c, skin))
         /\ InlineTexture(packager, c, skin).skins = c.skins
         /\ Len(InlineTexture(packager, c, skin).states) = Len(c.states)
<1>1. CASE c.states[skin.state] = <<>>
  BY <1>1 DEF InlineTexture
<1>2. CASE c.states[skin.state] # <<>>
  <2> DEFINE s == skin.state
             m == Len(c.images)
             l == Len(c.states)
             units == c.states[s]
             old == c.images[Head(units)]
             new == Output(packager, skin.limit, old).image
             images == Append(c.images, new)
             changed == [units EXCEPT ![1] = m + 1]
             states == [c.states EXCEPT ![s] = changed]
             d == InlineTexture(packager, c, skin)
             e == [c EXCEPT !.images = images]
  <2>0. c = [images |-> c.images, states |-> c.states, skins |-> c.skins, models |-> c.models,
             proxies |-> c.proxies,
             result |-> [states |-> c.result.states, proxies |-> c.result.proxies]]
    BY DEF IsCache
  <2>1. /\ c.states \in Seq(Seq(1..m)) /\ c.images \in Seq(Range(c.images))
        /\ s \in 1..l /\ l \in Nat /\ m \in Nat
    BY DEF IsCache
  <2>2. units \in Seq(1..m) /\ units # <<>>
    <3>1. units # <<>>
      BY <1>2
    <3> DEFINE A == Seq(1..m)
    <3> HIDE DEF A, m, l, s
    <3>2. c.states \in Seq(A) /\ s \in 1..l
      BY <2>1 DEF A
    <3>3. units \in A
      BY <3>2 DEF l
    <3>. QED
      BY <3>1, <3>3 DEF A
  <2>3. Head(units) \in 1..m
    <3> DEFINE A == 1..m
    <3>1. units \in Seq(A) /\ units # <<>>
      BY <2>2
    <3> HIDE DEF units, A
    <3>2. Head(units) \in A
      BY <3>1
    <3>. QED
      BY <3>2 DEF A
  <2>4. Fit(old)
    <3>1. DOMAIN c.images = 1..m
      BY <2>1
    <3> HIDE DEF units, m
    <3>2. old \in Range(c.images)
      BY <2>3, <3>1 DEF Range
    <3>. QED
      BY <3>2 DEF IsCache
  <2>5. Fit(new)
    <3> HIDE DEF old
    <3>. QED
      BY <2>4, OutputsFit
  <2> HIDE DEF new
  <2>6. /\ images \in Seq(Range(images)) /\ Range(images) = Range(c.images) \cup {new}
        /\ Len(images) = m + 1
    BY <2>1, ListAppend
  <2>7. \A image \in Range(images) : Fit(image)
    BY <2>5, <2>6 DEF IsCache
  <2>8. changed \in Seq(1..(m + 1))
    <3> DEFINE n == Len(units)
    <3>1. n \in Nat /\ DOMAIN units = 1..n /\ \A i \in 1..n : units[i] \in 1..m
      <4> DEFINE A == 1..m
      <4>1. units \in Seq(A)
        BY <2>2
      <4> HIDE DEF units, A
      <4>2. n \in Nat /\ DOMAIN units = 1..n /\ \A i \in 1..n : units[i] \in A
        BY <4>1
      <4>. QED
        BY <4>2 DEF A
    <3>2. \A i \in 1..n : changed[i] \in 1..(m + 1)
      <4>1. ASSUME NEW i \in 1..n PROVE changed[i] = IF i = 1 THEN m + 1 ELSE units[i]
        <5> HIDE DEF units, m, n
        <5>. QED
          BY <3>1
      <4> HIDE DEF changed, n, units, m
      <4>2. m + 1 \in 1..(m + 1)
        BY <2>1
      <4>3. 1..m \subseteq 1..(m + 1)
        BY <2>1
      <4>. QED
        BY <4>1, <4>2, <4>3, <3>1
    <3>3. DOMAIN changed = 1..n /\ changed = [i \in DOMAIN changed |-> changed[i]]
      <4> HIDE DEF units, m, n
      <4>. QED
        BY <3>1
    <3> HIDE DEF changed, m, n
    <3>4. changed \in [1..n -> 1..(m + 1)]
      BY <3>2, <3>3
    <3>. QED
      BY <3>1, <3>4, FunctionIsSeq
  <2>9. states \in Seq(Seq(1..(m + 1))) /\ Len(states) = l
    <3>1. c.states \in Seq(Seq(1..(m + 1)))
      <4>1. m + 1 \in Nat /\ m <= m + 1
        <5> HIDE DEF m
        <5>. QED
          BY <2>1
      <4> HIDE DEF m
      <4>. QED
        BY <2>1, <4>1, MoreImages
    <3> DEFINE A == Seq(1..(m + 1))
    <3>2. c.states \in Seq(A) /\ changed \in A /\ s \in 1..Len(c.states)
      BY <2>1, <2>8, <3>1
    <3> HIDE DEF A, changed, m, s
    <3>3. states \in Seq(A) /\ Len(states) = Len(c.states)
      BY <3>2
    <3>. QED
      BY <3>3 DEF A, l
  <2>10. d = [e EXCEPT !.states = states]
    <3>1. d = [c EXCEPT !.images = images, !.states = states]
      BY <1>2 DEF InlineTexture, SkinOutput, new
    <3> HIDE DEF d, images, states
    <3>. QED
      BY <3>1
  <2> HIDE DEF images, states, m, l, s, d
  <2>11. e = [images |-> images, states |-> c.states, skins |-> c.skins, models |-> c.models,
              proxies |-> c.proxies,
              result |-> [states |-> c.result.states, proxies |-> c.result.proxies]]
    BY <2>0
  <2> HIDE DEF e
  <2>12. d = [images |-> images, states |-> states, skins |-> c.skins, models |-> c.models,
              proxies |-> c.proxies,
              result |-> [states |-> c.result.states, proxies |-> c.result.proxies]]
    BY <2>10, <2>11
  <2>13. /\ d.images = images /\ d.states = states /\ d.skins = c.skins
         /\ d = [images |-> d.images, states |-> d.states, skins |-> d.skins, models |-> d.models,
                 proxies |-> d.proxies,
                 result |-> [states |-> d.result.states, proxies |-> d.result.proxies]]
    BY <2>12
  <2>14. c.skins \in Seq(Range(c.skins)) /\ \A k \in Range(c.skins) : k.state \in 1..l
    BY DEF IsCache, l
  <2>15. IsCache(d)
    BY <2>6, <2>7, <2>9, <2>13, <2>14 DEF IsCache
  <2>. QED
    BY <2>9, <2>13, <2>15 DEF d, l
<1>. QED
  BY <1>1, <1>2

\* The loop over the skins, up to the m-th
InlinesTextures(packager, c, m, f) ==
  f = [n \in 0..m |-> IF n = 0 THEN c ELSE InlineTexture(packager, f[n - 1], c.skins[n])]

LEMMA InlineLoop ==
  ASSUME NEW packager, NEW c, Len(c.skins) \in Nat
  PROVE  \E f : InlinesTextures(packager, c, Len(c.skins), f)
<1> DEFINE N == Len(c.skins)
           P == {m \in 0..N : \E f : InlinesTextures(packager, c, m, f)}
<1>1. 0 \in P
  <2> DEFINE f == [n \in 0..0 |-> c]
  <2>1. InlinesTextures(packager, c, 0, f)
    BY DEF InlinesTextures
  <2> HIDE DEF f
  <2>2. 0 \in 0..N
    OBVIOUS
  <2>. QED
    BY <2>1, <2>2
<1>2. ASSUME NEW m \in 1..N, m - 1 \in P PROVE m \in P
  <2>1. PICK f : InlinesTextures(packager, c, m - 1, f)
    BY <1>2
  <2> DEFINE g == [n \in 0..m |-> IF n = m THEN InlineTexture(packager, f[m - 1], c.skins[m]) ELSE f[n]]
  <2>2. ASSUME NEW n \in 0..m PROVE g[n] = IF n = 0 THEN c ELSE InlineTexture(packager, g[n - 1], c.skins[n])
    <3>1. CASE n = m
      <4>1. m # 0 /\ m - 1 \in 0..m /\ m - 1 # m
        OBVIOUS
      <4>2. g[m - 1] = f[m - 1]
        BY <4>1
      <4>3. g[n] = InlineTexture(packager, f[m - 1], c.skins[m])
        BY <3>1
      <4> HIDE DEF g
      <4>. QED
        BY <4>1, <4>2, <4>3, <3>1
    <3>2. CASE n # m
      <4>1. n \in 0..(m - 1)
        BY <3>2
      <4>2. g[n] = f[n]
        BY <3>2
      <4>3. f[n] = IF n = 0 THEN c ELSE InlineTexture(packager, f[n - 1], c.skins[n])
        BY <2>1, <4>1 DEF InlinesTextures
      <4>4. CASE n = 0
        <5> HIDE DEF g
        <5>. QED
          BY <4>2, <4>3, <4>4
      <4>5. CASE n # 0
        <5>1. n - 1 \in 0..m /\ n - 1 # m
          BY <4>5
        <5>2. g[n - 1] = f[n - 1]
          BY <5>1
        <5> HIDE DEF g
        <5>. QED
          BY <4>2, <4>3, <4>5, <5>2
      <4>. QED
        BY <4>4, <4>5
    <3>. QED
      BY <3>1, <3>2
  <2>3. g = [n \in 0..m |-> g[n]]
    OBVIOUS
  <2> HIDE DEF g
  <2>4. InlinesTextures(packager, c, m, g)
    BY <2>2, <2>3 DEF InlinesTextures
  <2>5. m \in 0..N
    OBVIOUS
  <2>. QED
    BY <2>4, <2>5
<1>3. N \in Nat
  OBVIOUS
<1> HIDE DEF P
<1>4. 0..N \subseteq P
  <2> HIDE DEF N
  <2>. QED
    BY <1>1, <1>2, <1>3, CountUp
<1>5. N \in P
  BY <1>3, <1>4
<1>. QED
  BY <1>5 DEF P

LEMMA InlinedIsCache ==
  ASSUME NEW packager, NEW c, IsCache(c)
  PROVE  IsCache(InlineTextures(packager, c))
<1> DEFINE N == Len(c.skins)
           f == CHOOSE g : g = [n \in 0..N |->
                  IF n = 0 THEN c ELSE InlineTexture(packager, g[n - 1], c.skins[n])]
           l == Len(c.states)
<1>0. N \in Nat /\ DOMAIN c.skins = 1..N
  BY DEF IsCache
<1>1. \E g : InlinesTextures(packager, c, N, g)
  BY <1>0, InlineLoop
<1>2. InlinesTextures(packager, c, N, f)
  BY <1>1 DEF InlinesTextures
<1>3. InlineTextures(packager, c) = f[N]
  BY DEF InlineTextures
<1> HIDE DEF f
<1>4. /\ f[0] = c
      /\ \A n \in 1..N : f[n] = InlineTexture(packager, f[n - 1], c.skins[n])
  <2>1. 0 \in 0..N /\ f[0] = IF 0 = 0 THEN c ELSE InlineTexture(packager, f[0 - 1], c.skins[0])
    BY <1>0, <1>2 DEF InlinesTextures
  <2>2. ASSUME NEW n \in 1..N PROVE f[n] = InlineTexture(packager, f[n - 1], c.skins[n])
    <3>1. n \in 0..N /\ n # 0
      BY <1>0
    <3>. QED
      BY <1>2, <3>1 DEF InlinesTextures
  <2>. QED
    BY <2>1, <2>2
<1>5. \A n \in 1..N : c.skins[n].state \in 1..l
  BY <1>0 DEF IsCache, Range
<1> HIDE DEF l, N
<1> DEFINE P == {n \in 0..N : IsCache(f[n]) /\ f[n].skins = c.skins /\ Len(f[n].states) = l}
<1>6. 0 \in P
  BY <1>0, <1>4 DEF l
<1>7. ASSUME NEW n \in 1..N, n - 1 \in P PROVE n \in P
  <2>1. IsCache(f[n - 1]) /\ f[n - 1].skins = c.skins /\ Len(f[n - 1].states) = l
    BY <1>7
  <2>2. c.skins[n].state \in 1..Len(f[n - 1].states)
    BY <2>1, <1>5
  <2>3. f[n] = InlineTexture(packager, f[n - 1], c.skins[n])
    BY <1>4
  <2>4. IsCache(f[n]) /\ f[n].skins = c.skins /\ Len(f[n].states) = l
    BY <2>1, <2>2, <2>3, InlineTextureIsCache
  <2>5. n \in 0..N
    BY <1>0
  <2>. QED
    BY <2>4, <2>5
<1> HIDE DEF P
<1>8. 0..N \subseteq P
  BY <1>0, <1>6, <1>7, CountUp
<1>9. N \in P
  BY <1>0, <1>8
<1>. QED
  BY <1>3, <1>9 DEF P

-----------------------------------------------------------------------------
(***************************************************************************)
(* The steps.                                                              *)
(***************************************************************************)
LEMMA InitOverlay == Init => OverlayInv
<1> SUFFICES ASSUME Init PROVE OverlayInv
  OBVIOUS
<1> USE DEF Init
<1>1. CachesInv
  BY EmptyIsCache DEF CachesInv
<1>2. StepsInv
  BY DEF StepsInv, Phases
<1>3. PartsInv
  BY DEF PartsInv, RasterInv, PassedInv
<1>. QED
  BY <1>1, <1>2, <1>3 DEF OverlayInv

\* A run begins and ends with nothing in memory.
LEMMA FreshOverlay ==
  ASSUME OverlayInv, Fresh, layer' = layer
  PROVE  OverlayInv'
<1> USE DEF Fresh
<1>1. CachesInv'
  BY EmptyIsCache DEF CachesInv
<1>2. StepsInv'
  BY DEF OverlayInv, StepsInv, Phases
<1>3. PartsInv'
  BY DEF PartsInv, RasterInv, PassedInv
<1>. QED
  BY <1>1, <1>2, <1>3 DEF OverlayInv

\* What a step does to the cache of one cell
LEMMA CacheStep ==
  ASSUME CachesInv, NEW c \in Cells, NEW new, IsCache(new), cache' = [cache EXCEPT ![c] = new]
  PROVE  CachesInv'
<1>1. DOMAIN cache = Cells /\ \A d \in Cells : IsCache(cache[d])
  BY DEF CachesInv
<1>2. /\ DOMAIN cache' = Cells
      /\ \A d \in Cells : cache'[d] = IF d = c THEN new ELSE cache[d]
  BY <1>1
<1>3. \A d \in Cells : IsCache(cache'[d])
  BY <1>1, <1>2
<1>. QED
  BY <1>2, <1>3 DEF CachesInv

\* No other step moves a cell that looks at the parts of a raster.
LEMMA OthersStep ==
  ASSUME StepsInv, PartsInv, layer' = layer,
         UNCHANGED <<parts_initialized, extents, pixel_format>>,
         phase' \in [Cells -> Phases], at' \in [Cells -> Nat], DOMAIN part' = Cells,
         \A d \in Cells : part'[d] # 0 =>
           part'[d] = part[d] /\ phase'[d] = phase[d] /\ at'[d] = at[d]
  PROVE  StepsInv' /\ PartsInv'
<1>1. ASSUME NEW d \in Cells, part'[d] # 0
      PROVE  /\ part'[d] = part[d] /\ part[d] # 0
             /\ UseOf(d)' = UseOf(d)
             /\ Compiling(d, "raster")'
  <2>1. part'[d] = part[d] /\ phase'[d] = phase[d] /\ at'[d] = at[d]
    BY <1>1
  <2>2. part[d] # 0
    BY <1>1, <2>1
  <2>3. Compiling(d, "raster")
    BY <2>2 DEF StepsInv
  <2>. QED
    BY <2>1, <2>2, <2>3 DEF Compiling, UseOf, Uses
<1>2. StepsInv'
  BY <1>1 DEF StepsInv
<1>3. ASSUME NEW d \in Cells PROVE PassedInv(d)'
  <2>1. PassedInv(d)
    BY DEF PartsInv
  <2>. QED
    BY <1>1, <2>1 DEF PassedInv, RasterOf
<1>4. PartsInv'
  BY <1>3 DEF PartsInv, RasterInv
<1>. QED
  BY <1>2, <1>4

\* A use of a resource that is no raster, or the end of one that is
LEMMA UsedStep ==
  ASSUME OverlayInv, NEW c \in Cells, NEW new, IsCache(new), Used(c, new),
         UNCHANGED <<parts_initialized, extents, pixel_format>>, DOMAIN part' = Cells,
         part'[c] = 0, \A d \in Cells \ {c} : part'[d] = part[d]
  PROVE  OverlayInv'
<1>1. CachesInv'
  BY CacheStep DEF OverlayInv, Used
<1>2. layer' = layer /\ phase' = phase /\ phase \in [Cells -> Phases] /\ at \in [Cells -> Nat]
  BY DEF OverlayInv, StepsInv, Used, CompileFrame
<1>3. /\ at' \in [Cells -> Nat]
      /\ \A d \in Cells \ {c} : at'[d] = at[d]
  BY <1>2 DEF Used
<1>4. \A d \in Cells : part'[d] # 0 =>
        part'[d] = part[d] /\ phase'[d] = phase[d] /\ at'[d] = at[d]
  BY <1>2, <1>3
<1>5. StepsInv' /\ PartsInv'
  BY <1>2, <1>3, <1>4, OthersStep DEF OverlayInv
<1>. QED
  BY <1>1, <1>5 DEF OverlayInv

\* The cells that use another resource do not look at parts.
LEMMA NotLooking ==
  ASSUME StepsInv, NEW c \in Cells, NEW kind, Compiling(c, kind), kind # "raster"
  PROVE  part[c] = 0
BY DEF StepsInv, Compiling

LEMMA WearIsCache ==
  ASSUME NEW lib, NEW c, IsCache(c), NEW u
  PROVE  IsCache(WearSkin(lib, c, u))
BY ApplySkinIsCache DEF WearSkin

LEMMA InlineIsCache ==
  ASSUME NEW lib, NEW c, IsCache(c), NEW u
  PROVE  IsCache(InlineModel(lib, c, u))
<1> DEFINE got == getNode(c, ModelOf(lib, u), u.by = "path")
           states == NodeOf(got, ModelOf(lib, u))
<1>1. ASSUME Readable(lib, u) PROVE IsCache(registerTextures(Show(got, states), states, u.limit))
  <2>1. IsCache(got)
    BY <1>1, GetNodeIsCache DEF Readable
  <2> HIDE DEF got, states
  <2>2. IsCache(Show(got, states))
    BY <2>1, ShowIsCache
  <2>. QED
    BY <2>2, TexturesIsCache
<1>. QED
  BY <1>1 DEF InlineModel

LEMMA ReferIsCache ==
  ASSUME NEW lib, NEW c, IsCache(c), NEW u
  PROVE  IsCache(ReferToModel(lib, c, u))
<1> DEFINE model == ModelOf(lib, u)
           got == getExternalReferenceNode(c, model, u.by = "path")
           proxies == got.result.proxies \cup {ProxyOf(got, model)}
<1>1. IsCache(got)
  BY ReferenceIsCache
<1>2. ReferToModel(lib, c, u)
        = IF model = NoResource THEN c ELSE [got EXCEPT !.result.proxies = proxies]
  BY DEF ReferToModel
<1> HIDE DEF got, proxies, model
<1>3. IsCache([got EXCEPT !.result.proxies = proxies])
  BY <1>1, ProxiesIsCache
<1>. QED
  BY <1>2, <1>3

LEMMA CopyIsCache ==
  ASSUME NEW lib, NEW c, IsCache(c), NEW u
  PROVE  IsCache(CopyModel(lib, c, u))
<1> DEFINE sets == ModelFiles[ModelOf(lib, u).uri]
           got == IF u.by = "name" THEN getNode(c, ModelOf(lib, u), FALSE) ELSE c
           states == NewStates(got, sets)
           copied == AddStates(got, sets)
<1>1. ASSUME Readable(lib, u) PROVE IsCache(registerTextures(Show(copied, states), states, u.limit))
  <2>1. IsCache(got)
    BY <1>1, GetNodeIsCache DEF Readable
  <2> HIDE DEF got
  <2>2. IsCache(copied)
    BY <1>1, <2>1, AddModelIsCache DEF Readable
  <2> HIDE DEF copied, states
  <2>3. IsCache(Show(copied, states))
    BY <2>2, ShowIsCache
  <2>. QED
    BY <2>3, TexturesIsCache
<1>. QED
  BY <1>1 DEF CopyModel

LEMMA WallsStep ==
  ASSUME OverlayInv, NEW c \in Cells, ExtrudeWalls(c)
  PROVE  OverlayInv'
<1> DEFINE new == WearSkin(session.resources, cache[c], UseOf(c))
<1>1. IsCache(new)
  BY WearIsCache DEF OverlayInv, CachesInv
<1>2. Used(c, new) /\ UNCHANGED rasterVars
  BY DEF ExtrudeWalls
<1>3. part[c] = 0 /\ DOMAIN part = Cells
  BY NotLooking DEF OverlayInv, ExtrudeWalls, StepsInv
<1> HIDE DEF new
<1>. QED
  BY <1>1, <1>2, <1>3, UsedStep DEF rasterVars

LEMMA ModelStep ==
  ASSUME OverlayInv, NEW c \in Cells, SubstituteModel(c)
  PROVE  OverlayInv'
<1> DEFINE u == UseOf(c)
           new == IF u.inline THEN InlineModel(session.resources, cache[c], u)
                  ELSE ReferToModel(session.resources, cache[c], u)
<1>1. IsCache(new)
  BY InlineIsCache, ReferIsCache DEF OverlayInv, CachesInv
<1>2. Used(c, new) /\ UNCHANGED rasterVars
  BY DEF SubstituteModel
<1>3. part[c] = 0 /\ DOMAIN part = Cells
  BY NotLooking DEF OverlayInv, SubstituteModel, StepsInv
<1> HIDE DEF new
<1>. QED
  BY <1>1, <1>2, <1>3, UsedStep DEF rasterVars

LEMMA ClusterStep ==
  ASSUME OverlayInv, NEW c \in Cells, ClusterModels(c)
  PROVE  OverlayInv'
<1> DEFINE new == CopyModel(session.resources, cache[c], UseOf(c))
<1>1. IsCache(new)
  BY CopyIsCache DEF OverlayInv, CachesInv
<1>2. Used(c, new) /\ UNCHANGED rasterVars
  BY DEF ClusterModels
<1>3. part[c] = 0 /\ DOMAIN part = Cells
  BY NotLooking DEF OverlayInv, ClusterModels, StepsInv
<1> HIDE DEF new
<1>. QED
  BY <1>1, <1>2, <1>3, UsedStep DEF rasterVars

\* The parts of a raster are numbered.
LEMMA PartsOf ==
  ASSUME NEW r \in DOMAIN Parts
  PROVE  /\ NumParts(r) \in Nat /\ DOMAIN Parts[r] = 1..NumParts(r)
         /\ \A p \in Good(r) : p \in 1..NumParts(r)
<1>1. Parts[r] \in Seq(Range(Parts[r]))
  BY PartsAssumption
<1>2. Len(Parts[r]) \in Nat /\ DOMAIN Parts[r] = 1..Len(Parts[r])
  BY <1>1
<1>. QED
  BY <1>2 DEF NumParts, Good

\* Only one cell moves on, and it stays at its raster.
LEMMA LookingStep ==
  ASSUME OverlayInv, NEW c \in Cells, Compiling(c, "raster"), CompileFrame,
         UNCHANGED <<phase, at, cache>>,
         DOMAIN part' = Cells, \A d \in Cells \ {c} : part'[d] = part[d]
  PROVE  /\ CachesInv' /\ StepsInv'
         /\ \A d \in Cells : UseOf(d)' = UseOf(d) /\ RasterOf(d)' = RasterOf(d)
<1>1. layer' = layer /\ phase' = phase /\ at' = at /\ cache' = cache
  BY DEF CompileFrame
<1>2. CachesInv'
  BY <1>1 DEF OverlayInv, CachesInv
<1>3. \A d \in Cells : /\ UseOf(d)' = UseOf(d) /\ RasterOf(d)' = RasterOf(d)
                       /\ Compiling(d, "raster") => Compiling(d, "raster")'
  BY <1>1 DEF UseOf, Uses, RasterOf, Compiling
<1>4. ASSUME NEW d \in Cells, part'[d] # 0 PROVE Compiling(d, "raster")
  BY <1>4 DEF OverlayInv, StepsInv
<1>5. StepsInv'
  BY <1>1, <1>3, <1>4 DEF OverlayInv, StepsInv
<1>. QED
  BY <1>2, <1>3, <1>5

LEMMA LookStep ==
  ASSUME OverlayInv, NEW c \in Cells, LookAtParts(c)
  PROVE  OverlayInv'
<1> DEFINE r == RasterOf(c)
           next == IF parts_initialized[r] THEN NumParts(r) + 2 ELSE 1
<1>1. /\ Compiling(c, "raster") /\ CompileFrame /\ UNCHANGED <<phase, at, cache>>
      /\ UNCHANGED <<parts_initialized, extents, pixel_format>>
      /\ part' = [part EXCEPT ![c] = next]
  BY DEF LookAtParts
<1>2. DOMAIN part' = Cells /\ part'[c] = next /\ \A d \in Cells \ {c} : part'[d] = part[d]
  <2> HIDE DEF next
  <2>. QED
    BY <1>1 DEF OverlayInv, StepsInv
<1>3. /\ CachesInv' /\ StepsInv'
      /\ \A d \in Cells : UseOf(d)' = UseOf(d) /\ RasterOf(d)' = RasterOf(d)
  BY <1>1, <1>2, LookingStep
<1>4. PassedInv(c)'
  <2>1. RasterOf(c)' = r /\ extents' = extents /\ part'[c] = next
    BY <1>1, <1>2, <1>3
  <2>2. ASSUME r \in DOMAIN Parts
        PROVE  next \in Nat /\ \A p \in Good(r) : p < next => p \in extents[r]
    <3>1. /\ NumParts(r) \in Nat
          /\ \A p \in Good(r) : p \in 1..NumParts(r)
      BY <2>2, PartsOf
    <3>2. parts_initialized[r] => Good(r) \subseteq extents[r]
      BY <2>2 DEF OverlayInv, PartsInv, RasterInv
    <3> HIDE DEF r
    <3>3. CASE parts_initialized[r]
      BY <3>1, <3>2, <3>3
    <3>4. CASE ~parts_initialized[r]
      BY <3>1, <3>4
    <3>. QED
      BY <3>3, <3>4
  <2> HIDE DEF next, r
  <2>. QED
    BY <2>1, <2>2 DEF PassedInv
<1>5. ASSUME NEW d \in Cells \ {c} PROVE PassedInv(d)'
  <2>1. PassedInv(d)
    BY DEF OverlayInv, PartsInv
  <2>2. part'[d] = part[d] /\ extents' = extents /\ RasterOf(d)' = RasterOf(d)
    BY <1>1, <1>2, <1>3
  <2>. QED
    BY <2>1, <2>2 DEF PassedInv
<1>6. PartsInv'
  BY <1>1, <1>4, <1>5 DEF OverlayInv, PartsInv, RasterInv
<1>. QED
  BY <1>3, <1>6 DEF OverlayInv

\* More is known of a raster and nothing forgotten.
LEMMA KnownStep ==
  ASSUME PartsInv, NEW d \in Cells, PassedInv(d),
         part'[d] = part[d], RasterOf(d)' = RasterOf(d),
         RasterOf(d) \in DOMAIN Parts => extents[RasterOf(d)] \subseteq extents'[RasterOf(d)]
  PROVE  PassedInv(d)'
BY DEF PassedInv

LEMMA PartStep ==
  ASSUME OverlayInv, NEW c \in Cells, initPart(c)
  PROVE  OverlayInv'
<1> DEFINE r == RasterOf(c)
           q == part[c]
           connects == Parts[r][q].connects
           format == Parts[r][q].pixel_format
<1>1. /\ Compiling(c, "raster") /\ CompileFrame /\ UNCHANGED <<phase, at, cache>>
      /\ part' = [part EXCEPT ![c] = q + 1] /\ parts_initialized' = parts_initialized
      /\ q # 0 /\ q <= NumParts(r)
      /\ connects => /\ extents' = [extents EXCEPT ![r] = @ \union {q}]
                     /\ pixel_format' = [pixel_format EXCEPT ![r] = format]
      /\ ~connects => extents' = extents /\ pixel_format' = pixel_format
  BY DEF initPart
<1>2. DOMAIN part' = Cells /\ part'[c] = q + 1 /\ \A d \in Cells \ {c} : part'[d] = part[d]
  <2> HIDE DEF q
  <2>. QED
    BY <1>1 DEF OverlayInv, StepsInv
<1>3. /\ CachesInv' /\ StepsInv'
      /\ \A d \in Cells : UseOf(d)' = UseOf(d) /\ RasterOf(d)' = RasterOf(d)
  BY <1>1, <1>2, LookingStep
<1>4. /\ DOMAIN extents = DOMAIN Parts /\ DOMAIN pixel_format = DOMAIN Parts
      /\ DOMAIN parts_initialized = DOMAIN Parts
      /\ \A s \in DOMAIN Parts : RasterInv(s)
      /\ \A d \in Cells : PassedInv(d)
  BY DEF OverlayInv, PartsInv
<1>5. r \in DOMAIN Parts => /\ q \in 1..NumParts(r) /\ NumParts(r) \in Nat
                            /\ q \in Nat /\ q \in DOMAIN Parts[r]
                            /\ \A p \in Good(r) : p \in 1..NumParts(r)
                            /\ \A p \in Good(r) : p < q => p \in extents[r]
  <2>1. ASSUME r \in DOMAIN Parts
        PROVE  q \in Nat /\ \A p \in Good(r) : p < q => p \in extents[r]
    BY <1>1, <1>4, <2>1 DEF PassedInv
  <2>2. ASSUME r \in DOMAIN Parts
        PROVE  /\ NumParts(r) \in Nat /\ DOMAIN Parts[r] = 1..NumParts(r)
               /\ \A p \in Good(r) : p \in 1..NumParts(r)
    BY <2>2, PartsOf
  <2> HIDE DEF q, r
  <2>. QED
    BY <1>1, <2>1, <2>2
<1> HIDE DEF r, q, connects, format
<1>6. /\ DOMAIN extents' = DOMAIN Parts /\ DOMAIN pixel_format' = DOMAIN Parts
      /\ DOMAIN parts_initialized' = DOMAIN Parts
  BY <1>1, <1>4
<1>7. \A s \in DOMAIN Parts : extents'[s] = IF connects /\ s = r THEN extents[s] \cup {q} ELSE extents[s]
  BY <1>1, <1>4
<1>8. \A s \in DOMAIN Parts : pixel_format'[s] = IF connects /\ s = r THEN format ELSE pixel_format[s]
  BY <1>1, <1>4
<1>9. ASSUME NEW s \in DOMAIN Parts PROVE RasterInv(s)'
  <2>1. RasterInv(s)
    BY <1>4
  <2>2. CASE connects /\ s = r
    <3>1. extents'[s] = extents[s] \cup {q} /\ pixel_format'[s] = format
      BY <1>7, <1>8, <2>2
    <3>2. q \in Good(s) /\ format = Parts[s][q].pixel_format
      BY <1>5, <2>2 DEF Good, connects, format
    <3>. QED
      BY <1>1, <2>1, <3>1, <3>2 DEF RasterInv
  <2>3. CASE ~(connects /\ s = r)
    <3>1. extents'[s] = extents[s] /\ pixel_format'[s] = pixel_format[s]
      BY <1>7, <1>8, <2>3
    <3>. QED
      BY <1>1, <2>1, <3>1 DEF RasterInv
  <2>. QED
    BY <2>2, <2>3
<1>10. PassedInv(c)'
  <2>1. RasterOf(c)' = r /\ part'[c] = q + 1
    BY <1>2, <1>3 DEF r
  <2>2. ASSUME r \in DOMAIN Parts, NEW p \in Good(r), p < q + 1
        PROVE  p \in extents'[r]
    <3>1. p < q \/ p = q
      BY <1>5, <2>2
    <3>2. CASE p < q
      BY <1>5, <1>7, <2>2, <3>2
    <3>3. CASE p = q
      <4>1. connects
        BY <3>3 DEF Good, connects
      <4>. QED
        BY <1>7, <2>2, <3>3, <4>1
    <3>. QED
      BY <3>1, <3>2, <3>3
  <2>3. r \in DOMAIN Parts => q + 1 \in Nat
    BY <1>5
  <2>. QED
    BY <2>1, <2>2, <2>3 DEF PassedInv
<1>11. ASSUME NEW d \in Cells \ {c} PROVE PassedInv(d)'
  <2>1. part'[d] = part[d] /\ RasterOf(d)' = RasterOf(d) /\ PassedInv(d)
    BY <1>2, <1>3, <1>4
  <2>2. RasterOf(d) \in DOMAIN Parts => extents[RasterOf(d)] \subseteq extents'[RasterOf(d)]
    BY <1>7
  <2>3. PartsInv
    BY DEF OverlayInv
  <2>. QED
    BY <2>1, <2>2, <2>3, KnownStep
<1>12. PartsInv'
  BY <1>6, <1>9, <1>10, <1>11 DEF PartsInv
<1>. QED
  BY <1>3, <1>12 DEF OverlayInv

LEMMA InitializedStep ==
  ASSUME OverlayInv, NEW c \in Cells, PartsInitialized(c)
  PROVE  OverlayInv'
<1> DEFINE r == RasterOf(c)
           q == part[c]
<1>1. /\ Compiling(c, "raster") /\ CompileFrame /\ UNCHANGED <<phase, at, cache>>
      /\ part' = [part EXCEPT ![c] = q + 1]
      /\ parts_initialized' = [parts_initialized EXCEPT ![r] = TRUE]
      /\ q # 0 /\ q = NumParts(r) + 1
      /\ extents' = extents /\ pixel_format' = pixel_format
  BY DEF PartsInitialized
<1>2. DOMAIN part' = Cells /\ part'[c] = q + 1 /\ \A d \in Cells \ {c} : part'[d] = part[d]
  <2> HIDE DEF q
  <2>. QED
    BY <1>1 DEF OverlayInv, StepsInv
<1>3. /\ CachesInv' /\ StepsInv'
      /\ \A d \in Cells : UseOf(d)' = UseOf(d) /\ RasterOf(d)' = RasterOf(d)
  BY <1>1, <1>2, LookingStep
<1>4. /\ DOMAIN extents = DOMAIN Parts /\ DOMAIN pixel_format = DOMAIN Parts
      /\ DOMAIN parts_initialized = DOMAIN Parts
      /\ \A s \in DOMAIN Parts : RasterInv(s)
      /\ \A d \in Cells : PassedInv(d)
  BY DEF OverlayInv, PartsInv
<1>5. r \in DOMAIN Parts => q \in Nat /\ Good(r) \subseteq extents[r]
  <2>1. ASSUME r \in DOMAIN Parts
        PROVE  q \in Nat /\ \A p \in Good(r) : p < q => p \in extents[r]
    BY <1>1, <1>4, <2>1 DEF PassedInv
  <2>2. ASSUME r \in DOMAIN Parts
        PROVE  NumParts(r) \in Nat /\ \A p \in Good(r) : p \in 1..NumParts(r)
    BY <2>2, PartsOf
  <2> HIDE DEF q, r
  <2>3. ASSUME r \in DOMAIN Parts, NEW p \in Good(r) PROVE p < q
    BY <1>1, <2>2, <2>3
  <2>. QED
    BY <2>1, <2>3
<1> HIDE DEF r, q
<1>6. \A s \in DOMAIN Parts : parts_initialized'[s] = IF s = r THEN TRUE ELSE parts_initialized[s]
  BY <1>1, <1>4
<1>7. ASSUME NEW s \in DOMAIN Parts PROVE RasterInv(s)'
  BY <1>1, <1>4, <1>5, <1>6 DEF RasterInv
<1>8. PassedInv(c)'
  <2>1. RasterOf(c)' = r /\ part'[c] = q + 1
    BY <1>2, <1>3 DEF r
  <2>2. r \in DOMAIN Parts => q + 1 \in Nat
    BY <1>5
  <2>. QED
    BY <1>1, <1>5, <2>1, <2>2 DEF PassedInv
<1>9. ASSUME NEW d \in Cells \ {c} PROVE PassedInv(d)'
  <2>1. part'[d] = part[d] /\ RasterOf(d)' = RasterOf(d) /\ PassedInv(d)
    BY <1>2, <1>3, <1>4
  <2>. QED
    BY <1>1, <2>1 DEF PassedInv
<1>10. PartsInv'
  BY <1>1, <1>4, <1>7, <1>8, <1>9 DEF PartsInv
<1>. QED
  BY <1>3, <1>10 DEF OverlayInv

\* A cell that has been through all parts, or found them initialised, sees all that connect.
LEMMA PastedFits ==
  ASSUME PartsInv, NEW c \in Cells, part[c] = NumParts(RasterOf(c)) + 2, part[c] # 0
  PROVE  Fit(Pasted(extents[RasterOf(c)], pixel_format[RasterOf(c)], UseOf(c)))
<1> DEFINE r == RasterOf(c)
           u == UseOf(c)
           image == Pasted(extents[r], pixel_format[r], u)
           parts == {p \in Met(extents[r], u) : Parts[r][p].pixel_format = pixel_format[r]}
<1>0. u.name = r
  BY DEF RasterOf
<1>1. /\ "origin" \in DOMAIN image
      /\ image.origin = [from |-> r, size |-> u.size, area |-> u.area, parts |-> parts]
  BY <1>0 DEF Pasted
<1> HIDE DEF image
<1>2. ASSUME r \in DOMAIN Parts, OneFormat(r)
      PROVE  parts = {p \in Good(r) : Parts[r][p].area \intersect u.area # {}}
  <2>1. extents[r] \subseteq Good(r)
        /\ (extents[r] # {} => \E p \in extents[r] : pixel_format[r] = Parts[r][p].pixel_format)
    BY <1>2 DEF PartsInv, RasterInv
  <2>2. \A p \in Good(r) : p < part[c] => p \in extents[r]
    BY <1>2 DEF PartsInv, PassedInv
  <2>3. NumParts(r) \in Nat /\ \A p \in Good(r) : p \in 1..NumParts(r)
    BY <1>2, PartsOf
  <2>4. part[c] = NumParts(r) + 2
    OBVIOUS
  <2> HIDE DEF r, u
  <2>5. extents[r] = Good(r)
    BY <2>1, <2>2, <2>3, <2>4
  <2>6. \A p \in Good(r) : Parts[r][p].pixel_format = pixel_format[r]
    BY <1>2, <2>1, <2>5 DEF OneFormat
  <2>. QED
    BY <1>0, <2>5, <2>6 DEF Met
<1> HIDE DEF parts, r, u
<1>3. IsComplete(image)
  BY <1>1, <1>2 DEF IsComplete
<1>. QED
  BY <1>1, <1>3 DEF Fit, image, r, u

\* An overlay is an image and a skin more.
LEMMA OverlayIsCache ==
  ASSUME NEW lib, NEW known, NEW format, NEW c, IsCache(c), NEW u,
         getRaster(lib, u.name) # NoResource /\ u.area # {} => Fit(Pasted(known, format, u))
  PROVE  IsCache(ApplyOverlay(lib, known, format, c, u))
<1> DEFINE image == Pasted(known, format, u)
           added == AddStates(c, <<<<image>>>>)
           state == Len(added.states)
           none == getRaster(lib, u.name) = NoResource \/ u.area = {} \/ Met(known, u) = {}
           shown == Show(added, {state})
           own == OwnSkin(state, 0)
           given == addSkin(shown, state, 0)
<1>1. ApplyOverlay(lib, known, format, c, u) = IF none THEN c ELSE given
  BY DEF ApplyOverlay
<1>2. ASSUME ~none PROVE IsCache(given)
  <2>1. Fit(image)
    BY <1>2
  <2> HIDE DEF image
  <2>2. IsCache(added) /\ state \in 1..Len(added.states)
    BY <2>1, AddImageIsCache
  <2> HIDE DEF added
  <2>3. IsCache(shown) /\ shown.states = added.states
    BY <2>2, ShowIsCache
  <2>4. own.state = state /\ given = [shown EXCEPT !.skins = Append(@, own)]
    BY DEF addSkin, OwnSkin
  <2> HIDE DEF shown, own, given
  <2>5. own.state \in 1..Len(shown.states)
    BY <2>2, <2>3, <2>4
  <2>. QED
    BY <2>3, <2>4, <2>5, SkinIsCache
<1> HIDE DEF given, none
<1>. QED
  BY <1>1, <1>2

LEMMA OverlayStep ==
  ASSUME OverlayInv, NEW c \in Cells, OverlayRaster(c)
  PROVE  OverlayInv'
<1> DEFINE u == UseOf(c)
           r == RasterOf(c)
           image == Pasted(extents[r], pixel_format[r], u)
           new == ApplyOverlay(session.resources, extents[r], pixel_format[r], cache[c], u)
<1>1. /\ Named(c) /\ u.area # {} => part[c] = NumParts(r) + 2
      /\ Used(c, new) /\ part' = [part EXCEPT ![c] = 0]
      /\ UNCHANGED <<parts_initialized, extents, pixel_format>>
      /\ r = u.name
  BY DEF OverlayRaster, RasterOf
<1>2. IsCache(cache[c]) /\ StepsInv /\ PartsInv /\ CachesInv
  BY DEF OverlayInv, CachesInv
<1>3. ASSUME Named(c), u.area # {} PROVE Fit(image)
  <2>1. part[c] = NumParts(r) + 2
    BY <1>1, <1>3
  <2>2. r \in DOMAIN Parts => part[c] # 0
    <3>1. ASSUME r \in DOMAIN Parts PROVE NumParts(r) \in Nat
      BY <3>1, PartsOf
    <3> DEFINE n == NumParts(r)
    <3> HIDE DEF n, u, r
    <3>2. n \in Nat => n + 2 # 0
      OBVIOUS
    <3>. QED
      BY <2>1, <3>1, <3>2 DEF n
  <2>3. CASE part[c] # 0
    BY <1>2, <2>1, <2>3, PastedFits
  <2>4. CASE r \notin DOMAIN Parts
    <3>1. "origin" \in DOMAIN image /\ image.origin.from = r
      BY <1>1 DEF Pasted
    <3> HIDE DEF image, u, r
    <3>. QED
      BY <2>4, <3>1 DEF Fit, IsComplete
  <2>. QED
    BY <2>2, <2>3, <2>4
<1>4. Named(c) <=> getRaster(session.resources, u.name) # NoResource
  BY <1>1 DEF Named
<1>5. IsCache(new)
  <2> HIDE DEF image
  <2>1. getRaster(session.resources, u.name) # NoResource /\ u.area # {} => Fit(image)
    BY <1>3, <1>4
  <2> HIDE DEF u, r
  <2>. QED
    BY <1>2, <2>1, OverlayIsCache DEF image
<1> HIDE DEF new
<1>6. DOMAIN part' = Cells /\ part'[c] = 0 /\ \A d \in Cells \ {c} : part'[d] = part[d]
  BY <1>1, <1>2 DEF StepsInv
<1>. QED
  BY <1>1, <1>5, <1>6, UsedStep

\* The cells that start, end or are done look at no parts.
LEMMA PhaseStep ==
  ASSUME OverlayInv, NEW c \in Cells, NEW p \in Phases, phase' = [phase EXCEPT ![c] = p],
         phase[c] # "compiling" \/ ~(at[c] <= Len(Uses(c))), CachesInv',
         UNCHANGED <<layer, at, part, parts_initialized, extents, pixel_format>>
  PROVE  OverlayInv'
<1>1. /\ phase \in [Cells -> Phases] /\ at \in [Cells -> Nat] /\ DOMAIN part = Cells
      /\ \A d \in Cells : part[d] # 0 => Compiling(d, "raster")
      /\ StepsInv /\ PartsInv
  BY DEF OverlayInv, StepsInv
<1>2. part[c] = 0
  BY <1>1 DEF Compiling
<1>3. phase' \in [Cells -> Phases] /\ \A d \in Cells \ {c} : phase'[d] = phase[d]
  BY <1>1
<1>4. StepsInv' /\ PartsInv'
  BY <1>1, <1>2, <1>3, OthersStep
<1>. QED
  BY <1>4 DEF OverlayInv

LEMMA StartCellStep ==
  ASSUME OverlayInv, NEW c \in Cells, StartCell(c)
  PROVE  OverlayInv'
<1> DEFINE p == IF ~layer.archived /\ nodes[c].exists THEN "done" ELSE "compiling"
<1>1. /\ phase[c] = "waiting" /\ phase' = [phase EXCEPT ![c] = p]
      /\ UNCHANGED <<layer, at, part, parts_initialized, extents, pixel_format>>
      /\ cache' = cache
  BY DEF StartCell, CompileFrame, rasterVars
<1>2. p \in Phases
  BY DEF Phases
<1>3. CachesInv'
  BY <1>1 DEF OverlayInv, CachesInv
<1> HIDE DEF p
<1>. QED
  BY <1>1, <1>2, <1>3, PhaseStep

LEMMA EndOfCellStep ==
  ASSUME OverlayInv, NEW c \in Cells, EndOfCell(c)
  PROVE  OverlayInv'
<1> DEFINE p == IF Uses(c) = <<>> THEN "done" ELSE "compiled"
<1>1. /\ at[c] > Len(Uses(c)) /\ phase' = [phase EXCEPT ![c] = p]
      /\ UNCHANGED <<layer, at, part, parts_initialized, extents, pixel_format>>
      /\ cache' = cache
  BY DEF EndOfCell, CompileFrame, rasterVars
<1>2. p \in Phases
  BY DEF Phases
<1>3. CachesInv'
  BY <1>1 DEF OverlayInv, CachesInv
<1>4. ~(at[c] <= Len(Uses(c)))
  <2>1. layer \in Layers /\ at[c] \in Nat
    BY DEF OverlayInv, StepsInv
  <2>2. layer.uses[c] \in Seq(Range(layer.uses[c]))
    BY <2>1, LayerAssumption
  <2>3. Len(Uses(c)) \in Nat
    BY <2>2 DEF Uses
  <2>. QED
    BY <1>1, <2>1, <2>3
<1> HIDE DEF p
<1>. QED
  BY <1>1, <1>2, <1>3, <1>4, PhaseStep

LEMMA PackagedIsCache ==
  ASSUME NEW packager, NEW c, IsCache(c)
  PROVE  IsCache(Packaged(packager, c))
<1> DEFINE rewritten == rewriteResourceReferences(packager, c)
<1>1. IsCache(rewritten)
  BY RewrittenIsCache
<1>2. Packaged(packager, c) = IF packager.inline THEN InlineTextures(packager, rewritten) ELSE rewritten
  BY DEF Packaged
<1> HIDE DEF rewritten
<1>. QED
  BY <1>1, <1>2, InlinedIsCache

LEMMA PackageStep ==
  ASSUME OverlayInv, NEW c \in Cells, Package(c)
  PROVE  OverlayInv'
<1> DEFINE packaged == Packaged(layer.packager[c], cache[c])
<1>1. /\ phase[c] = "compiled" /\ phase' = [phase EXCEPT ![c] = "packaging"]
      /\ UNCHANGED <<layer, at, part, parts_initialized, extents, pixel_format>>
      /\ cache' = [cache EXCEPT ![c] = packaged]
  BY DEF Package, rasterVars
<1>2. IsCache(packaged) /\ CachesInv
  BY PackagedIsCache DEF OverlayInv, CachesInv
<1> HIDE DEF packaged
<1>3. CachesInv'
  BY <1>1, <1>2, CacheStep
<1>4. "packaging" \in Phases /\ phase[c] # "compiling"
  BY <1>1 DEF Phases
<1>. QED
  BY <1>1, <1>3, <1>4, PhaseStep

LEMMA EndOfPackagingStep ==
  ASSUME OverlayInv, NEW c \in Cells, EndOfPackaging(c)
  PROVE  OverlayInv'
<1>1. /\ phase[c] = "packaging" /\ phase' = [phase EXCEPT ![c] = "done"]
      /\ UNCHANGED <<layer, at, part, parts_initialized, extents, pixel_format>>
      /\ cache' = [cache EXCEPT ![c] = EmptyCache]
  BY DEF EndOfPackaging, Packaging, PackageFrame, rasterVars
<1>2. CachesInv'
  BY <1>1, EmptyIsCache, CacheStep DEF OverlayInv
<1>3. "done" \in Phases /\ phase[c] # "compiling"
  BY <1>1 DEF Phases
<1>. QED
  BY <1>1, <1>2, <1>3, PhaseStep

\* Writing a file, and the end of the program, are about the disk.
LEMMA NoStep ==
  ASSUME OverlayInv, UNCHANGED <<layer, phase, at, rasterVars, cache>>
  PROVE  OverlayInv'
<1>1. CachesInv'
  BY DEF OverlayInv, CachesInv
<1>2. /\ layer' = layer /\ UNCHANGED <<parts_initialized, extents, pixel_format>>
      /\ phase' = phase /\ at' = at /\ part' = part
      /\ phase \in [Cells -> Phases] /\ at \in [Cells -> Nat] /\ DOMAIN part = Cells
      /\ StepsInv /\ PartsInv
  BY DEF OverlayInv, StepsInv, rasterVars
<1>3. StepsInv' /\ PartsInv'
  BY <1>2, OthersStep
<1>. QED
  BY <1>1, <1>3 DEF OverlayInv

\* Every step keeps the invariant of the overlays.
LEMMA NextOverlay == OverlayInv /\ [Next]_vars => OverlayInv'
<1> SUFFICES ASSUME OverlayInv, [Next]_vars PROVE OverlayInv'
  OBVIOUS
<1>1. CASE Start
  BY <1>1, FreshOverlay DEF Start
<1>2. CASE Crash
  BY <1>2, FreshOverlay DEF Crash
<1>3. CASE Finish
  BY <1>3, NoStep DEF Finish
<1>4. ASSUME NEW c \in Cells,
             \/ OpenFile(c) \/ WriteFile(c) \/ FailToWrite(c)
             \/ WriteNode(c) \/ FailToWriteNode(c)
      PROVE  OverlayInv'
  <2>1. UNCHANGED <<layer, phase, at, rasterVars, cache>>
    BY <1>4 DEF OpenFile, WriteFile, FailToWrite, WriteNode, FailToWriteNode, PackageFrame
  <2>. QED
    BY <2>1, NoStep
<1>5. ASSUME NEW c \in Cells,
             \/ StartCell(c) \/ ExtrudeWalls(c) \/ SubstituteModel(c) \/ ClusterModels(c)
             \/ LookAtParts(c) \/ initPart(c) \/ PartsInitialized(c) \/ OverlayRaster(c)
             \/ EndOfCell(c) \/ Package(c) \/ EndOfPackaging(c)
      PROVE  OverlayInv'
  BY <1>5, StartCellStep, WallsStep, ModelStep, ClusterStep, LookStep, PartStep,
     InitializedStep, OverlayStep, EndOfCellStep, PackageStep, EndOfPackagingStep
<1>6. CASE UNCHANGED vars
  BY <1>6, NoStep DEF vars
<1>. QED
  BY <1>1, <1>2, <1>3, <1>4, <1>5, <1>6 DEF Next

\* An overlay shows every part of its raster that can be connected to and that its area
\* meets, for any number of cells, workers, rasters and parts: also if another worker is
\* still looking the parts up, or a step ahead (RasterResource::applyToStateSet()).
THEOREM OverlaysAreComplete == Spec => []RastersAreComplete
<1>1. OverlayInv => RastersAreComplete
  <2> SUFFICES ASSUME OverlayInv, NEW c \in Cells, NEW image \in ToSet(cache[c].images)
               PROVE  IsComplete(image)
    BY DEF RastersAreComplete
  <2>1. image \in Range(cache[c].images)
    BY DEF ToSet, Range
  <2>. QED
    BY <2>1 DEF OverlayInv, CachesInv, IsCache, Fit
<1>. QED
  BY <1>1, InitOverlay, NextOverlay, PTL DEF Spec

\* The elements of the sequences that are put together
LEMMA FlattenRange ==
  ASSUME NEW A, NEW ss \in Seq(Seq(A))
  PROVE  \A x : x \in Range(FlattenSeq(ss)) <=> \E i \in 1..Len(ss) : x \in Range(ss[i])
<1> DEFINE S == {t \in Seq(Seq(A)) :
                   \A x : x \in Range(FlattenSeq(t)) <=> \E i \in 1..Len(t) : x \in Range(t[i])}
<1>1. <<>> \in S
  <2>1. Range(FlattenSeq(<<>>)) = {} /\ <<>> \in Seq(Seq(A)) /\ Len(<<>>) = 0
    BY FlattenEmpty, EmptyQueue
  <2>2. \A i \in 1..0 : FALSE
    OBVIOUS
  <2>. QED
    BY <2>1, <2>2
<1>2. ASSUME NEW t \in Seq(Seq(A)), NEW s \in Seq(A), t \in S PROVE Append(t, s) \in S
  <2> DEFINE u == Append(t, s)
  <2>1. /\ u \in Seq(Seq(A)) /\ Len(u) = Len(t) + 1 /\ Len(t) \in Nat /\ u[Len(t) + 1] = s
        /\ \A i \in 1..Len(t) : u[i] = t[i]
    OBVIOUS
  <2>2. FlattenSeq(u) = FlattenSeq(t) \o s /\ FlattenSeq(t) \in Seq(A)
    BY FlattenAppend, FlattenIsSeq
  <2>3. Range(FlattenSeq(u)) = Range(FlattenSeq(t)) \cup Range(s)
    <3>1. FlattenSeq(t) \in Seq(Range(FlattenSeq(t))) /\ s \in Seq(Range(s))
      BY <2>2, ListOf
    <3>. QED
      BY <2>2, <3>1, ListConcat
  <2> HIDE DEF u
  <2>4. ASSUME NEW x
        PROVE  x \in Range(FlattenSeq(u)) <=> \E i \in 1..Len(u) : x \in Range(u[i])
    <3>1. x \in Range(FlattenSeq(t)) <=> \E i \in 1..Len(t) : x \in Range(t[i])
      BY <1>2
    <3>2. (\E i \in 1..Len(u) : x \in Range(u[i]))
            <=> (\E i \in 1..Len(t) : x \in Range(u[i])) \/ x \in Range(u[Len(t) + 1])
      <4> DEFINE n == Len(t)
      <4>1. n \in Nat /\ Len(u) = n + 1
        BY <2>1
      <4> HIDE DEF n
      <4>2. \A i : i \in 1..(n + 1) <=> i \in 1..n \/ i = n + 1
        BY <4>1
      <4>. QED
        BY <4>1, <4>2 DEF n
    <3>. QED
      BY <2>1, <2>3, <3>1, <3>2
  <2>. QED
    BY <2>1, <2>4 DEF u
<1>3. Seq(Seq(A)) \subseteq S
  <2> HIDE DEF S
  <2>. QED
    BY <1>1, <1>2, AppendUp
<1>. QED
  BY <1>3

-----------------------------------------------------------------------------
(***************************************************************************)
(* What the filters put into a cache, for the packager to write.           *)
(***************************************************************************)
IsImage(image) ==
  /\ image = [path |-> image.path, origin |-> image.origin, size |-> image.size,
              pixel_format |-> image.pixel_format, compressed |-> image.compressed]
  /\ IsPath(image.path)
  /\ image.size \in Nat \ {0} /\ image.origin.size = image.size

IsProxy(proxy) ==
  proxy = [resource |-> proxy.resource,
           name |-> [NoName EXCEPT !.dir = "models", !.base = proxy.resource.uri]]

\* What is shown is in the lists, and wears a skin.
IsGiven(c) ==
  /\ IsCache(c)
  /\ \A image \in Range(c.images) : IsImage(image)
  /\ \A skin \in Range(c.skins) : skin.limit \in Nat
  /\ c.result.states \subseteq 1..Len(c.states)
  /\ \A s \in c.result.states : c.states[s] # <<>> => \E skin \in Range(c.skins) : skin.state = s
  /\ c.models \in Seq(Range(c.models))
  /\ \A model \in Range(c.models) : model.states \subseteq 1..Len(c.states)
  /\ c.proxies \in Seq(Range(c.proxies))
  /\ \A proxy \in Range(c.proxies) : IsProxy(proxy)
  /\ c.result.proxies \subseteq 1..Len(c.proxies)

LEMMA EmptyIsGiven == IsGiven(EmptyCache)
<1>1. /\ EmptyCache.images = <<>> /\ EmptyCache.states = <<>> /\ EmptyCache.skins = <<>>
      /\ EmptyCache.models = <<>> /\ EmptyCache.proxies = <<>>
      /\ EmptyCache.result.states = {} /\ EmptyCache.result.proxies = {}
  BY DEF EmptyCache
<1>2. Range(<<>>) = {} /\ <<>> \in Seq({})
  BY EmptyQueue
<1>. QED
  BY <1>1, <1>2, EmptyIsCache DEF IsGiven

\* Images of a file or a raster, with all they need
AreImages(images) ==
  IsImages(images) /\ \A image \in Range(images) : IsImage(image)

LEMMA FileIsImage ==
  ASSUME NEW image, FromFile(image)
  PROVE  IsImage(image)
BY DEF FromFile, IsImage

LEMMA AddStateForm ==
  ASSUME NEW c, IsCache(c), NEW images
  PROVE  AddState(c, images)
           = [images |-> c.images \o images,
              states |-> Append(c.states, [i \in DOMAIN images |-> Len(c.images) + i]),
              skins |-> c.skins, models |-> c.models, proxies |-> c.proxies,
              result |-> [states |-> c.result.states, proxies |-> c.result.proxies]]
<1> DEFINE all == c.images \o images
           states == Append(c.states, [i \in DOMAIN images |-> Len(c.images) + i])
           d == AddState(c, images)
           e == [c EXCEPT !.images = all]
<1>0. c = [images |-> c.images, states |-> c.states, skins |-> c.skins, models |-> c.models,
           proxies |-> c.proxies,
           result |-> [states |-> c.result.states, proxies |-> c.result.proxies]]
  BY DEF IsCache
<1>1. d = [c EXCEPT !.images = all, !.states = states]
  BY DEF AddState
<1> HIDE DEF all, states, d
<1>2. e = [images |-> all, states |-> c.states, skins |-> c.skins, models |-> c.models,
           proxies |-> c.proxies,
           result |-> [states |-> c.result.states, proxies |-> c.result.proxies]]
  BY <1>0
<1>3. d = [e EXCEPT !.states = states]
  BY <1>1
<1> HIDE DEF e
<1>4. d = [images |-> all, states |-> states, skins |-> c.skins, models |-> c.models,
           proxies |-> c.proxies,
           result |-> [states |-> c.result.states, proxies |-> c.result.proxies]]
  BY <1>2, <1>3
<1>. QED
  BY <1>4 DEF all, states, d

\* What stays when state sets are added
Adds(c, d, n) ==
  /\ d.skins = c.skins /\ d.models = c.models /\ d.proxies = c.proxies
  /\ d.result = [states |-> c.result.states, proxies |-> c.result.proxies]
  /\ Len(c.states) \in Nat /\ Len(d.states) = Len(c.states) + n
  /\ \A s \in 1..Len(c.states) : d.states[s] = c.states[s]

LEMMA AddStateGiven ==
  ASSUME NEW c, IsGiven(c), NEW images, AreImages(images)
  PROVE  IsGiven(AddState(c, images)) /\ Adds(c, AddState(c, images), 1)
<1> DEFINE d == AddState(c, images)
           all == c.images \o images
           states == Append(c.states, [i \in DOMAIN images |-> Len(c.images) + i])
<1>1. /\ IsCache(c) /\ IsCache(d)
  BY AddStateIsCache DEF IsGiven, AreImages
<1>2. d = [images |-> all, states |-> states, skins |-> c.skins, models |-> c.models,
           proxies |-> c.proxies,
           result |-> [states |-> c.result.states, proxies |-> c.result.proxies]]
  BY <1>1, AddStateForm
<1>3. Range(all) = Range(c.images) \cup Range(images)
  BY <1>1, ListConcat DEF IsCache, AreImages, IsImages
<1>4. /\ Len(c.states) \in Nat /\ Len(states) = Len(c.states) + 1
      /\ \A s \in 1..Len(c.states) : states[s] = c.states[s]
  <2> DEFINE A == Seq(1..Len(c.images)) \cup {[i \in DOMAIN images |-> Len(c.images) + i]}
             new == [i \in DOMAIN images |-> Len(c.images) + i]
             B == Seq(1..Len(c.images))
  <2>1. c.states \in Seq(B)
    BY <1>1 DEF IsCache
  <2> HIDE DEF B, new
  <2>2. Len(c.states) \in Nat /\ DOMAIN c.states = 1..Len(c.states)
    BY <2>1
  <2>3. /\ Len(Append(c.states, new)) = Len(c.states) + 1
        /\ \A s \in 1..Len(c.states) : Append(c.states, new)[s] = c.states[s]
    BY <2>1
  <2>. QED
    BY <2>2, <2>3 DEF new
<1> HIDE DEF d, all, states
<1>5. /\ d.images = all /\ d.states = states /\ d.skins = c.skins /\ d.models = c.models
      /\ d.proxies = c.proxies
      /\ d.result = [states |-> c.result.states, proxies |-> c.result.proxies]
      /\ d.result.states = c.result.states /\ d.result.proxies = c.result.proxies
  BY <1>2
<1>6. Adds(c, d, 1)
  BY <1>4, <1>5 DEF Adds
<1>7. 1..Len(c.states) \subseteq 1..Len(d.states)
  BY <1>4, <1>5
<1>8. \A image \in Range(d.images) : IsImage(image)
  BY <1>3, <1>5 DEF IsGiven, AreImages
<1>9. d.result.states \subseteq 1..Len(d.states)
  BY <1>5, <1>7 DEF IsGiven
<1>10. \A s \in d.result.states : d.states[s] # <<>> => \E skin \in Range(d.skins) : skin.state = s
  <2>1. \A s \in c.result.states : d.states[s] = c.states[s]
    BY <1>4, <1>5 DEF IsGiven
  <2>. QED
    BY <1>5, <2>1 DEF IsGiven
<1>11. \A model \in Range(d.models) : model.states \subseteq 1..Len(d.states)
  BY <1>5, <1>7 DEF IsGiven
<1>12. /\ \A skin \in Range(d.skins) : skin.limit \in Nat
       /\ d.models \in Seq(Range(d.models))
       /\ d.proxies \in Seq(Range(d.proxies))
       /\ \A proxy \in Range(d.proxies) : IsProxy(proxy)
       /\ d.result.proxies \subseteq 1..Len(d.proxies)
  BY <1>5 DEF IsGiven
<1>13. IsGiven(d)
  BY <1>1, <1>8, <1>9, <1>10, <1>11, <1>12 DEF IsGiven, d
<1>. QED
  BY <1>6, <1>13 DEF d

LEMMA AddsMore ==
  ASSUME NEW c, NEW d, NEW e, NEW m \in Nat, Adds(c, d, m), Adds(d, e, 1)
  PROVE  Adds(c, e, m + 1)
<1>1. Len(e.states) = Len(c.states) + (m + 1)
  BY DEF Adds
<1>2. \A s \in 1..Len(c.states) : s \in 1..Len(d.states)
  BY DEF Adds
<1>3. \A s \in 1..Len(c.states) : e.states[s] = c.states[s]
  BY <1>2 DEF Adds
<1>4. e.result = [states |-> c.result.states, proxies |-> c.result.proxies]
  <2>1. d.result.states = c.result.states /\ d.result.proxies = c.result.proxies
    BY DEF Adds
  <2>. QED
    BY <2>1 DEF Adds
<1>. QED
  BY <1>1, <1>3, <1>4 DEF Adds

LEMMA AddStatesGiven ==
  ASSUME NEW c, IsGiven(c), NEW sets, Len(sets) \in Nat,
         \A n \in 1..Len(sets) : AreImages(sets[n])
  PROVE  IsGiven(AddStates(c, sets)) /\ Adds(c, AddStates(c, sets), Len(sets))
<1> DEFINE N == Len(sets)
           f == CHOOSE g : g = [n \in 0..N |-> IF n = 0 THEN c ELSE AddState(g[n - 1], sets[n])]
<1>1. \E g : AddsStates(c, sets, N, g)
  BY AddStatesLoop
<1>2. AddsStates(c, sets, N, f)
  BY <1>1 DEF AddsStates
<1>3. AddStates(c, sets) = f[N]
  BY DEF AddStates
<1> HIDE DEF f
<1>4. /\ f[0] = c
      /\ \A n \in 1..N : f[n] = AddState(f[n - 1], sets[n])
  <2>1. 0 \in 0..N /\ f[0] = IF 0 = 0 THEN c ELSE AddState(f[0 - 1], sets[0])
    BY <1>2 DEF AddsStates
  <2>2. ASSUME NEW n \in 1..N PROVE f[n] = AddState(f[n - 1], sets[n])
    <3>1. n \in 0..N /\ n # 0
      OBVIOUS
    <3>. QED
      BY <1>2, <3>1 DEF AddsStates
  <2>. QED
    BY <2>1, <2>2
<1> DEFINE P == {n \in 0..N : n \in Nat /\ IsGiven(f[n]) /\ Adds(c, f[n], n)}
<1>5. 0 \in P
  <2>1. c.result = [states |-> c.result.states, proxies |-> c.result.proxies]
    <3>1. c = [images |-> c.images, states |-> c.states, skins |-> c.skins, models |-> c.models,
           proxies |-> c.proxies,
           result |-> [states |-> c.result.states, proxies |-> c.result.proxies]]
      BY DEF IsGiven, IsCache
    <3>. QED
      BY <3>1
  <2>2. Len(c.states) \in Nat
    BY DEF IsGiven, IsCache
  <2>3. Adds(c, c, 0)
    BY <2>1, <2>2 DEF Adds
  <2>. QED
    BY <1>4, <2>3
<1>6. ASSUME NEW n \in 1..N, n - 1 \in P PROVE n \in P
  <2>1. n - 1 \in Nat /\ n \in 0..N /\ n \in Nat /\ (n - 1) + 1 = n
    OBVIOUS
  <2>2. IsGiven(f[n - 1]) /\ Adds(c, f[n - 1], n - 1)
    BY <1>6
  <2>3. f[n] = AddState(f[n - 1], sets[n]) /\ AreImages(sets[n])
    BY <1>4
  <2>4. IsGiven(f[n]) /\ Adds(f[n - 1], f[n], 1)
    BY <2>2, <2>3, AddStateGiven
  <2>5. Adds(c, f[n], n)
    BY <2>1, <2>2, <2>4, AddsMore
  <2>. QED
    BY <2>1, <2>4, <2>5
<1> HIDE DEF P
<1>7. 0..N \subseteq P
  <2>1. N \in Nat
    OBVIOUS
  <2> HIDE DEF N
  <2>. QED
    BY <2>1, <1>5, <1>6, CountUp
<1>8. N \in P
  BY <1>7
<1>. QED
  BY <1>3, <1>8 DEF P

LEMMA NewStatesAdded ==
  ASSUME NEW c, NEW sets, Len(sets) \in Nat, NEW d, Adds(c, d, Len(sets))
  PROVE  NewStates(c, sets) \subseteq 1..Len(d.states)
BY DEF Adds, NewStates

\* One image
LEMMA AddImageGiven ==
  ASSUME NEW c, IsGiven(c), NEW image, Fit(image), IsImage(image), NEW d, d = AddStates(c, <<<<image>>>>)
  PROVE  IsGiven(d) /\ Adds(c, d, 1) /\ Len(d.states) \in 1..Len(d.states)
<1> DEFINE sets == <<<<image>>>>
<1>1. Len(sets) = 1 /\ sets[1] = <<image>>
  OBVIOUS
<1>2. AreImages(<<image>>)
  BY ListOfOne DEF AreImages, IsImages
<1>3. Len(sets) \in Nat /\ \A n \in 1..Len(sets) : AreImages(sets[n])
  <2> HIDE DEF sets
  <2>. QED
    BY <1>1, <1>2
<1> HIDE DEF sets
<1>4. IsGiven(d) /\ Adds(c, d, 1)
  BY <1>1, <1>3, AddStatesGiven DEF sets
<1>5. Len(d.states) \in 1..Len(d.states)
  BY <1>4 DEF Adds
<1>. QED
  BY <1>4, <1>5

LEMMA AddModelGiven ==
  ASSUME NEW c, IsGiven(c), NEW uri \in DOMAIN ModelFiles, NEW sets, sets = ModelFiles[uri],
         NEW d, d = AddStates(c, sets)
  PROVE  IsGiven(d) /\ Adds(c, d, Len(sets)) /\ NewStates(c, sets) \subseteq 1..Len(d.states)
<1>1. /\ sets \in Seq(Range(sets))
      /\ \A images \in Range(sets) :
           images \in Seq(Range(images)) /\ \A image \in Range(images) : FromFile(image)
  BY FilesAssumption
<1>2. Len(sets) \in Nat /\ DOMAIN sets = 1..Len(sets)
  BY <1>1
<1>3. \A images \in Range(sets) : AreImages(images)
  BY <1>1, FilesFit, FileIsImage DEF IsImages, AreImages
<1>4. \A n \in 1..Len(sets) : AreImages(sets[n])
  BY <1>2, <1>3 DEF Range
<1>5. IsGiven(d) /\ Adds(c, d, Len(sets))
  BY <1>2, <1>4, AddStatesGiven
<1>. QED
  BY <1>2, <1>5, NewStatesAdded

\* State sets are shown, and skins added for them.
LEMMA GiveStates ==
  ASSUME NEW c, IsGiven(c), NEW states, states \subseteq 1..Len(c.states),
         NEW skins, skins \in Seq(Range(skins)), Range(c.skins) \subseteq Range(skins),
         \A skin \in Range(skins) \ Range(c.skins) : skin.state \in 1..Len(c.states) /\ skin.limit \in Nat,
         \A s \in states : c.states[s] # <<>> => \E skin \in Range(skins) : skin.state = s,
         NEW d,
         d = [images |-> c.images, states |-> c.states, skins |-> skins, models |-> c.models,
              proxies |-> c.proxies,
              result |-> [states |-> c.result.states \cup states, proxies |-> c.result.proxies]]
  PROVE  IsGiven(d)
<1>1. /\ d.images = c.images /\ d.states = c.states /\ d.skins = skins /\ d.models = c.models
      /\ d.proxies = c.proxies
      /\ d.result.states = c.result.states \cup states /\ d.result.proxies = c.result.proxies
      /\ d = [images |-> d.images, states |-> d.states, skins |-> d.skins, models |-> d.models,
              proxies |-> d.proxies,
              result |-> [states |-> d.result.states, proxies |-> d.result.proxies]]
  OBVIOUS
<1>2. IsCache(c)
  BY DEF IsGiven
<1>3. \A skin \in Range(skins) : skin.state \in 1..Len(c.states) /\ skin.limit \in Nat
  BY <1>2 DEF IsGiven, IsCache
<1>4. IsCache(d)
  BY <1>1, <1>2, <1>3 DEF IsCache
<1>5. d.result.states \subseteq 1..Len(d.states)
  BY <1>1 DEF IsGiven
<1>6. \A s \in d.result.states : d.states[s] # <<>> => \E skin \in Range(d.skins) : skin.state = s
  BY <1>1 DEF IsGiven
<1>. QED
  BY <1>1, <1>3, <1>4, <1>5, <1>6 DEF IsGiven

\* Show(), as a record
LEMMA ShowForm ==
  ASSUME NEW c, IsCache(c), NEW states
  PROVE  Show(c, states)
           = [images |-> c.images, states |-> c.states, skins |-> c.skins, models |-> c.models,
              proxies |-> c.proxies,
              result |-> [states |-> c.result.states \cup states, proxies |-> c.result.proxies]]
<1>0. c = [images |-> c.images, states |-> c.states, skins |-> c.skins, models |-> c.models,
           proxies |-> c.proxies,
           result |-> [states |-> c.result.states, proxies |-> c.result.proxies]]
  BY DEF IsCache
<1>. QED
  BY <1>0 DEF Show

LEMMA SkinsForm ==
  ASSUME NEW c, IsCache(c), NEW skins
  PROVE  [c EXCEPT !.skins = skins]
           = [images |-> c.images, states |-> c.states, skins |-> skins, models |-> c.models,
              proxies |-> c.proxies,
              result |-> [states |-> c.result.states, proxies |-> c.result.proxies]]
<1>0. c = [images |-> c.images, states |-> c.states, skins |-> c.skins, models |-> c.models,
           proxies |-> c.proxies,
           result |-> [states |-> c.result.states, proxies |-> c.result.proxies]]
  BY DEF IsCache
<1>. QED
  BY <1>0

LEMMA ApplySkinGiven ==
  ASSUME NEW c, IsGiven(c), NEW skin, skin.limit \in Nat
  PROVE  IsGiven(ApplySkin(c, skin))
<1> DEFINE known == {s \in ToSet(c.skins) : s.resource = skin}
           added == AddStates(c, <<<<createImage(skin)>>>>)
           state == Len(added.states)
           own == [resource |-> skin, limit |-> skin.limit, state |-> state]
           given == [added EXCEPT !.skins = Append(@, own)]
<1>1. ApplySkin(c, skin) = IF known # {} THEN Show(c, {s.state : s \in known}) ELSE Show(given, {state})
  BY DEF ApplySkin
<1>2. IsGiven(Show(c, {s.state : s \in known}))
  <2> DEFINE states == {s.state : s \in known}
             d == Show(c, states)
  <2>1. \A s \in known : s \in Range(c.skins)
    BY DEF ToSet, Range
  <2>2. /\ states \subseteq 1..Len(c.states)
        /\ \A s \in states : \E k \in Range(c.skins) : k.state = s
    BY <2>1 DEF IsGiven, IsCache
  <2>3. IsCache(c) /\ c.skins \in Seq(Range(c.skins))
    BY DEF IsGiven, IsCache
  <2> HIDE DEF states
  <2>4. d = [images |-> c.images, states |-> c.states, skins |-> c.skins, models |-> c.models,
             proxies |-> c.proxies,
             result |-> [states |-> c.result.states \cup states, proxies |-> c.result.proxies]]
    BY <2>3, ShowForm
  <2> HIDE DEF d
  <2>5. IsGiven(d)
    BY <2>2, <2>3, <2>4, GiveStates
  <2>. QED
    BY <2>5 DEF d, states
<1>3. IsGiven(Show(given, {state}))
  <2> DEFINE image == createImage(skin)
             skins == Append(added.skins, own)
             d == Show(given, {state})
  <2>1. Fit(image) /\ IsImage(image)
    <3>1. FromFile(image)
      BY SkinFromFile
    <3>. QED
      BY <3>1, FilesFit, FileIsImage
  <2> HIDE DEF image
  <2>2. IsGiven(added) /\ state \in 1..Len(added.states)
    <3>1. added = AddStates(c, <<<<image>>>>)
      BY DEF image
    <3> HIDE DEF added
    <3>. QED
      BY <2>1, <3>1, AddImageGiven
  <2> HIDE DEF added
  <2>3. IsCache(added) /\ added.skins \in Seq(Range(added.skins))
    BY <2>2 DEF IsGiven, IsCache
  <2>4. own.state = state /\ own.limit = skin.limit
    OBVIOUS
  <2> HIDE DEF own, state
  <2>5. skins \in Seq(Range(skins)) /\ Range(skins) = Range(added.skins) \cup {own}
    BY <2>3, ListAppend
  <2> HIDE DEF skins
  <2>6. given = [images |-> added.images, states |-> added.states, skins |-> skins,
                 models |-> added.models, proxies |-> added.proxies,
                 result |-> [states |-> added.result.states, proxies |-> added.result.proxies]]
    <3>1. given = [added EXCEPT !.skins = skins]
      BY DEF skins
    <3> HIDE DEF given
    <3>. QED
      BY <2>3, <3>1, SkinsForm
  <2>7. IsCache(given)
    BY <2>2, <2>3, <2>4, SkinIsCache DEF state
  <2> HIDE DEF given
  <2>8. d = [images |-> added.images, states |-> added.states, skins |-> skins,
             models |-> added.models, proxies |-> added.proxies,
             result |-> [states |-> added.result.states \cup {state},
                         proxies |-> added.result.proxies]]
    <3>1. d = [images |-> given.images, states |-> given.states, skins |-> given.skins,
               models |-> given.models, proxies |-> given.proxies,
               result |-> [states |-> given.result.states \cup {state},
                           proxies |-> given.result.proxies]]
      BY <2>7, ShowForm
    <3>2. /\ given.images = added.images /\ given.states = added.states /\ given.skins = skins
          /\ given.models = added.models /\ given.proxies = added.proxies
          /\ given.result.states = added.result.states
          /\ given.result.proxies = added.result.proxies
      BY <2>6
    <3>. QED
      BY <3>1, <3>2
  <2> HIDE DEF d
  <2>9. {state} \subseteq 1..Len(added.states)
    BY <2>2 DEF state
  <2>10. /\ \A k \in Range(skins) \ Range(added.skins) :
              k.state \in 1..Len(added.states) /\ k.limit \in Nat
         /\ \A s \in {state} : added.states[s] # <<>> => \E k \in Range(skins) : k.state = s
    BY <2>4, <2>5, <2>9
  <2>11. Range(added.skins) \subseteq Range(skins)
    BY <2>5
  <2>12. IsGiven(d)
    BY <2>2, <2>5, <2>8, <2>9, <2>10, <2>11, GiveStates
  <2>. QED
    BY <2>12 DEF d
<1> HIDE DEF known, given, state
<1>. QED
  BY <1>1, <1>2, <1>3

\* A skin for every texture of the state sets that are shown
LEMMA TexturesGiven ==
  ASSUME NEW c, IsGiven(c), NEW states, states \subseteq 1..Len(c.states), NEW limit \in Nat
  PROVE  IsGiven(registerTextures(Show(c, states), states, limit))
<1> DEFINE l == Len(c.states)
           shown == Show(c, states)
           units == [s \in DOMAIN c.states |->
                       IF s \in states THEN [u \in DOMAIN c.states[s] |-> s] ELSE <<>>]
           textured == FlattenSeq(units)
           own == [i \in DOMAIN textured |-> OwnSkin(textured[i], limit)]
           skins == c.skins \o own
           d == registerTextures(shown, states, limit)
<1>0. IsCache(c) /\ c.skins \in Seq(Range(c.skins))
  BY DEF IsGiven, IsCache
<1>1. l \in Nat /\ DOMAIN c.states = 1..l
  BY <1>0 DEF IsCache
<1>2. ASSUME NEW s \in 1..l
      PROVE  /\ (IF s \in states THEN [u \in DOMAIN c.states[s] |-> s] ELSE <<>>) \in Seq(1..l)
             /\ c.states[s] # <<>> => s \in Range([u \in DOMAIN c.states[s] |-> s])
  <2>1. c.states[s] \in Seq(1..Len(c.images))
    BY <1>0, <1>1 DEF IsCache
  <2> DEFINE n == Len(c.states[s])
             unit == c.states[s]
  <2>2. n \in Nat /\ DOMAIN unit = 1..n /\ (unit # <<>> => n # 0)
    BY <2>1
  <2> HIDE DEF n, l, unit
  <2>3. [u \in 1..n |-> s] \in [1..n -> 1..l]
    OBVIOUS
  <2>4. [u \in 1..n |-> s] \in Seq(1..l)
    BY <2>2, <2>3, FunctionIsSeq
  <2>5. <<>> \in Seq(1..l)
    OBVIOUS
  <2>6. ASSUME unit # <<>> PROVE s \in Range([u \in 1..n |-> s])
    <3>1. 1 \in 1..n
      BY <2>2, <2>6
    <3>2. [u \in 1..n |-> s][1] = s /\ 1 \in DOMAIN [u \in 1..n |-> s]
      BY <3>1
    <3>. QED
      BY <3>2 DEF Range
  <2>. QED
    BY <2>2, <2>4, <2>5, <2>6 DEF unit
<1>3. units \in [1..l -> Seq(1..l)]
  <2> HIDE DEF l
  <2>. QED
    BY <1>1, <1>2
<1>4. units \in Seq(Seq(1..l)) /\ Len(units) = l
  <2> HIDE DEF units, l
  <2>. QED
    BY <1>1, <1>3, FunctionIsSeq
<1>5. /\ textured \in Seq(1..l)
      /\ \A x : x \in Range(textured) <=> \E i \in 1..Len(units) : x \in Range(units[i])
  <2> HIDE DEF units, l
  <2>. QED
    BY <1>4, FlattenIsSeq, FlattenRange
<1>6. \A s \in states : c.states[s] # <<>> => s \in Range(textured)
  <2> SUFFICES ASSUME NEW s \in states, c.states[s] # <<>> PROVE s \in Range(textured)
    OBVIOUS
  <2>1. s \in 1..l /\ units[s] = [u \in DOMAIN c.states[s] |-> s]
    <3> HIDE DEF l
    <3>1. s \in 1..l
      BY DEF l
    <3>. QED
      BY <1>1, <3>1
  <2>2. s \in Range(units[s])
    <3> HIDE DEF units, l
    <3>. QED
      BY <1>2, <2>1
  <2> HIDE DEF textured, units, l
  <2>. QED
    BY <1>4, <1>5, <2>1, <2>2
<1> HIDE DEF textured, units, l
<1>7. textured \in Seq(Range(textured)) /\ Range(textured) \subseteq 1..l
  BY <1>5, ListOf
<1>8. own \in Seq(Range(own))
  <2>1. DOMAIN own = DOMAIN textured /\ own = [i \in DOMAIN own |-> own[i]]
    OBVIOUS
  <2> HIDE DEF own
  <2>. QED
    BY <1>7, <2>1, ListMapped
<1>9. \A skin \in Range(own) : skin.state \in 1..l /\ skin.limit \in Nat
  <2>1. ASSUME NEW i \in DOMAIN own PROVE own[i].state \in 1..l /\ own[i].limit \in Nat
    <3>1. own[i].state = textured[i] /\ own[i].limit = limit
      BY DEF OwnSkin
    <3>2. textured[i] \in 1..l
      BY <1>7 DEF Range
    <3>. QED
      BY <3>1, <3>2
  <2> HIDE DEF own
  <2>. QED
    BY <2>1 DEF Range
<1>10. \A s \in Range(textured) : \E skin \in Range(own) : skin.state = s
  <2>1. ASSUME NEW i \in DOMAIN textured PROVE \E skin \in Range(own) : skin.state = textured[i]
    <3>1. i \in DOMAIN own /\ own[i].state = textured[i]
      BY DEF OwnSkin
    <3> HIDE DEF own
    <3>. QED
      BY <3>1 DEF Range
  <2>. QED
    BY <2>1 DEF Range
<1>11. d = [shown EXCEPT !.skins = skins]
  <2>1. shown.states = c.states /\ shown.skins = c.skins
    BY <1>0, ShowForm
  <2> HIDE DEF shown
  <2>2. d = [shown EXCEPT !.skins = shown.skins \o own]
    BY <2>1 DEF registerTextures, own, textured, units
  <2> HIDE DEF own, d
  <2>. QED
    BY <2>1, <2>2
<1> HIDE DEF own
<1>12. skins \in Seq(Range(skins)) /\ Range(skins) = Range(c.skins) \cup Range(own)
  BY <1>0, <1>8, ListConcat
<1> HIDE DEF skins, d
<1>13. d = [images |-> c.images, states |-> c.states, skins |-> skins, models |-> c.models,
            proxies |-> c.proxies,
            result |-> [states |-> c.result.states \cup states, proxies |-> c.result.proxies]]
  <2>1. IsCache(shown)
    BY <1>0, ShowIsCache
  <2>2. shown = [images |-> c.images, states |-> c.states, skins |-> c.skins, models |-> c.models,
            proxies |-> c.proxies,
            result |-> [states |-> c.result.states \cup states, proxies |-> c.result.proxies]]
    BY <1>0, ShowForm
  <2> HIDE DEF shown
  <2>3. /\ shown.images = c.images /\ shown.states = c.states
        /\ shown.models = c.models /\ shown.proxies = c.proxies
        /\ shown.result.states = c.result.states \cup states
        /\ shown.result.proxies = c.result.proxies
    BY <2>2
  <2>4. d = [images |-> shown.images, states |-> shown.states, skins |-> skins,
             models |-> shown.models, proxies |-> shown.proxies,
             result |-> [states |-> shown.result.states, proxies |-> shown.result.proxies]]
    BY <1>11, <2>1, SkinsForm
  <2>. QED
    BY <2>3, <2>4
<1>14. \A skin \in Range(skins) \ Range(c.skins) : skin.state \in 1..Len(c.states) /\ skin.limit \in Nat
  BY <1>9, <1>12 DEF l
<1>15. \A s \in states : c.states[s] # <<>> => \E skin \in Range(skins) : skin.state = s
  BY <1>6, <1>10, <1>12
<1>16. Range(c.skins) \subseteq Range(skins)
  BY <1>12
<1>17. IsGiven(d)
  BY <1>12, <1>13, <1>14, <1>15, <1>16, GiveStates
<1>. QED
  BY <1>17 DEF d, shown

-----------------------------------------------------------------------------
(***************************************************************************)
(* Every use keeps a cache well formed and gives it what the node shows.   *)
(***************************************************************************)
\* A later entry, where there is one
LEMMA LatestIsThere ==
  ASSUME NEW list, list \in Seq(Range(list)), NEW model, \E p \in DOMAIN list : list[p].resource = model
  PROVE  Latest(list, model) \in DOMAIN list
<1> DEFINE N == Len(list)
           P == {p \in 1..N : list[p].resource = model}
<1>1. N \in Nat /\ DOMAIN list = 1..N
  OBVIOUS
<1>2. P # {} /\ P \subseteq 1..N
  BY <1>1
<1>3. Max(P) \in P /\ \A p \in P : p <= Max(P)
  <2> HIDE DEF P, N
  <2>. QED
    BY <1>1, <1>2, GreatestElement
<1> DEFINE m == Max(P)
<1>4. m \in DOMAIN list /\ list[m].resource = model /\ \A q \in DOMAIN list : list[q].resource = model => q <= m
  <2> HIDE DEF m
  <2>1. m \in P /\ \A p \in P : p <= m
    BY <1>3 DEF m
  <2>. QED
    BY <1>1, <2>1
<1> HIDE DEF m, P
<1>. QED
  BY <1>4 DEF Latest

LEMMA ModelsForm ==
  ASSUME NEW c, IsCache(c), NEW models
  PROVE  [c EXCEPT !.models = models]
           = [images |-> c.images, states |-> c.states, skins |-> c.skins, models |-> models,
              proxies |-> c.proxies,
              result |-> [states |-> c.result.states, proxies |-> c.result.proxies]]
<1>0. c = [images |-> c.images, states |-> c.states, skins |-> c.skins, models |-> c.models,
           proxies |-> c.proxies,
           result |-> [states |-> c.result.states, proxies |-> c.result.proxies]]
  BY DEF IsCache
<1>. QED
  BY <1>0

\* What was read from the model's file, now or before
LEMMA GetNodeGiven ==
  ASSUME NEW c, IsGiven(c), NEW model, model.uri \in DOMAIN ModelFiles, NEW fresh \in BOOLEAN,
         NEW got, got = getNode(c, model, fresh)
  PROVE  IsGiven(got) /\ NodeOf(got, model) \subseteq 1..Len(got.states)
<1>1. IsGiven(got) /\ \E m \in Range(got.models) : m.resource = model
  <2>1. CASE ~fresh /\ \E m \in ToSet(c.models) : m.resource = model
    <3>1. got = c
      BY <2>1 DEF getNode
    <3>2. \E m \in Range(c.models) : m.resource = model
      BY <2>1 DEF ToSet, Range
    <3>. QED
      BY <3>1, <3>2
  <2>2. CASE ~(~fresh /\ \E m \in ToSet(c.models) : m.resource = model)
    <3> DEFINE sets == ModelFiles[model.uri]
               added == AddStates(c, sets)
               entry == [resource |-> model, states |-> NewStates(c, sets)]
               models == Append(added.models, entry)
    <3>1. IsGiven(added) /\ NewStates(c, sets) \subseteq 1..Len(added.states)
      <4> HIDE DEF sets
      <4>1. sets = ModelFiles[model.uri]
        BY DEF sets
      <4> HIDE DEF added
      <4>2. added = AddStates(c, sets)
        BY DEF added
      <4>. QED
        BY <4>1, <4>2, AddModelGiven
    <3>2. got = [added EXCEPT !.models = models]
      BY <2>2 DEF getNode, Loaded
    <3> HIDE DEF added
    <3>3. IsCache(added) /\ added.models \in Seq(Range(added.models))
      BY <3>1 DEF IsGiven
    <3>4. entry.resource = model /\ entry.states \subseteq 1..Len(added.states)
      BY <3>1
    <3> HIDE DEF entry
    <3>5. models \in Seq(Range(models)) /\ Range(models) = Range(added.models) \cup {entry}
      BY <3>3, ListAppend
    <3> HIDE DEF models
    <3>6. got = [images |-> added.images, states |-> added.states, skins |-> added.skins,
                 models |-> models, proxies |-> added.proxies,
                 result |-> [states |-> added.result.states, proxies |-> added.result.proxies]]
      BY <3>2, <3>3, ModelsForm
    <3>7. IsCache(got)
      BY <3>2, <3>3, ModelsIsCache
    <3>8. /\ got.images = added.images /\ got.states = added.states /\ got.skins = added.skins
          /\ got.models = models /\ got.proxies = added.proxies
          /\ got.result.states = added.result.states /\ got.result.proxies = added.result.proxies
      BY <3>6
    <3>9. \A m \in Range(models) : m.states \subseteq 1..Len(added.states)
      BY <3>1, <3>4, <3>5 DEF IsGiven
    <3>10. IsGiven(got)
      BY <3>1, <3>5, <3>7, <3>8, <3>9 DEF IsGiven
    <3>. QED
      BY <3>4, <3>5, <3>8, <3>10
  <2>. QED
    BY <2>1, <2>2
<1>2. /\ got.models \in Seq(Range(got.models))
      /\ \A m \in Range(got.models) : m.states \subseteq 1..Len(got.states)
  BY <1>1 DEF IsGiven
<1>3. \E p \in DOMAIN got.models : got.models[p].resource = model
  BY <1>1 DEF Range
<1>4. Latest(got.models, model) \in DOMAIN got.models
  BY <1>2, <1>3, LatestIsThere
<1>5. got.models[Latest(got.models, model)] \in Range(got.models)
  BY <1>4 DEF Range
<1>. QED
  BY <1>1, <1>2, <1>5 DEF NodeOf

LEMMA InlineGiven ==
  ASSUME NEW lib, NEW c, IsGiven(c), NEW u, u.limit \in Nat
  PROVE  IsGiven(InlineModel(lib, c, u))
<1> DEFINE model == ModelOf(lib, u)
           got == getNode(c, model, u.by = "path")
           states == NodeOf(got, model)
<1>1. ASSUME Readable(lib, u) PROVE IsGiven(registerTextures(Show(got, states), states, u.limit))
  <2> DEFINE fresh == u.by = "path"
  <2>0. fresh \in BOOLEAN /\ got = getNode(c, model, fresh) /\ model.uri \in DOMAIN ModelFiles
    BY <1>1 DEF Readable
  <2> HIDE DEF got, fresh, model
  <2>1. IsGiven(got) /\ states \subseteq 1..Len(got.states)
    BY <2>0, GetNodeGiven
  <2> HIDE DEF states
  <2>. QED
    BY <2>1, TexturesGiven
<1>2. InlineModel(lib, c, u)
        = IF Readable(lib, u) THEN registerTextures(Show(got, states), states, u.limit) ELSE c
  BY DEF InlineModel
<1> HIDE DEF got, states
<1>. QED
  BY <1>1, <1>2

LEMMA CopyGiven ==
  ASSUME NEW lib, NEW c, IsGiven(c), NEW u, u.limit \in Nat
  PROVE  IsGiven(CopyModel(lib, c, u))
<1> DEFINE model == ModelOf(lib, u)
           sets == ModelFiles[model.uri]
           got == IF u.by = "name" THEN getNode(c, model, FALSE) ELSE c
           copied == AddStates(got, sets)
           states == NewStates(got, sets)
<1>1. ASSUME Readable(lib, u) PROVE IsGiven(registerTextures(Show(copied, states), states, u.limit))
  <2>1. model.uri \in DOMAIN ModelFiles
    BY <1>1 DEF Readable
  <2>2. IsGiven(got)
    <3> DEFINE node == getNode(c, model, FALSE)
    <3>1. node = getNode(c, model, FALSE)
      OBVIOUS
    <3> HIDE DEF node, model
    <3>2. IsGiven(node)
      BY <2>1, <3>1, GetNodeGiven
    <3>. QED
      BY <3>2 DEF node
  <2> HIDE DEF got
  <2>3. sets = ModelFiles[model.uri] /\ copied = AddStates(got, sets)
    OBVIOUS
  <2> HIDE DEF sets, copied, model
  <2>4. IsGiven(copied) /\ states \subseteq 1..Len(copied.states)
    BY <2>1, <2>2, <2>3, AddModelGiven
  <2> HIDE DEF states
  <2>. QED
    BY <2>4, TexturesGiven
<1>2. CopyModel(lib, c, u)
        = IF Readable(lib, u) THEN registerTextures(Show(copied, states), states, u.limit) ELSE c
  BY DEF CopyModel
<1> HIDE DEF got, copied, states
<1>. QED
  BY <1>1, <1>2

LEMMA WearGiven ==
  ASSUME NEW lib, NEW c, IsGiven(c), NEW u,
         WallSkin(lib, u) # NoResource => WallSkin(lib, u).limit \in Nat
  PROVE  IsGiven(WearSkin(lib, c, u))
BY ApplySkinGiven DEF WearSkin

LEMMA ProxiesForm ==
  ASSUME NEW c, IsCache(c), NEW proxies
  PROVE  /\ [c EXCEPT !.proxies = proxies]
              = [images |-> c.images, states |-> c.states, skins |-> c.skins, models |-> c.models,
                 proxies |-> proxies,
                 result |-> [states |-> c.result.states, proxies |-> c.result.proxies]]
         /\ [c EXCEPT !.result.proxies = proxies]
              = [images |-> c.images, states |-> c.states, skins |-> c.skins, models |-> c.models,
                 proxies |-> c.proxies,
                 result |-> [states |-> c.result.states, proxies |-> proxies]]
<1>0. c = [images |-> c.images, states |-> c.states, skins |-> c.skins, models |-> c.models,
           proxies |-> c.proxies,
           result |-> [states |-> c.result.states, proxies |-> c.result.proxies]]
  BY DEF IsCache
<1>1. [c EXCEPT !.proxies = proxies]
        = [images |-> c.images, states |-> c.states, skins |-> c.skins, models |-> c.models,
           proxies |-> proxies,
           result |-> [states |-> c.result.states, proxies |-> c.result.proxies]]
  BY <1>0
<1>2. [c EXCEPT !.result.proxies = proxies]
        = [images |-> c.images, states |-> c.states, skins |-> c.skins, models |-> c.models,
           proxies |-> c.proxies,
           result |-> [states |-> c.result.states, proxies |-> proxies]]
  BY <1>0
<1>. QED
  BY <1>1, <1>2

LEMMA ReferGiven ==
  ASSUME NEW lib, NEW c, IsGiven(c), NEW u
  PROVE  IsGiven(ReferToModel(lib, c, u))
<1> DEFINE model == ModelOf(lib, u)
           fresh == u.by = "path"
           got == getExternalReferenceNode(c, model, fresh)
<1>1. IsGiven(got) /\ \E p \in Range(got.proxies) : p.resource = model
  <2>1. CASE ~fresh /\ \E p \in ToSet(c.proxies) : p.resource = model
    <3>1. got = c
      BY <2>1 DEF getExternalReferenceNode
    <3>2. \E p \in Range(c.proxies) : p.resource = model
      BY <2>1 DEF ToSet, Range
    <3> HIDE DEF got
    <3>. QED
      BY <3>1, <3>2
  <2>2. CASE ~(~fresh /\ \E p \in ToSet(c.proxies) : p.resource = model)
    <3> DEFINE proxy == [resource |-> model, name |-> [NoName EXCEPT !.dir = "models", !.base = model.uri]]
               proxies == Append(c.proxies, proxy)
    <3>1. got = [c EXCEPT !.proxies = proxies]
      BY <2>2 DEF getExternalReferenceNode
    <3>2. IsCache(c) /\ c.proxies \in Seq(Range(c.proxies))
      BY DEF IsGiven
    <3>3. IsProxy(proxy) /\ proxy.resource = model
      BY DEF IsProxy
    <3> HIDE DEF proxy, got, model
    <3>4. /\ proxies \in Seq(Range(proxies)) /\ Range(proxies) = Range(c.proxies) \cup {proxy}
          /\ Len(proxies) = Len(c.proxies) + 1 /\ Len(c.proxies) \in Nat
      BY <3>2, ListAppend
    <3> HIDE DEF proxies
    <3>5. IsCache(got)
      BY <3>1, <3>2, ProxiesIsCache
    <3>6. got = [images |-> c.images, states |-> c.states, skins |-> c.skins, models |-> c.models,
                 proxies |-> proxies,
                 result |-> [states |-> c.result.states, proxies |-> c.result.proxies]]
      BY <3>1, <3>2, ProxiesForm
    <3>7. /\ got.images = c.images /\ got.states = c.states /\ got.skins = c.skins
          /\ got.models = c.models /\ got.proxies = proxies
          /\ got.result.states = c.result.states /\ got.result.proxies = c.result.proxies
      BY <3>6
    <3>8. 1..Len(c.proxies) \subseteq 1..Len(proxies)
      BY <3>4
    <3>9. IsGiven(got)
      BY <3>3, <3>4, <3>5, <3>7, <3>8 DEF IsGiven
    <3>. QED
      BY <3>3, <3>4, <3>7, <3>9
  <2>. QED
    BY <2>1, <2>2
<1>2. ReferToModel(lib, c, u)
        = IF model = NoResource THEN c
          ELSE [got EXCEPT !.result.proxies = got.result.proxies \cup {ProxyOf(got, model)}]
  BY DEF ReferToModel
<1> HIDE DEF got, model
<1> DEFINE proxies == got.result.proxies \cup {ProxyOf(got, model)}
           d == [got EXCEPT !.result.proxies = proxies]
<1>3. IsCache(got) /\ got.proxies \in Seq(Range(got.proxies))
  BY <1>1 DEF IsGiven
<1>4. ProxyOf(got, model) \in DOMAIN got.proxies
  <2>1. \E p \in DOMAIN got.proxies : got.proxies[p].resource = model
    BY <1>1 DEF Range
  <2>. QED
    BY <1>3, <2>1, LatestIsThere DEF ProxyOf
<1>5. DOMAIN got.proxies = 1..Len(got.proxies)
  BY <1>3
<1>6. proxies \subseteq 1..Len(got.proxies)
  BY <1>1, <1>4, <1>5 DEF IsGiven
<1> HIDE DEF proxies
<1>7. d = [images |-> got.images, states |-> got.states, skins |-> got.skins, models |-> got.models,
           proxies |-> got.proxies,
           result |-> [states |-> got.result.states, proxies |-> proxies]]
  BY <1>3, ProxiesForm
<1>8. IsCache(d)
  BY <1>3, ProxiesIsCache
<1> HIDE DEF d
<1>9. /\ d.images = got.images /\ d.states = got.states /\ d.skins = got.skins
      /\ d.models = got.models /\ d.proxies = got.proxies
      /\ d.result.states = got.result.states /\ d.result.proxies = proxies
  BY <1>7
<1>10. IsGiven(d)
  BY <1>1, <1>6, <1>8, <1>9 DEF IsGiven
<1>11. ReferToModel(lib, c, u) = IF model = NoResource THEN c ELSE d
  BY <1>2 DEF d, proxies
<1>. QED
  BY <1>10, <1>11

LEMMA OverlayGiven ==
  ASSUME NEW lib, NEW known, NEW format, NEW c, IsGiven(c), NEW u,
         getRaster(lib, u.name) # NoResource /\ u.area # {} => Fit(Pasted(known, format, u)),
         u.size \in Nat \ {0}, IsPath(u.image)
  PROVE  IsGiven(ApplyOverlay(lib, known, format, c, u))
<1> DEFINE image == Pasted(known, format, u)
           added == AddStates(c, <<<<image>>>>)
           state == Len(added.states)
           none == getRaster(lib, u.name) = NoResource \/ u.area = {} \/ Met(known, u) = {}
           shown == Show(added, {state})
           own == OwnSkin(state, 0)
           skins == Append(added.skins, own)
           d == addSkin(shown, state, 0)
<1>1. ApplyOverlay(lib, known, format, c, u) = IF none THEN c ELSE d
  BY DEF ApplyOverlay
<1>2. ASSUME ~none PROVE IsGiven(d)
  <2>1. Fit(image)
    BY <1>2
  <2>2. IsImage(image)
    <3>1. /\ image.path = u.image /\ image.size = u.size /\ image.origin.size = u.size
          /\ image = [path |-> image.path, origin |-> image.origin, size |-> image.size,
                      pixel_format |-> image.pixel_format, compressed |-> image.compressed]
      BY DEF Pasted
    <3> HIDE DEF image
    <3>. QED
      BY <3>1 DEF IsImage
  <2> HIDE DEF image
  <2>3. IsGiven(added) /\ state \in 1..Len(added.states)
    <3>1. added = AddStates(c, <<<<image>>>>)
      OBVIOUS
    <3> HIDE DEF added
    <3>. QED
      BY <2>1, <2>2, <3>1, AddImageGiven
  <2>4. own.state = state /\ own.limit = 0
    BY DEF OwnSkin
  <2>5. d = [shown EXCEPT !.skins = Append(shown.skins, own)]
    BY DEF addSkin, OwnSkin
  <2> HIDE DEF added, own, state, d
  <2>6. IsCache(added) /\ added.skins \in Seq(Range(added.skins))
    BY <2>3 DEF IsGiven, IsCache
  <2>7. skins \in Seq(Range(skins)) /\ Range(skins) = Range(added.skins) \cup {own}
    BY <2>6, ListAppend
  <2>8. IsCache(shown)
    BY <2>6, ShowIsCache
  <2>9. shown = [images |-> added.images, states |-> added.states, skins |-> added.skins,
                 models |-> added.models, proxies |-> added.proxies,
                 result |-> [states |-> added.result.states \cup {state},
                             proxies |-> added.result.proxies]]
    BY <2>6, ShowForm
  <2> HIDE DEF shown
  <2>10. /\ shown.images = added.images /\ shown.states = added.states /\ shown.skins = added.skins
         /\ shown.models = added.models /\ shown.proxies = added.proxies
         /\ shown.result.states = added.result.states \cup {state}
         /\ shown.result.proxies = added.result.proxies
    BY <2>9
  <2>11. d = [shown EXCEPT !.skins = skins]
    BY <2>5, <2>10
  <2> HIDE DEF skins
  <2>12. d = [images |-> shown.images, states |-> shown.states, skins |-> skins,
              models |-> shown.models, proxies |-> shown.proxies,
              result |-> [states |-> shown.result.states, proxies |-> shown.result.proxies]]
    BY <2>8, <2>11, SkinsForm
  <2>13. d = [images |-> added.images, states |-> added.states, skins |-> skins,
              models |-> added.models, proxies |-> added.proxies,
              result |-> [states |-> added.result.states \cup {state},
                          proxies |-> added.result.proxies]]
    BY <2>10, <2>12
  <2>14. {state} \subseteq 1..Len(added.states)
    BY <2>3
  <2>15. /\ \A k \in Range(skins) \ Range(added.skins) :
               k.state \in 1..Len(added.states) /\ k.limit \in Nat
         /\ \A s \in {state} : added.states[s] # <<>> => \E k \in Range(skins) : k.state = s
    BY <2>3, <2>4, <2>7
  <2>16. Range(added.skins) \subseteq Range(skins)
    BY <2>7
  <2>. QED
    BY <2>3, <2>7, <2>13, <2>14, <2>15, <2>16, GiveStates
<1> HIDE DEF d, none
<1>. QED
  BY <1>1, <1>2

\* The uses of a cell, up to the m-th
MakesUses(uses, m, f) ==
  f = [n \in 0..m |-> IF n = 0 THEN EmptyCache ELSE AfterUse(f[n - 1], uses[n])]

LEMMA UsesLoop ==
  ASSUME NEW uses, Len(uses) \in Nat
  PROVE  \E f : MakesUses(uses, Len(uses), f)
<1> DEFINE N == Len(uses)
           P == {m \in 0..N : \E f : MakesUses(uses, m, f)}
<1>1. 0 \in P
  <2> DEFINE f == [n \in 0..0 |-> EmptyCache]
  <2>1. MakesUses(uses, 0, f)
    BY DEF MakesUses
  <2> HIDE DEF f
  <2>2. 0 \in 0..N
    OBVIOUS
  <2>. QED
    BY <2>1, <2>2
<1>2. ASSUME NEW m \in 1..N, m - 1 \in P PROVE m \in P
  <2>1. PICK f : MakesUses(uses, m - 1, f)
    BY <1>2
  <2> DEFINE g == [n \in 0..m |-> IF n = m THEN AfterUse(f[m - 1], uses[m]) ELSE f[n]]
  <2>2. ASSUME NEW n \in 0..m PROVE g[n] = IF n = 0 THEN EmptyCache ELSE AfterUse(g[n - 1], uses[n])
    <3>1. CASE n = m
      <4>1. m # 0 /\ m - 1 \in 0..m /\ m - 1 # m
        OBVIOUS
      <4>2. g[m - 1] = f[m - 1]
        BY <4>1
      <4>3. g[n] = AfterUse(f[m - 1], uses[m])
        BY <3>1
      <4> HIDE DEF g
      <4>. QED
        BY <4>1, <4>2, <4>3, <3>1
    <3>2. CASE n # m
      <4>1. n \in 0..(m - 1)
        BY <3>2
      <4>2. g[n] = f[n]
        BY <3>2
      <4>3. f[n] = IF n = 0 THEN EmptyCache ELSE AfterUse(f[n - 1], uses[n])
        BY <2>1, <4>1 DEF MakesUses
      <4>4. CASE n = 0
        <5> HIDE DEF g
        <5>. QED
          BY <4>2, <4>3, <4>4
      <4>5. CASE n # 0
        <5>1. n - 1 \in 0..m /\ n - 1 # m
          BY <4>5
        <5>2. g[n - 1] = f[n - 1]
          BY <5>1
        <5> HIDE DEF g
        <5>. QED
          BY <4>2, <4>3, <4>5, <5>2
      <4>. QED
        BY <4>4, <4>5
    <3>. QED
      BY <3>1, <3>2
  <2>3. g = [n \in 0..m |-> g[n]]
    OBVIOUS
  <2> HIDE DEF g
  <2>4. MakesUses(uses, m, g)
    BY <2>2, <2>3 DEF MakesUses
  <2>5. m \in 0..N
    OBVIOUS
  <2>. QED
    BY <2>4, <2>5
<1>3. N \in Nat
  OBVIOUS
<1> HIDE DEF P
<1>4. 0..N \subseteq P
  <2> HIDE DEF N
  <2>. QED
    BY <1>1, <1>2, <1>3, CountUp
<1>5. N \in P
  BY <1>3, <1>4
<1>. QED
  BY <1>5 DEF P

LEMMA CachesForm ==
  ASSUME NEW l, NEW c, Len(l.uses[c]) \in Nat
  PROVE  /\ CachesOf(l, c)[0] = EmptyCache
         /\ \A n \in 1..Len(l.uses[c]) : CachesOf(l, c)[n] = AfterUse(CachesOf(l, c)[n - 1], l.uses[c][n])
<1> DEFINE uses == l.uses[c]
           N == Len(uses)
           f == CHOOSE g : g = [n \in 0..N |-> IF n = 0 THEN EmptyCache ELSE AfterUse(g[n - 1], uses[n])]
<1>1. \E g : MakesUses(uses, N, g)
  BY UsesLoop
<1>2. MakesUses(uses, N, f)
  BY <1>1 DEF MakesUses
<1>3. CachesOf(l, c) = f
  BY DEF CachesOf
<1> HIDE DEF f
<1>4. 0 \in 0..N /\ f[0] = IF 0 = 0 THEN EmptyCache ELSE AfterUse(f[0 - 1], uses[0])
  BY <1>2 DEF MakesUses
<1>5. ASSUME NEW n \in 1..N PROVE f[n] = AfterUse(f[n - 1], uses[n])
  <2>1. n \in 0..N /\ n # 0
    OBVIOUS
  <2>. QED
    BY <1>2, <2>1 DEF MakesUses
<1>. QED
  BY <1>3, <1>4, <1>5

\* What a raster's image shows once all parts were looked at
LEMMA GoodFits ==
  ASSUME NEW u, u.name \in DOMAIN Parts => OneFormat(u.name), NEW format,
         format = Parts[u.name][CHOOSE p \in Good(u.name) : TRUE].pixel_format
  PROVE  Fit(Pasted(Good(u.name), format, u))
<1> DEFINE r == u.name
           image == Pasted(Good(r), format, u)
           parts == {p \in Met(Good(r), u) : Parts[r][p].pixel_format = format}
           one == CHOOSE p \in Good(r) : TRUE
<1>1. /\ "origin" \in DOMAIN image
      /\ image.origin = [from |-> r, size |-> u.size, area |-> u.area, parts |-> parts]
  BY DEF Pasted
<1>2. ASSUME r \in DOMAIN Parts
      PROVE  parts = {p \in Good(r) : Parts[r][p].area \intersect u.area # {}}
  <2>1. ASSUME NEW p \in Good(r) PROVE Parts[r][p].pixel_format = format
    <3>1. one \in Good(r)
      BY <2>1
    <3> HIDE DEF one
    <3>2. Parts[r][p].pixel_format = Parts[r][one].pixel_format
      BY <1>2, <2>1, <3>1 DEF OneFormat
    <3>. QED
      BY <3>2 DEF one
  <2>. QED
    BY <2>1 DEF Met
<1> HIDE DEF image, parts, one
<1>3. IsComplete(image)
  BY <1>1, <1>2 DEF IsComplete
<1>. QED
  BY <1>1, <1>3 DEF Fit, image

LEMMA UseGiven ==
  ASSUME NEW l \in Layers, Apart(l), NEW c \in Cells, NEW u \in Range(l.uses[c]), NEW d, IsGiven(d)
  PROVE  IsGiven(AfterUse(d, u))
<1> DEFINE lib == ProjectSession.resources
           format == Parts[u.name][CHOOSE p \in Good(u.name) : TRUE].pixel_format
<1>1. /\ u.kind \in {"walls", "model", "raster"}
      /\ u.kind = "walls" /\ WallSkin(lib, u) # NoResource => WallSkin(lib, u).limit \in Nat
      /\ u.kind = "model" => u.limit \in Nat
      /\ u.kind = "raster" => u.size \in Nat \ {0} /\ IsPath(u.image)
  BY UsesAssumption
<1>2. u.kind = "raster" /\ u.name \in DOMAIN Parts => OneFormat(u.name)
  BY DEF Apart
<1>3. AfterUse(d, u)
        = CASE u.kind = "walls" -> WearSkin(lib, d, u)
            [] u.kind = "model" /\ u.bulk -> CopyModel(lib, d, u)
            [] u.kind = "model" /\ ~u.bulk /\ u.inline -> InlineModel(lib, d, u)
            [] u.kind = "model" /\ ~u.bulk /\ ~u.inline -> ReferToModel(lib, d, u)
            [] u.kind = "raster" -> ApplyOverlay(lib, Good(u.name), format, d, u)
  BY DEF AfterUse
<1> HIDE DEF lib
<1>4. CASE u.kind = "walls"
  <2>1. IsGiven(WearSkin(lib, d, u))
    BY <1>1, <1>4, WearGiven
  <2>. QED
    BY <1>3, <1>4, <2>1
<1>5. CASE u.kind = "model"
  <2>1. IsGiven(CopyModel(lib, d, u)) /\ IsGiven(InlineModel(lib, d, u)) /\ IsGiven(ReferToModel(lib, d, u))
    BY <1>1, <1>5, CopyGiven, InlineGiven, ReferGiven
  <2> HIDE DEF format
  <2>2. \/ AfterUse(d, u) = CopyModel(lib, d, u) \/ AfterUse(d, u) = InlineModel(lib, d, u)
        \/ AfterUse(d, u) = ReferToModel(lib, d, u)
    BY <1>3, <1>5
  <2>. QED
    BY <2>1, <2>2
<1>6. CASE u.kind = "raster"
  <2>1. Fit(Pasted(Good(u.name), format, u))
    <3>1. u.name \in DOMAIN Parts => OneFormat(u.name)
      BY <1>2, <1>6
    <3>2. format = Parts[u.name][CHOOSE p \in Good(u.name) : TRUE].pixel_format
      OBVIOUS
    <3> HIDE DEF format
    <3>. QED
      BY <3>1, <3>2, GoodFits
  <2> HIDE DEF format
  <2>2. IsGiven(ApplyOverlay(lib, Good(u.name), format, d, u))
    BY <1>1, <1>6, <2>1, OverlayGiven
  <2>. QED
    BY <1>3, <1>6, <2>2
<1>. QED
  BY <1>1, <1>4, <1>5, <1>6

\* What a cell's cache comes to is always something that can be packaged.
LEMMA CachesGiven ==
  ASSUME NEW l \in Layers, Apart(l), NEW c \in Cells
  PROVE  /\ Len(l.uses[c]) \in Nat
         /\ \A n \in 0..Len(l.uses[c]) : IsGiven(CachesOf(l, c)[n])
<1> DEFINE uses == l.uses[c]
           N == Len(uses)
           f == CachesOf(l, c)
           P == {n \in 0..N : IsGiven(f[n])}
<1>0. uses \in Seq(Range(uses))
  BY LayerAssumption
<1>1. N \in Nat /\ DOMAIN uses = 1..N
  BY <1>0
<1>2. f[0] = EmptyCache /\ \A n \in 1..N : f[n] = AfterUse(f[n - 1], uses[n])
  BY <1>1, CachesForm
<1> HIDE DEF f
<1>3. 0 \in P
  BY <1>1, <1>2, EmptyIsGiven
<1>4. ASSUME NEW n \in 1..N, n - 1 \in P PROVE n \in P
  <2>1. IsGiven(f[n - 1]) /\ f[n] = AfterUse(f[n - 1], uses[n])
    BY <1>2, <1>4
  <2>2. uses[n] \in Range(uses)
    BY <1>1 DEF Range
  <2>3. IsGiven(AfterUse(f[n - 1], uses[n]))
    BY <2>1, <2>2, UseGiven
  <2>4. n \in 0..N
    BY <1>1
  <2>. QED
    BY <2>1, <2>3, <2>4
<1> HIDE DEF P
<1>5. 0..N \subseteq P
  <2> HIDE DEF N
  <2>. QED
    BY <1>1, <1>3, <1>4, CountUp
<1>. QED
  BY <1>1, <1>5 DEF P, f

-----------------------------------------------------------------------------
(***************************************************************************)
(* What the packager makes of one image.                                   *)
(***************************************************************************)
\* The name that is written into the scene graph
IsWritten(packager, path) ==
  /\ IsPath(path) /\ path.dir = ""
  /\ packager.compress => path.ext = "dds"

\* A path with another suffix or extension
LEMMA LimitPath ==
  ASSUME NEW p, IsPath(p), NEW x, NEW q, q = [p EXCEPT !.limit = x]
  PROVE  IsPath(q) /\ q.dir = p.dir /\ q.base = p.base /\ q.ext = p.ext
<1>1. IsPath(q) /\ q = [dir |-> p.dir, base |-> p.base, limit |-> x, ext |-> p.ext]
  BY PathWith
<1>. QED
  BY <1>1

LEMMA ExtPath ==
  ASSUME NEW p, IsPath(p), NEW x
  PROVE  /\ IsPath([p EXCEPT !.ext = x])
         /\ [p EXCEPT !.ext = x].dir = p.dir /\ [p EXCEPT !.ext = x].ext = x
<1> DEFINE q == [p EXCEPT !.ext = x]
<1>1. IsPath(q) /\ q = [dir |-> p.dir, base |-> p.base, limit |-> p.limit, ext |-> x]
  BY PathWith
<1> HIDE DEF q
<1>2. IsPath(q) /\ q.dir = p.dir /\ q.ext = x
  BY <1>1
<1>. QED
  BY <1>2 DEF q

LEMMA SimplePath ==
  ASSUME NEW path, IsPath(path)
  PROVE  /\ IsPath(Simple(path)) /\ Simple(path).dir = "" /\ Simple(path).base = path.base
         /\ path.dir = "" => Simple(path) = path
<1> DEFINE simple == Simple(path)
<1>1. simple = [dir |-> "", base |-> path.base, limit |-> path.limit, ext |-> path.ext]
      /\ IsPath(simple)
  BY PathWith DEF Simple
<1>2. path = [dir |-> path.dir, base |-> path.base, limit |-> path.limit, ext |-> path.ext]
  BY DEF IsPath
<1> HIDE DEF simple
<1>3. IsPath(simple) /\ simple.dir = "" /\ simple.base = path.base /\ (path.dir = "" => simple = path)
  BY <1>1, <1>2
<1>. QED
  BY <1>3 DEF simple

LEMMA RewrittenPath ==
  ASSUME NEW packager, NEW path, IsPath(path)
  PROVE  IsWritten(packager, Rewritten(packager, path))
<1> DEFINE simple == Simple(path)
           suffixed == [simple EXCEPT !.limit = packager.max]
           lower == [suffixed EXCEPT !.ext = LowerCase(@)]
           limited == IF packager.max = 0 THEN simple ELSE lower
           dds == [limited EXCEPT !.ext = "dds"]
<1>1. Rewritten(packager, path) = IF packager.compress THEN dds ELSE limited
  BY DEF Rewritten
<1>2. IsPath(simple) /\ simple.dir = ""
  BY SimplePath
<1> HIDE DEF simple
<1>3. IsPath(suffixed) /\ suffixed.dir = ""
  <2> DEFINE max == packager.max
  <2>1. suffixed = [simple EXCEPT !.limit = max]
    OBVIOUS
  <2> HIDE DEF max, suffixed
  <2>2. IsPath(suffixed) /\ suffixed.dir = simple.dir
    BY <1>2, <2>1, LimitPath
  <2>. QED
    BY <1>2, <2>2
<1> HIDE DEF suffixed
<1>4. IsPath(lower) /\ lower.dir = ""
  <2> DEFINE new == LowerCase(suffixed.ext)
  <2>1. lower = [suffixed EXCEPT !.ext = new]
    OBVIOUS
  <2> HIDE DEF new, lower
  <2>2. IsPath(lower) /\ lower.dir = suffixed.dir
    BY <1>3, <2>1, ExtPath, Zenon
  <2>. QED
    BY <1>3, <2>2
<1> HIDE DEF lower
<1>5. IsPath(limited) /\ limited.dir = ""
  BY <1>2, <1>4
<1> HIDE DEF limited
<1>6. IsPath(dds) /\ dds.dir = "" /\ dds.ext = "dds"
  <2> DEFINE new == "dds"
  <2>1. dds = [limited EXCEPT !.ext = new]
    OBVIOUS
  <2> HIDE DEF new, dds
  <2>2. IsPath(dds) /\ dds.dir = limited.dir /\ dds.ext = new
    BY <1>5, <2>1, ExtPath, Zenon
  <2>. QED
    BY <1>5, <2>2 DEF new
<1> HIDE DEF dds
<1>. QED
  BY <1>1, <1>5, <1>6 DEF IsWritten

\* A file has the name that the scene graph has for it.
LEMMA OutputName ==
  ASSUME NEW packager, NEW limit, NEW image, IsWritten(packager, image.path), image.path.base # ""
  PROVE  Output(packager, limit, image).name = image.path
<1> DEFINE path == image.path
           dds == [FileName(image) EXCEPT !.ext = "dds"]
<1>1. IsPath(path) /\ path.dir = "" /\ (packager.compress => path.ext = "dds")
  BY DEF IsWritten
<1>2. Simple(path) = path /\ path # NoName
  BY <1>1, SimplePath, NoNameIsPath
<1>3. FileName(image) = path
  BY <1>2 DEF FileName
<1>4. packager.compress => dds = path
  <2> HIDE DEF path
  <2>1. dds = [path EXCEPT !.ext = "dds"]
    BY <1>3
  <2>2. [path EXCEPT !.ext = "dds"] = [dir |-> path.dir, base |-> path.base, limit |-> path.limit, ext |-> "dds"]
    BY <1>1, PathWith
  <2>3. path = [dir |-> path.dir, base |-> path.base, limit |-> path.limit, ext |-> path.ext]
    BY <1>1 DEF IsPath
  <2>. QED
    BY <1>1, <2>1, <2>2, <2>3
<1>5. Output(packager, limit, image).name \in {dds, FileName(image)}
      /\ (~packager.compress => Output(packager, limit, image).name = FileName(image))
  BY DEF Output
<1> HIDE DEF path, dds
<1>. QED
  BY <1>3, <1>4, <1>5 DEF path

\* The sizes that limit an image: its own, the packager's and those of skins
Sizes(packager, limits, image) == ({packager.max, image.origin.size} \cup limits) \ {0}

\* An image that has yet to be limited, or is limited
Limiting(packager, limits, image) ==
  /\ image.size \in Nat \ {0} /\ image.origin.size \in Nat \ {0}
  /\ image.pixel_format \notin Resizable => image.size = image.origin.size
  /\ image.pixel_format \in Resizable =>
       /\ image.size \in Sizes(packager, limits, image)
       /\ \A size \in Sizes(packager, limits, image) : size # packager.max => image.size <= size
Limits(packager, limits, image) ==
  /\ Limiting(packager, limits, image)
  /\ image.pixel_format \in Resizable /\ packager.max # 0 => image.size <= packager.max

\* The fields of an image
HasFields(image) ==
  image = [path |-> image.path, origin |-> image.origin, size |-> image.size,
           pixel_format |-> image.pixel_format, compressed |-> image.compressed]

LEMMA ResizedForm ==
  ASSUME NEW image, HasFields(image), NEW size, NEW path
  PROVE  [image EXCEPT !.size = size, !.path = path]
           = [path |-> path, origin |-> image.origin, size |-> size,
              pixel_format |-> image.pixel_format, compressed |-> image.compressed]
<1>0. image = [path |-> image.path, origin |-> image.origin, size |-> image.size,
               pixel_format |-> image.pixel_format, compressed |-> image.compressed]
  BY DEF HasFields
<1> DEFINE sized == [image EXCEPT !.size = size]
<1>1. sized = [path |-> image.path, origin |-> image.origin, size |-> size,
               pixel_format |-> image.pixel_format, compressed |-> image.compressed]
  BY <1>0
<1>2. [image EXCEPT !.size = size, !.path = path] = [sized EXCEPT !.path = path]
  OBVIOUS
<1> HIDE DEF sized
<1>. QED
  BY <1>1, <1>2

LEMMA PathForm ==
  ASSUME NEW image, HasFields(image), NEW path
  PROVE  [image EXCEPT !.path = path]
           = [path |-> path, origin |-> image.origin, size |-> image.size,
              pixel_format |-> image.pixel_format, compressed |-> image.compressed]
<1>0. image = [path |-> image.path, origin |-> image.origin, size |-> image.size,
               pixel_format |-> image.pixel_format, compressed |-> image.compressed]
  BY DEF HasFields
<1>. QED
  BY <1>0

LEMMA CompressedForm ==
  ASSUME NEW image, HasFields(image), NEW path, NEW flag
  PROVE  [image EXCEPT !.compressed = flag, !.path = path]
           = [path |-> path, origin |-> image.origin, size |-> image.size,
              pixel_format |-> image.pixel_format, compressed |-> flag]
<1>0. image = [path |-> image.path, origin |-> image.origin, size |-> image.size,
               pixel_format |-> image.pixel_format, compressed |-> image.compressed]
  BY DEF HasFields
<1> DEFINE done == [image EXCEPT !.compressed = flag]
<1>1. done = [path |-> image.path, origin |-> image.origin, size |-> image.size,
              pixel_format |-> image.pixel_format, compressed |-> flag]
  BY <1>0
<1>2. [image EXCEPT !.compressed = flag, !.path = path] = [done EXCEPT !.path = path]
  OBVIOUS
<1> HIDE DEF done
<1>. QED
  BY <1>1, <1>2

LEMMA SizeLimitIs ==
  ASSUME NEW packager, packager.max \in Nat, NEW limit \in Nat
  PROVE  /\ SizeLimit(packager, limit) \in Nat
         /\ SizeLimit(packager, limit) \in {packager.max, limit}
         /\ SizeLimit(packager, limit) = 0 => packager.max = 0 /\ limit = 0
         /\ packager.max # 0 => SizeLimit(packager, limit) <= packager.max
         /\ limit # 0 => SizeLimit(packager, limit) <= limit
BY DEF SizeLimit

\* What is written has the size that is asked for.
LimitsAs(packager, limits, image, out) ==
  /\ HasFields(out) /\ out.origin = image.origin /\ out.pixel_format = image.pixel_format
  /\ Limits(packager, limits, out)

LEMMA OutputImage ==
  ASSUME NEW packager, packager.max \in Nat, NEW limit \in Nat, NEW limits, limits \subseteq Nat,
         NEW image, HasFields(image), Limiting(packager, limits, image)
  PROVE  LimitsAs(packager, limits \cup {limit}, image, Output(packager, limit, image).image)
<1> DEFINE out == Output(packager, limit, image).image
<1>0. out = Output(packager, limit, image).image
  OBVIOUS
<1> HIDE DEF out
<1> DEFINE new == SizeLimit(packager, limit)
           small == 0 < new /\ new < image.size /\ image.pixel_format \in Resizable
           resized == [image EXCEPT !.size = new, !.path = NoName]
           limited == Limited(packager, limit, image)
           dds == [FileName(image) EXCEPT !.ext = "dds"]
           compressed == [limited EXCEPT !.compressed = TRUE, !.path = dds]
<1>1. limited = IF small THEN resized ELSE image
  BY DEF Limited, resizeImage
<1>2. out = IF packager.compress /\ limited.pixel_format \in Compressible THEN compressed ELSE limited
  BY <1>0 DEF Output
<1>3. resized = [path |-> NoName, origin |-> image.origin, size |-> new,
                 pixel_format |-> image.pixel_format, compressed |-> image.compressed]
  <2> DEFINE none == NoName
  <2> HIDE DEF new, none
  <2>1. [image EXCEPT !.size = new, !.path = none]
          = [path |-> none, origin |-> image.origin, size |-> new,
             pixel_format |-> image.pixel_format, compressed |-> image.compressed]
    BY ResizedForm
  <2>. QED
    BY <2>1 DEF none
<1> HIDE DEF resized, dds
<1>4. /\ HasFields(limited) /\ limited.origin = image.origin
      /\ limited.pixel_format = image.pixel_format
      /\ limited.size = IF small THEN new ELSE image.size
  <2> HIDE DEF new
  <2>1. CASE small
    <3>1. limited = resized
      BY <1>1, <2>1
    <3> HIDE DEF limited, small
    <3>. QED
      BY <1>3, <2>1, <3>1 DEF HasFields
  <2>2. CASE ~small
    <3>1. limited = image
      BY <1>1, <2>2
    <3> HIDE DEF limited, small
    <3>. QED
      BY <2>2, <3>1
  <2>. QED
    BY <2>1, <2>2
<1> HIDE DEF limited
<1>5. compressed = [path |-> dds, origin |-> limited.origin, size |-> limited.size,
                    pixel_format |-> limited.pixel_format, compressed |-> TRUE]
  <2> DEFINE flag == TRUE
  <2> HIDE DEF flag
  <2>1. [limited EXCEPT !.compressed = flag, !.path = dds]
          = [path |-> dds, origin |-> limited.origin, size |-> limited.size,
             pixel_format |-> limited.pixel_format, compressed |-> flag]
    BY <1>4, CompressedForm
  <2>. QED
    BY <2>1 DEF flag
<1> HIDE DEF compressed
<1>6. /\ HasFields(out) /\ out.origin = limited.origin /\ out.size = limited.size
      /\ out.pixel_format = limited.pixel_format
  <2>1. /\ HasFields(compressed) /\ compressed.origin = limited.origin /\ compressed.size = limited.size
        /\ compressed.pixel_format = limited.pixel_format
    BY <1>5 DEF HasFields
  <2>2. out = compressed \/ out = limited
    BY <1>2
  <2>. QED
    BY <1>4, <2>1, <2>2
<1>7. /\ new \in Nat /\ new \in {packager.max, limit}
      /\ (new = 0 => packager.max = 0 /\ limit = 0)
      /\ (packager.max # 0 => new <= packager.max) /\ (limit # 0 => new <= limit)
  BY SizeLimitIs
<1> HIDE DEF new
<1> DEFINE orig == image.origin.size
           old == image.size
           S == Sizes(packager, limits, image)
           T == Sizes(packager, limits \cup {limit}, out)
<1>8. /\ old \in Nat \ {0} /\ orig \in Nat \ {0}
      /\ image.pixel_format \notin Resizable => old = orig
      /\ image.pixel_format \in Resizable =>
           old \in S /\ \A size \in S : size # packager.max => old <= size
  BY DEF Limiting
<1>9. /\ T = S \cup ({limit} \ {0}) /\ out.origin.size = orig
      /\ S = ({packager.max, orig} \cup limits) \ {0}
  BY <1>4, <1>6 DEF Sizes
<1>10. out.size = IF small THEN new ELSE old
  BY <1>4, <1>6
<1> DEFINE size == out.size
<1>11. ASSUME image.pixel_format \in Resizable
       PROVE  /\ size \in T /\ size \in Nat \ {0} /\ \A w \in T : size <= w
  <2>1. small <=> 0 < new /\ new < old
    BY <1>11
  <2>2. size = IF 0 < new /\ new < old THEN new ELSE old
    BY <1>10, <2>1
  <2>3. old \in S /\ \A w \in S : w # packager.max => old <= w
    BY <1>8, <1>11
  <2>4. S \subseteq Nat \ {0} /\ packager.max \in S \cup {0}
    BY <1>8, <1>9
  <2> HIDE DEF S, T, old, orig, size, small
  <2>5. size <= old /\ size \in Nat \ {0} /\ (new # 0 => size <= new)
    BY <1>7, <1>8, <2>2
  <2>6. size \in T
    BY <1>7, <1>9, <2>2, <2>3, <2>4
  <2>7. ASSUME NEW w \in T PROVE size <= w
    <3>1. CASE w = limit /\ w # 0
      <4>1. new # 0 /\ new <= w
        BY <1>7, <3>1
      <4>. QED
        BY <1>7, <2>5, <3>1, <4>1
    <3>2. CASE w = packager.max /\ w # 0
      <4>1. new # 0 /\ new <= w
        BY <1>7, <3>2
      <4>. QED
        BY <1>7, <2>5, <3>2, <4>1
    <3>3. CASE w \in S /\ w # packager.max
      <4>1. old <= w /\ w \in Nat
        BY <2>3, <2>4, <3>3
      <4>. QED
        BY <1>8, <2>5, <4>1
    <3>4. w \in S \/ (w = limit /\ w # 0)
      BY <1>9
    <3>5. w # 0
      BY <1>9, <2>4
    <3>. QED
      BY <3>1, <3>2, <3>3, <3>4, <3>5
  <2>. QED
    BY <2>5, <2>6, <2>7
<1>12. ASSUME image.pixel_format \notin Resizable PROVE size = out.origin.size
  BY <1>8, <1>9, <1>10, <1>12
<1> HIDE DEF S, old, orig
<1>13. Limiting(packager, limits \cup {limit}, out)
  <2>1. out.size \in Nat \ {0} /\ out.origin.size \in Nat \ {0}
    BY <1>4, <1>6, <1>8, <1>9, <1>11, <1>12
  <2> HIDE DEF small
  <2>2. out.pixel_format = image.pixel_format
    BY <1>4, <1>6
  <2>. QED
    BY <1>11, <1>12, <2>1, <2>2 DEF Limiting
<1>14. out.pixel_format \in Resizable /\ packager.max # 0 => out.size <= packager.max
  <2>1. packager.max # 0 => packager.max \in T
    BY DEF Sizes
  <2> HIDE DEF T, small
  <2>. QED
    BY <1>4, <1>6, <1>11, <2>1
<1>. QED
  BY <1>0, <1>4, <1>6, <1>13, <1>14 DEF Limits, LimitsAs

LEMMA MinIs ==
  ASSUME NEW S, S \subseteq Nat, NEW v \in S, \A w \in S : v <= w
  PROVE  Min(S) = v
<1>1. Min(S) \in S /\ \A w \in S : Min(S) <= w
  BY DEF Min
<1> DEFINE m == Min(S)
<1> HIDE DEF m
<1>2. m \in S /\ m <= v /\ v <= m
  BY <1>1 DEF m
<1>3. m \in Nat /\ v \in Nat
  BY <1>2
<1>4. m = v
  BY <1>2, <1>3
<1>. QED
  BY <1>4 DEF m

\* The size of an image that was limited for every skin is the one that is wanted.
LEMMA LimitedIsWanted ==
  ASSUME NEW packager, packager.max \in Nat, NEW t, t.limits \subseteq Nat,
         Limits(packager, t.limits, t.image)
  PROVE  WantedSize(packager, t) = t.image.size
<1> DEFINE S == ({packager.max, t.image.origin.size} \cup t.limits) \ {0}
           size == t.image.size
<1>1. CASE t.image.pixel_format \notin Resizable
  BY <1>1 DEF WantedSize, Limits, Limiting
<1>2. CASE t.image.pixel_format \in Resizable
  <2>1. /\ size \in S /\ t.image.origin.size \in Nat
        /\ \A w \in S : w # packager.max => size <= w
        /\ packager.max # 0 => size <= packager.max
    BY <1>2 DEF Limits, Limiting, Sizes
  <2>2. S \subseteq Nat /\ 0 \notin S
    BY <2>1
  <2>3. WantedSize(packager, t) = Min(S)
    BY <1>2 DEF WantedSize
  <2> HIDE DEF S, size
  <2>4. \A w \in S : size <= w
    BY <2>1, <2>2
  <2>5. Min(S) = size
    BY <2>1, <2>2, <2>4, MinIs
  <2>. QED
    BY <2>3, <2>5 DEF size
<1>. QED
  BY <1>1, <1>2

-----------------------------------------------------------------------------
(***************************************************************************)
(* What the packager makes of a cache.                                     *)
(***************************************************************************)
LEMMA ImagesForm ==
  ASSUME NEW c, IsCache(c), NEW images, NEW proxies
  PROVE  [c EXCEPT !.images = images, !.proxies = proxies]
           = [images |-> images, states |-> c.states, skins |-> c.skins, models |-> c.models,
              proxies |-> proxies,
              result |-> [states |-> c.result.states, proxies |-> c.result.proxies]]
<1>0. c = [images |-> c.images, states |-> c.states, skins |-> c.skins, models |-> c.models,
           proxies |-> c.proxies,
           result |-> [states |-> c.result.states, proxies |-> c.result.proxies]]
  BY DEF IsCache
<1> DEFINE d == [c EXCEPT !.images = images]
<1>1. d = [images |-> images, states |-> c.states, skins |-> c.skins, models |-> c.models,
           proxies |-> c.proxies,
           result |-> [states |-> c.result.states, proxies |-> c.result.proxies]]
  BY <1>0
<1>2. [c EXCEPT !.images = images, !.proxies = proxies] = [d EXCEPT !.proxies = proxies]
  OBVIOUS
<1> HIDE DEF d
<1>. QED
  BY <1>1, <1>2

\* Proxies are named after their model.
LEMMA ProxyName ==
  ASSUME NEW proxy, IsProxy(proxy)
  PROVE  /\ [proxy EXCEPT !.name = Simple(@)].resource = proxy.resource
         /\ [proxy EXCEPT !.name = Simple(@)].name = [NoName EXCEPT !.base = proxy.resource.uri]
<1> DEFINE model == proxy.resource
           uri == model.uri
           folder == "models"
           dir == [NoName EXCEPT !.dir = folder]
           name == [dir EXCEPT !.base = uri]
           simple == Simple(name)
<1>1. proxy = [resource |-> model, name |-> name]
  BY DEF IsProxy
<1>2. dir = [dir |-> folder, base |-> "", limit |-> 0, ext |-> ""]
  <2> HIDE DEF folder
  <2>1. dir = [dir |-> folder, base |-> NoName.base, limit |-> NoName.limit, ext |-> NoName.ext]
    BY PathWith, NoNameIsPath
  <2>. QED
    BY <2>1, NoNameIsPath
<1>3. IsPath(dir)
  <2> HIDE DEF folder
  <2>. QED
    BY PathWith, NoNameIsPath
<1> HIDE DEF dir
<1>4. IsPath(name) /\ name = [dir |-> dir.dir, base |-> uri, limit |-> dir.limit, ext |-> dir.ext]
  <2> HIDE DEF uri
  <2>. QED
    BY <1>3, PathWith
<1>5. name = [dir |-> folder, base |-> uri, limit |-> 0, ext |-> ""]
  BY <1>2, <1>4
<1> HIDE DEF name
<1>6. simple = [dir |-> "", base |-> name.base, limit |-> name.limit, ext |-> name.ext]
  <2> DEFINE none == ""
  <2> HIDE DEF none
  <2>0. IsPath(name)
    BY <1>4
  <2>1. [name EXCEPT !.dir = none] = [dir |-> none, base |-> name.base, limit |-> name.limit, ext |-> name.ext]
    BY <2>0, PathWith
  <2>. QED
    BY <2>1 DEF Simple, none
<1>7. simple = [dir |-> "", base |-> uri, limit |-> 0, ext |-> ""]
  BY <1>5, <1>6
<1>8. [NoName EXCEPT !.base = uri] = [dir |-> "", base |-> uri, limit |-> 0, ext |-> ""]
  <2> HIDE DEF uri
  <2>1. [NoName EXCEPT !.base = uri] = [dir |-> NoName.dir, base |-> uri, limit |-> NoName.limit, ext |-> NoName.ext]
    BY NoNameIsPath, PathWith
  <2>. QED
    BY <2>1, NoNameIsPath
<1> HIDE DEF simple, model
<1>9. [proxy EXCEPT !.name = Simple(@)] = [resource |-> model, name |-> simple]
  BY <1>1 DEF simple
<1>. QED
  BY <1>7, <1>8, <1>9 DEF model

\* Images of the cache before it is limited, and those that are shown by their new names
IsRewritten(packager, c, r) ==
  /\ IsCache(r) /\ r.states = c.states /\ r.skins = c.skins
  /\ r.result.states = c.result.states /\ r.result.proxies = c.result.proxies
  /\ Len(r.images) = Len(c.images) /\ DOMAIN r.images = DOMAIN c.images
  /\ \A i \in DOMAIN c.images : HasFields(r.images[i]) /\ Limiting(packager, {}, r.images[i])
  /\ \A i \in Shown(c) : i \in DOMAIN c.images => IsWritten(packager, r.images[i].path)
  /\ r.proxies \in Seq(Range(r.proxies)) /\ DOMAIN r.proxies = DOMAIN c.proxies
  /\ \A p \in DOMAIN c.proxies : r.proxies[p].resource = c.proxies[p].resource
  /\ \A p \in c.result.proxies :
       r.proxies[p].name = [NoName EXCEPT !.base = r.proxies[p].resource.uri]

LEMMA RewrittenForm ==
  ASSUME NEW packager, NEW c, IsGiven(c)
  PROVE  IsRewritten(packager, c, rewriteResourceReferences(packager, c))
<1> DEFINE r == rewriteResourceReferences(packager, c)
<1>20. r = rewriteResourceReferences(packager, c)
  OBVIOUS
<1> HIDE DEF r
<1> DEFINE images == [i \in DOMAIN c.images |->
                        IF i \in Shown(c)
                        THEN [c.images[i] EXCEPT !.path = Rewritten(packager, @)]
                        ELSE c.images[i]]
           proxies == [p \in DOMAIN c.proxies |->
                         IF p \in c.result.proxies
                         THEN [c.proxies[p] EXCEPT !.name = Simple(@)] ELSE c.proxies[p]]
<1>0. IsCache(c)
  BY DEF IsGiven
<1>1. IsCache(r)
  BY <1>0, <1>20, RewrittenIsCache
<1>2. r = [c EXCEPT !.images = images, !.proxies = proxies]
  BY <1>20 DEF rewriteResourceReferences
<1>3. ASSUME NEW i \in DOMAIN c.images
      PROVE  /\ HasFields(images[i]) /\ Limiting(packager, {}, images[i])
             /\ i \in Shown(c) => IsWritten(packager, images[i].path)
  <2> DEFINE image == c.images[i]
             path == Rewritten(packager, image.path)
             named == [image EXCEPT !.path = path]
  <2>1. IsImage(image)
    BY DEF IsGiven, Range
  <2>2. images[i] = IF i \in Shown(c) THEN named ELSE image
    OBVIOUS
  <2> HIDE DEF image, images
  <2>3. /\ HasFields(image) /\ IsPath(image.path)
        /\ image.size \in Nat \ {0} /\ image.origin.size = image.size
    BY <2>1 DEF IsImage, HasFields
  <2>4. IsWritten(packager, path)
    BY <2>3, RewrittenPath
  <2> HIDE DEF path
  <2>5. named = [path |-> path, origin |-> image.origin, size |-> image.size,
                 pixel_format |-> image.pixel_format, compressed |-> image.compressed]
    BY <2>3, PathForm
  <2> HIDE DEF named
  <2>6. /\ HasFields(named) /\ named.path = path
        /\ named.size = image.size /\ named.origin = image.origin
    BY <2>5 DEF HasFields
  <2>7. ASSUME NEW any, any.size \in Nat \ {0}, any.origin.size = any.size
        PROVE  Limiting(packager, {}, any)
    <3>1. any.size \in Sizes(packager, {}, any)
      BY <2>7 DEF Sizes
    <3>2. \A size \in Sizes(packager, {}, any) : size # packager.max => any.size <= size
      <4>1. \A size \in Sizes(packager, {}, any) : size = packager.max \/ size = any.size
        BY <2>7 DEF Sizes
      <4>2. any.size <= any.size
        BY <2>7
      <4>. QED
        BY <4>1, <4>2
    <3>. QED
      BY <2>7, <3>1, <3>2 DEF Limiting
  <2>8. Limiting(packager, {}, named) /\ Limiting(packager, {}, image)
    BY <2>3, <2>6, <2>7
  <2>. QED
    BY <2>2, <2>3, <2>4, <2>6, <2>8
<1>4. ASSUME NEW p \in DOMAIN c.proxies
      PROVE  /\ proxies[p].resource = c.proxies[p].resource
             /\ p \in c.result.proxies =>
                  proxies[p].name = [NoName EXCEPT !.base = c.proxies[p].resource.uri]
  <2> DEFINE proxy == c.proxies[p]
             named == [proxy EXCEPT !.name = Simple(@)]
  <2>1. IsProxy(proxy)
    BY DEF IsGiven, Range
  <2>2. proxies[p] = IF p \in c.result.proxies THEN named ELSE proxy
    OBVIOUS
  <2> HIDE DEF proxy, proxies
  <2>3. named.resource = proxy.resource /\ named.name = [NoName EXCEPT !.base = proxy.resource.uri]
    BY <2>1, ProxyName
  <2> HIDE DEF named
  <2>. QED
    BY <2>2, <2>3 DEF proxy
<1>5. DOMAIN images = DOMAIN c.images /\ DOMAIN proxies = DOMAIN c.proxies
      /\ proxies = [p \in DOMAIN proxies |-> proxies[p]]
      /\ images = [i \in DOMAIN images |-> images[i]]
  OBVIOUS
<1> HIDE DEF images, proxies
<1>6. r = [images |-> images, states |-> c.states, skins |-> c.skins, models |-> c.models,
           proxies |-> proxies,
           result |-> [states |-> c.result.states, proxies |-> c.result.proxies]]
  BY <1>0, <1>2, ImagesForm
<1>7. /\ r.images = images /\ r.states = c.states /\ r.skins = c.skins /\ r.proxies = proxies
      /\ r.result.states = c.result.states /\ r.result.proxies = c.result.proxies
  BY <1>6
<1>8. c.result.proxies \subseteq DOMAIN c.proxies /\ c.proxies \in Seq(Range(c.proxies))
  BY DEF IsGiven
<1>9. proxies \in Seq(Range(proxies))
  BY <1>5, <1>8, ListMapped
<1>10. Len(images) = Len(c.images)
  BY <1>0, <1>5, ListMapped DEF IsCache
<1>11. \A p \in DOMAIN c.proxies : r.proxies[p].resource = c.proxies[p].resource
  BY <1>4, <1>7
<1>12. ASSUME NEW p \in c.result.proxies
       PROVE  r.proxies[p].name = [NoName EXCEPT !.base = r.proxies[p].resource.uri]
  <2>1. p \in DOMAIN c.proxies
    BY <1>8
  <2>2. r.proxies[p].resource = c.proxies[p].resource
    BY <1>11, <2>1
  <2>3. r.proxies[p].name = [NoName EXCEPT !.base = c.proxies[p].resource.uri]
    BY <1>4, <1>7, <2>1
  <2>. QED
    BY <2>2, <2>3
<1>13. \A i \in DOMAIN c.images :
         /\ HasFields(r.images[i]) /\ Limiting(packager, {}, r.images[i])
         /\ i \in Shown(c) => IsWritten(packager, r.images[i].path)
  BY <1>3, <1>7
<1>. QED
  BY <1>1, <1>5, <1>7, <1>9, <1>10, <1>11, <1>12, <1>13, <1>20 DEF IsRewritten

\* What a skin is for: the first image of a state set
FirstImage(c, s) == c.images[c.states[s][1]]

LEMMA FirstOf ==
  ASSUME NEW c, IsCache(c), NEW s \in 1..Len(c.states), c.states[s] # <<>>
  PROVE  /\ 1 \in DOMAIN c.states[s] /\ c.states[s][1] \in 1..Len(c.images)
         /\ Head(c.states[s]) = c.states[s][1] /\ DOMAIN c.images = 1..Len(c.images)
         /\ Len(c.images) \in Nat /\ Len(c.states) \in Nat
<1> DEFINE A == 1..Len(c.images)
           B == Seq(A)
           units == c.states[s]
<1>1. c.states \in Seq(B) /\ c.images \in Seq(Range(c.images))
  BY DEF IsCache
<1>2. DOMAIN c.images = A /\ Len(c.images) \in Nat
  BY <1>1
<1> HIDE DEF A
<1>3. units \in B /\ Len(c.states) \in Nat
  <2> HIDE DEF B
  <2>. QED
    BY <1>1
<1>4. units \in Seq(A) /\ units # <<>>
  BY <1>3
<1> HIDE DEF units
<1>5. 1 \in DOMAIN units /\ units[1] \in A /\ Head(units) = units[1]
  BY <1>4
<1>. QED
  BY <1>2, <1>3, <1>5 DEF A, units

\* An inlined texture is that of its state set; the others stay.
InlineChange(packager, c, skin, d) ==
  /\ d.proxies = c.proxies
  /\ d.result.states = c.result.states /\ d.result.proxies = c.result.proxies
  /\ \A s \in 1..Len(c.states) : d.states[s] = <<>> <=> c.states[s] = <<>>
  /\ \A s \in 1..Len(c.states) : c.states[s] # <<>> =>
       FirstImage(d, s) = IF s = skin.state THEN Output(packager, skin.limit, FirstImage(c, s)).image
                          ELSE FirstImage(c, s)

LEMMA InlineChanges ==
  ASSUME NEW packager, NEW c, IsCache(c), NEW skin, skin.state \in 1..Len(c.states)
  PROVE  InlineChange(packager, c, skin, InlineTexture(packager, c, skin))
<1> DEFINE d == InlineTexture(packager, c, skin)
<1>0. d = InlineTexture(packager, c, skin)
  OBVIOUS
<1> HIDE DEF d
<1> SUFFICES InlineChange(packager, c, skin, d)
  BY <1>0
<1> USE DEF InlineChange
<1>1. CASE c.states[skin.state] = <<>>
  <2>1. d = c
    BY <1>0, <1>1 DEF InlineTexture
  <2>. QED
    BY <1>1, <2>1
<1>2. CASE c.states[skin.state] # <<>>
  <2> DEFINE k == skin.state
             m == Len(c.images)
             units == c.states[k]
             new == Output(packager, skin.limit, FirstImage(c, k)).image
             images == Append(c.images, new)
             changed == [units EXCEPT ![1] = m + 1]
             states == [c.states EXCEPT ![k] = changed]
             e == [c EXCEPT !.images = images]
  <2>0. c = [images |-> c.images, states |-> c.states, skins |-> c.skins, models |-> c.models,
             proxies |-> c.proxies,
             result |-> [states |-> c.result.states, proxies |-> c.result.proxies]]
    BY DEF IsCache
  <2>1. 1 \in DOMAIN units /\ Head(units) = units[1] /\ m \in Nat
    BY <1>2, FirstOf
  <2>2. d = [c EXCEPT !.images = images, !.states = states]
    <3>1. Output(packager, skin.limit, c.images[Head(c.states[k])]).image = new
      BY <2>1 DEF FirstImage
    <3> HIDE DEF new
    <3>2. d = [c EXCEPT !.images = Append(@, new), !.states[k][1] = Len(c.images) + 1]
      BY <1>0, <1>2, <3>1 DEF InlineTexture, SkinOutput
    <3>. QED
      BY <3>2
  <2>3. c.images \in Seq(Range(c.images)) /\ k \in DOMAIN c.states /\ DOMAIN c.states = 1..Len(c.states)
    <3> DEFINE B == Seq(1..Len(c.images))
    <3>1. c.states \in Seq(B)
      BY DEF IsCache
    <3> HIDE DEF B
    <3>2. DOMAIN c.states = 1..Len(c.states)
      BY <3>1
    <3>. QED
      BY <3>2 DEF IsCache
  <2> HIDE DEF new
  <2>4. images[m + 1] = new /\ \A i \in 1..m : images[i] = c.images[i]
    <3> DEFINE T == Range(c.images) \cup {new}
    <3>1. c.images \in Seq(T) /\ new \in T
      <4>1. Range(c.images) \subseteq T /\ new \in T
        OBVIOUS
      <4> HIDE DEF T
      <4>. QED
        BY <2>3, <4>1, SeqOfElements
    <3> HIDE DEF T
    <3>. QED
      BY <3>1
  <2>5. changed[1] = m + 1 /\ DOMAIN changed = DOMAIN units
    <3> HIDE DEF units, m
    <3>. QED
      BY <2>1
  <2>6. states[k] = changed /\ \A s \in 1..Len(c.states) : s # k => states[s] = c.states[s]
    <3> HIDE DEF changed, k
    <3>. QED
      BY <2>3
  <2>7. changed # <<>>
    BY <2>1, <2>5
  <2>8. d.images = images /\ d.states = states /\ d.proxies = c.proxies
        /\ d.result.states = c.result.states /\ d.result.proxies = c.result.proxies
    <3> HIDE DEF images, states
    <3>1. IsCache(c)
      OBVIOUS
    <3> DEFINE f == [c EXCEPT !.images = images]
    <3>2. f = [images |-> images, states |-> c.states, skins |-> c.skins, models |-> c.models,
               proxies |-> c.proxies,
               result |-> [states |-> c.result.states, proxies |-> c.result.proxies]]
      BY <2>0
    <3>3. d = [f EXCEPT !.states = states]
      BY <2>2
    <3> HIDE DEF f
    <3>4. d = [images |-> images, states |-> states, skins |-> c.skins, models |-> c.models,
               proxies |-> c.proxies,
               result |-> [states |-> c.result.states, proxies |-> c.result.proxies]]
      BY <3>2, <3>3
    <3>. QED
      BY <3>4
  <2> HIDE DEF images, states, changed, units, m, k
  <2>9. ASSUME NEW s \in 1..Len(c.states), s # k, c.states[s] # <<>>
        PROVE  FirstImage(d, s) = FirstImage(c, s)
    <3>1. d.states[s] = c.states[s]
      BY <2>6, <2>8, <2>9
    <3>2. c.states[s][1] \in 1..m
      BY <2>9, FirstOf DEF m
    <3>. QED
      BY <2>4, <2>8, <3>1, <3>2 DEF FirstImage
  <2>10. FirstImage(d, k) = new
    BY <2>4, <2>5, <2>6, <2>8 DEF FirstImage
  <2>11. ASSUME NEW s \in 1..Len(c.states) PROVE d.states[s] = <<>> <=> c.states[s] = <<>>
    <3>1. CASE s = k
      BY <1>2, <2>6, <2>7, <2>8, <3>1 DEF k
    <3>2. CASE s # k
      BY <2>6, <2>8, <3>2
    <3>. QED
      BY <3>1, <3>2
  <2>. QED
    BY <2>8, <2>9, <2>10, <2>11 DEF new, k
<1>. QED
  BY <1>1, <1>2

\* The limits of the first n skins that are for the state set
LimitsUpTo(skins, n, s) == {skins[j].limit : j \in {i \in 1..n : skins[i].state = s}}

LEMMA LimitsGrow ==
  ASSUME NEW skins, NEW n \in Nat \ {0}, NEW s
  PROVE  LimitsUpTo(skins, n, s)
           = IF skins[n].state = s THEN LimitsUpTo(skins, n - 1, s) \cup {skins[n].limit}
             ELSE LimitsUpTo(skins, n - 1, s)
<1> DEFINE I == {i \in 1..n : skins[i].state = s}
           J == {i \in 1..(n - 1) : skins[i].state = s}
<1>1. \A i : i \in 1..n <=> i \in 1..(n - 1) \/ i = n
  OBVIOUS
<1>2. I = IF skins[n].state = s THEN J \cup {n} ELSE J
  BY <1>1
<1>3. /\ LimitsUpTo(skins, n, s) = {skins[j].limit : j \in I}
      /\ LimitsUpTo(skins, n - 1, s) = {skins[j].limit : j \in J}
  BY DEF LimitsUpTo
<1> HIDE DEF I, J
<1>4. CASE skins[n].state = s
  BY <1>2, <1>3, <1>4
<1>5. CASE skins[n].state # s
  BY <1>2, <1>3, <1>5
<1>. QED
  BY <1>4, <1>5

\* Limited for the first n skins
LimitedUpTo(packager, skins, n, s, image) ==
  /\ HasFields(image)
  /\ Limiting(packager, LimitsUpTo(skins, n, s), image)
  /\ LimitsUpTo(skins, n, s) # {} => Limits(packager, LimitsUpTo(skins, n, s), image)

LEMMA LimitOnce ==
  ASSUME NEW packager, packager.max \in Nat, NEW skins, NEW n \in Nat \ {0}, NEW s,
         \A i \in 1..n : skins[i].limit \in Nat,
         NEW image, LimitedUpTo(packager, skins, n - 1, s, image),
         NEW out, out = IF s = skins[n].state THEN Output(packager, skins[n].limit, image).image ELSE image
  PROVE  LimitedUpTo(packager, skins, n, s, out)
<1> DEFINE before == LimitsUpTo(skins, n - 1, s)
           after == LimitsUpTo(skins, n, s)
<1>1. after = IF skins[n].state = s THEN before \cup {skins[n].limit} ELSE before
  BY LimitsGrow
<1>2. /\ HasFields(image) /\ Limiting(packager, before, image)
      /\ before # {} => Limits(packager, before, image)
  BY DEF LimitedUpTo
<1>3. before \subseteq Nat
  <2>1. \A i \in 1..(n - 1) : i \in 1..n
    OBVIOUS
  <2>. QED
    BY <2>1 DEF LimitsUpTo
<1> HIDE DEF before, after
<1>4. CASE s = skins[n].state
  <2> DEFINE limit == skins[n].limit
  <2>1. limit \in Nat /\ out = Output(packager, limit, image).image /\ after = before \cup {limit}
    BY <1>1, <1>4
  <2> HIDE DEF limit
  <2>2. HasFields(out) /\ Limits(packager, before \cup {limit}, out)
    <3>1. limit \in Nat /\ before \subseteq Nat
      BY <1>3, <2>1
    <3>2. HasFields(image) /\ Limiting(packager, before, image)
      BY <1>2
    <3>3. LimitsAs(packager, before \cup {limit}, image, Output(packager, limit, image).image)
      BY <3>1, <3>2, OutputImage
    <3>. QED
      BY <2>1, <3>3 DEF LimitsAs
  <2>3. HasFields(out) /\ Limits(packager, after, out)
    BY <2>1, <2>2
  <2>. QED
    BY <2>3 DEF LimitedUpTo, Limits, after
<1>5. CASE s # skins[n].state
  BY <1>1, <1>2, <1>5 DEF LimitedUpTo, before, after
<1>. QED
  BY <1>4, <1>5

LEMMA InlinedLimits ==
  ASSUME NEW packager, packager.max \in Nat, NEW r, IsCache(r),
         \A skin \in Range(r.skins) : skin.limit \in Nat,
         \A i \in DOMAIN r.images : HasFields(r.images[i]) /\ Limiting(packager, {}, r.images[i]),
         NEW d, d = InlineTextures(packager, r)
  PROVE  /\ IsCache(d) /\ d.skins = r.skins /\ d.proxies = r.proxies /\ Len(d.states) = Len(r.states)
         /\ d.result.states = r.result.states /\ d.result.proxies = r.result.proxies
         /\ \A s \in 1..Len(r.states) : d.states[s] = <<>> <=> r.states[s] = <<>>
         /\ \A s \in 1..Len(r.states) : r.states[s] # <<>> =>
              LimitedUpTo(packager, r.skins, Len(r.skins), s, FirstImage(d, s))
<1> DEFINE N == Len(r.skins)
           l == Len(r.states)
           f == CHOOSE g : g = [n \in 0..N |-> IF n = 0 THEN r ELSE InlineTexture(packager, g[n - 1], r.skins[n])]
<1>0. N \in Nat /\ DOMAIN r.skins = 1..N
  BY DEF IsCache
<1>1. \E g : InlinesTextures(packager, r, N, g)
  BY <1>0, InlineLoop
<1>2. InlinesTextures(packager, r, N, f)
  BY <1>1 DEF InlinesTextures
<1>3. d = f[N]
  BY DEF InlineTextures
<1> HIDE DEF f
<1>4. /\ f[0] = r
      /\ \A n \in 1..N : f[n] = InlineTexture(packager, f[n - 1], r.skins[n])
  <2>1. 0 \in 0..N /\ f[0] = IF 0 = 0 THEN r ELSE InlineTexture(packager, f[0 - 1], r.skins[0])
    BY <1>0, <1>2 DEF InlinesTextures
  <2>2. ASSUME NEW n \in 1..N PROVE f[n] = InlineTexture(packager, f[n - 1], r.skins[n])
    <3>1. n \in 0..N /\ n # 0
      BY <1>0
    <3>. QED
      BY <1>2, <3>1 DEF InlinesTextures
  <2>. QED
    BY <2>1, <2>2
<1>5. \A n \in 1..N : r.skins[n].state \in 1..l /\ r.skins[n].limit \in Nat
  BY <1>0 DEF IsCache, Range
<1> HIDE DEF l, N
<1> DEFINE Same(e) == /\ IsCache(e) /\ e.skins = r.skins /\ e.proxies = r.proxies /\ Len(e.states) = l
                      /\ e.result.states = r.result.states /\ e.result.proxies = r.result.proxies
                      /\ \A s \in 1..l : e.states[s] = <<>> <=> r.states[s] = <<>>
           UpTo(e, n) == \A s \in 1..l : r.states[s] # <<>> =>
                              LimitedUpTo(packager, r.skins, n, s, FirstImage(e, s))
           P == {n \in 0..N : Same(f[n]) /\ UpTo(f[n], n)}
<1>6. 0 \in P
  <2>1. Same(r)
    BY DEF l
  <2>2. ASSUME NEW s \in 1..l, r.states[s] # <<>>
        PROVE  LimitedUpTo(packager, r.skins, 0, s, FirstImage(r, s))
    <3>1. r.states[s][1] \in DOMAIN r.images
      BY <2>2, FirstOf DEF l
    <3>2. HasFields(FirstImage(r, s)) /\ Limiting(packager, {}, FirstImage(r, s))
      BY <3>1 DEF FirstImage
    <3>3. LimitsUpTo(r.skins, 0, s) = {}
      BY DEF LimitsUpTo
    <3>. QED
      BY <3>2, <3>3 DEF LimitedUpTo
  <2>3. UpTo(r, 0)
    BY <2>2
  <2> HIDE DEF Same, UpTo
  <2>. QED
    BY <1>0, <1>4, <2>1, <2>3
<1>7. ASSUME NEW n \in 1..N, n - 1 \in P PROVE n \in P
  <2> DEFINE e == f[n - 1]
             skin == r.skins[n]
             g == f[n]
  <2>1. Same(e) /\ UpTo(e, n - 1)
    BY <1>7
  <2>2. g = InlineTexture(packager, e, skin)
    BY <1>4
  <2>3. skin.state \in 1..Len(e.states) /\ Len(e.states) = l /\ IsCache(e)
    BY <2>1, <1>5
  <2> HIDE DEF e, g, skin
  <2>4. IsCache(g) /\ g.skins = e.skins /\ Len(g.states) = Len(e.states)
    BY <2>2, <2>3, InlineTextureIsCache
  <2>5. /\ g.proxies = e.proxies
        /\ g.result.states = e.result.states /\ g.result.proxies = e.result.proxies
        /\ \A s \in 1..Len(e.states) : g.states[s] = <<>> <=> e.states[s] = <<>>
        /\ \A s \in 1..Len(e.states) : e.states[s] # <<>> =>
             FirstImage(g, s) = IF s = skin.state THEN Output(packager, skin.limit, FirstImage(e, s)).image
                                ELSE FirstImage(e, s)
    <3>0. IsCache(e) /\ skin.state \in 1..Len(e.states)
      BY <2>3
    <3>1. InlineChange(packager, e, skin, g)
      BY <2>2, <3>0, InlineChanges
    <3>. QED
      BY <3>1 DEF InlineChange
  <2>6. Same(g)
    <3>1. \A s \in 1..l : g.states[s] = <<>> <=> r.states[s] = <<>>
      BY <2>1, <2>3, <2>5
    <3>. QED
      BY <2>1, <2>3, <2>4, <2>5, <3>1
  <2>7. ASSUME NEW s \in 1..l, r.states[s] # <<>>
        PROVE  LimitedUpTo(packager, r.skins, n, s, FirstImage(g, s))
    <3> DEFINE image == FirstImage(e, s)
               out == FirstImage(g, s)
    <3>1. e.states[s] # <<>> /\ LimitedUpTo(packager, r.skins, n - 1, s, image)
      BY <2>1, <2>7
    <3>2. out = IF s = skin.state THEN Output(packager, skin.limit, image).image ELSE image
      BY <2>3, <2>5, <3>1
    <3>3. n \in Nat \ {0} /\ \A i \in 1..n : r.skins[i].limit \in Nat
      <4>1. n \in Nat \ {0} /\ \A i \in 1..n : i \in 1..N
        BY <1>0
      <4>. QED
        BY <1>5, <4>1
    <3> HIDE DEF image, out
    <3>4. out = IF s = r.skins[n].state THEN Output(packager, r.skins[n].limit, image).image ELSE image
      BY <3>2 DEF skin
    <3>5. LimitedUpTo(packager, r.skins, n, s, out)
      BY <3>1, <3>3, <3>4, LimitOnce
    <3>. QED
      BY <3>5 DEF out
  <2>8. UpTo(g, n)
    BY <2>7
  <2>9. n \in 0..N
    BY <1>0
  <2> HIDE DEF Same, UpTo
  <2>. QED
    BY <2>6, <2>8, <2>9 DEF g
<1> HIDE DEF P
<1>8. 0..N \subseteq P
  BY <1>0, <1>6, <1>7, CountUp
<1>9. N \in P
  BY <1>0, <1>8
<1>10. Same(d) /\ UpTo(d, N)
  BY <1>3, <1>9 DEF P
<1>. QED
  BY <1>10 DEF N, l

LEMMA AllLimits ==
  ASSUME NEW skins, skins \in Seq(Range(skins)), NEW s
  PROVE  LimitsUpTo(skins, Len(skins), s) = {skin.limit : skin \in {k \in ToSet(skins) : k.state = s}}
<1>1. DOMAIN skins = 1..Len(skins)
  OBVIOUS
<1>. QED
  BY <1>1 DEF LimitsUpTo, ToSet

\* A first texture of the node is the first image of a state set that is shown.
ShowsTexture(d, t, s) ==
  /\ 1 \in DOMAIN d.states[s] /\ t.image = FirstImage(d, s) /\ t.name = FirstImage(d, s).path
  /\ t.limits = {skin.limit : skin \in {k \in ToSet(d.skins) : k.state = s}}

LEMMA NodeTexture ==
  ASSUME NEW packager, NEW ive, NEW d, NEW t \in NodeFile(packager, ive, d).textures, t.first
  PROVE  \E s \in d.result.states : ShowsTexture(d, t, s)
<1>1. NodeFile(packager, ive, d).textures
        = UNION {{Texture(d, state, unit) : unit \in DOMAIN d.states[state]} : state \in d.result.states}
  BY DEF NodeFile
<1>2. PICK s \in d.result.states : \E unit \in DOMAIN d.states[s] : t = Texture(d, s, unit)
  BY <1>1
<1>3. PICK unit \in DOMAIN d.states[s] : t = Texture(d, s, unit)
  BY <1>2
<1> DEFINE image == d.images[d.states[s][unit]]
           limits == {skin.limit : skin \in {k \in ToSet(d.skins) : k.state = s}}
<1>4. t = [name |-> image.path, image |-> image, first |-> unit = 1, limits |-> limits]
  BY <1>3 DEF Texture
<1> HIDE DEF image, limits
<1>5. t.image = image /\ t.name = image.path /\ t.limits = limits /\ (t.first <=> unit = 1)
  BY <1>4
<1>6. unit = 1
  BY <1>5
<1>7. image = FirstImage(d, s)
  BY <1>6 DEF image, FirstImage
<1>. QED
  BY <1>3, <1>5, <1>6, <1>7 DEF limits, ShowsTexture

\* A list in which each entry gives one element or none
GivesSome(ss, n, gs) ==
  /\ DOMAIN ss = 1..n /\ ss = [i \in DOMAIN ss |-> ss[i]]
  /\ \A i \in 1..n : ss[i] = <<>> \/ ss[i] = <<gs[i]>>
Gathers(list, ss, n, gs) ==
  /\ list \in Seq(Range(list))
  /\ \A x : x \in Range(list) <=> \E i \in 1..n : ss[i] # <<>> /\ x = gs[i]

LEMMA FlattenSome ==
  ASSUME NEW n \in Nat, NEW ss, NEW gs, GivesSome(ss, n, gs)
  PROVE  Gathers(FlattenSeq(ss), ss, n, gs)
<1> DEFINE A == {gs[i] : i \in 1..n}
           list == FlattenSeq(ss)
<1> USE DEF GivesSome
<1>1. \A i \in 1..n : ss[i] \in Seq(A)
  <2>1. ASSUME NEW i \in 1..n PROVE ss[i] \in Seq(A)
    <3>1. gs[i] \in A
      OBVIOUS
    <3> HIDE DEF A
    <3>2. <<>> \in Seq(A) /\ <<gs[i]>> \in Seq(A)
      BY <3>1
    <3>. QED
      BY <3>2
  <2>. QED
    BY <2>1
<1> HIDE DEF A
<1>2. ss \in Seq(Seq(A)) /\ Len(ss) = n
  <2>1. ss \in [1..n -> Seq(A)]
    BY <1>1
  <2>. QED
    BY <2>1, FunctionIsSeq
<1>3. \A x : x \in Range(list) <=> \E i \in 1..n : x \in Range(ss[i])
  BY <1>2, FlattenRange
<1>4. list \in Seq(Range(list))
  <2>1. list \in Seq(A)
    BY <1>2, FlattenIsSeq
  <2> HIDE DEF list
  <2>. QED
    BY <2>1, ListOf
<1> HIDE DEF list
<1>5. ASSUME NEW i \in 1..n, NEW x
      PROVE  x \in Range(ss[i]) <=> ss[i] # <<>> /\ x = gs[i]
  <2>1. CASE ss[i] = <<>>
    BY <2>1, EmptyQueue
  <2>2. CASE ss[i] = <<gs[i]>> /\ ss[i] # <<>>
    <3>1. Range(<<gs[i]>>) = {gs[i]}
      BY ListOfOne
    <3>. QED
      BY <2>2, <3>1
  <2>. QED
    BY <2>1, <2>2
<1>6. \A x : x \in Range(list) <=> \E i \in 1..n : ss[i] # <<>> /\ x = gs[i]
  BY <1>3, <1>5
<1>. QED
  BY <1>4, <1>6 DEF list, Gathers

LEMMA TexturesList ==
  ASSUME NEW packager, NEW r, IsCache(r)
  PROVE  /\ Textures(packager, r) \in Seq(Range(Textures(packager, r)))
         /\ \A f : f \in Range(Textures(packager, r)) <=>
              \E i \in 1..Len(r.skins) :
                r.states[r.skins[i].state] # <<>> /\ f = TextureFile(SkinOutput(packager, r, r.skins[i]))
<1> DEFINE n == Len(r.skins)
           gs == [i \in 1..n |-> TextureFile(SkinOutput(packager, r, r.skins[i]))]
           ss == [i \in DOMAIN r.skins |-> IF r.states[r.skins[i].state] = <<>> THEN <<>>
                                    ELSE <<TextureFile(SkinOutput(packager, r, r.skins[i]))>>]
<1>1. n \in Nat /\ DOMAIN r.skins = 1..n
  BY DEF IsCache
<1>2. Textures(packager, r) = FlattenSeq(ss)
  BY DEF Textures
<1>3. /\ DOMAIN ss = 1..n /\ ss = [i \in DOMAIN ss |-> ss[i]]
      /\ \A i \in 1..n : ss[i] = IF r.states[r.skins[i].state] = <<>> THEN <<>> ELSE <<gs[i]>>
  <2> HIDE DEF n
  <2>. QED
    BY <1>1
<1>30. \A i \in 1..n : gs[i] = TextureFile(SkinOutput(packager, r, r.skins[i]))
  OBVIOUS
<1>31. \A x : <<x>> # <<>>
  OBVIOUS
<1> HIDE DEF ss, gs, n
<1>4. \A i \in 1..n : ss[i] = <<>> \/ ss[i] = <<gs[i]>>
  BY <1>3
<1>5. \A i \in 1..n : ss[i] # <<>> <=> r.states[r.skins[i].state] # <<>>
  BY <1>3, <1>31
<1>6. /\ FlattenSeq(ss) \in Seq(Range(FlattenSeq(ss)))
      /\ \A x : x \in Range(FlattenSeq(ss)) <=> \E i \in 1..n : ss[i] # <<>> /\ x = gs[i]
  <2>1. GivesSome(ss, n, gs)
    BY <1>3, <1>4 DEF GivesSome
  <2>. QED
    BY <1>1, <2>1, FlattenSome DEF Gathers
<1>7. ASSUME NEW f
      PROVE  f \in Range(Textures(packager, r)) <=>
               \E i \in 1..n :
                 r.states[r.skins[i].state] # <<>> /\ f = TextureFile(SkinOutput(packager, r, r.skins[i]))
  BY <1>2, <1>5, <1>6, <1>30
<1>. QED
  BY <1>2, <1>6, <1>7 DEF n

LEMMA ModelsList ==
  ASSUME NEW r, r.proxies \in Seq(Range(r.proxies))
  PROVE  /\ Models(r) \in Seq(Range(Models(r)))
         /\ \A f : f \in Range(Models(r)) <=>
              \E p \in DOMAIN r.proxies :
                r.proxies[p].resource.uri \in DOMAIN ModelFiles /\ f = ModelFile(r.proxies[p].resource.uri)
<1> DEFINE n == Len(r.proxies)
           gs == [i \in 1..n |-> ModelFile(r.proxies[i].resource.uri)]
           ss == [p \in DOMAIN r.proxies |->
                    IF r.proxies[p].resource.uri \in DOMAIN ModelFiles
                    THEN <<ModelFile(r.proxies[p].resource.uri)>> ELSE <<>>]
<1>1. n \in Nat /\ DOMAIN r.proxies = 1..n
  OBVIOUS
<1>2. Models(r) = FlattenSeq(ss)
  BY DEF Models
<1>3. /\ DOMAIN ss = 1..n /\ ss = [i \in DOMAIN ss |-> ss[i]]
      /\ \A i \in 1..n : ss[i] = IF r.proxies[i].resource.uri \in DOMAIN ModelFiles THEN <<gs[i]>> ELSE <<>>
  <2> HIDE DEF n
  <2>. QED
    BY <1>1
<1>30. \A i \in 1..n : gs[i] = ModelFile(r.proxies[i].resource.uri)
  OBVIOUS
<1>31. \A x : <<x>> # <<>>
  OBVIOUS
<1> HIDE DEF ss, gs, n
<1>4. \A i \in 1..n : ss[i] = <<>> \/ ss[i] = <<gs[i]>>
  BY <1>3
<1>5. \A i \in 1..n : ss[i] # <<>> <=> r.proxies[i].resource.uri \in DOMAIN ModelFiles
  BY <1>3, <1>31
<1>6. /\ FlattenSeq(ss) \in Seq(Range(FlattenSeq(ss)))
      /\ \A x : x \in Range(FlattenSeq(ss)) <=> \E i \in 1..n : ss[i] # <<>> /\ x = gs[i]
  <2>1. GivesSome(ss, n, gs)
    BY <1>3, <1>4 DEF GivesSome
  <2>. QED
    BY <1>1, <2>1, FlattenSome DEF Gathers
<1>. QED
  BY <1>1, <1>2, <1>5, <1>6, <1>30

\* An output that was not yet attempted
IsOutput(f) ==
  /\ f = [kind |-> f.kind, open |-> FALSE, name |-> f.name, file |-> f.file]
  /\ f.kind \in {"texture", "model"}
  /\ f.file = [origin |-> f.file.origin, size |-> f.file.size, whole |-> TRUE]

LEMMA OutputsForm ==
  /\ \A out : IsOutput(TextureFile(out))
  /\ \A uri : IsOutput(ModelFile(uri))
<1>1. ASSUME NEW out PROVE IsOutput(TextureFile(out))
  BY DEF IsOutput, TextureFile
<1>2. ASSUME NEW uri PROVE IsOutput(ModelFile(uri))
  BY DEF IsOutput, ModelFile
<1>. QED
  BY <1>1, <1>2

-----------------------------------------------------------------------------
(***************************************************************************)
(* A node finds what is written for it.                                    *)
(***************************************************************************)
HasTexture(packager, given, t) ==
  IF packager.inline THEN t.image.size = WantedSize(packager, t)
  ELSE \E f \in Range(given) :
         f.name = t.name /\
         f.file = [origin |-> t.image.origin, size |-> WantedSize(packager, t), whole |-> TRUE]

HasModel(given, m) ==
  m.resource.uri \in DOMAIN ModelFiles =>
    \E f \in Range(given) :
      f.name = m.name /\
      f.file = [origin |-> Whole(m.resource.uri, 0), size |-> 0, whole |-> TRUE]

\* The same name is the same file.
Agree(given) == \A f, g \in Range(given) : f.name = g.name => f.file = g.file

LEMMA InlinedTexture ==
  ASSUME NEW packager, packager.max \in Nat, packager.inline, NEW ive, NEW c, IsGiven(c), NEW d,
         d = Packaged(packager, c), NEW t \in NodeFile(packager, ive, d).textures, t.first
  PROVE  t.image.size = WantedSize(packager, t)
<1> DEFINE r == rewriteResourceReferences(packager, c)
<1>1. d = InlineTextures(packager, r)
  BY DEF Packaged
<1>2. /\ IsCache(r) /\ r.states = c.states /\ r.skins = c.skins
      /\ r.result.states = c.result.states
      /\ DOMAIN r.images = DOMAIN c.images
      /\ \A i \in DOMAIN c.images : HasFields(r.images[i]) /\ Limiting(packager, {}, r.images[i])
  BY RewrittenForm DEF IsRewritten
<1> HIDE DEF r
<1>3. /\ \A skin \in Range(c.skins) : skin.limit \in Nat
      /\ c.result.states \subseteq 1..Len(c.states)
      /\ \A s \in c.result.states : c.states[s] # <<>> => \E skin \in Range(c.skins) : skin.state = s
      /\ c.skins \in Seq(Range(c.skins))
  BY DEF IsGiven, IsCache
<1>4. /\ d.skins = r.skins /\ d.result.states = r.result.states
      /\ \A s \in 1..Len(r.states) : d.states[s] = <<>> <=> r.states[s] = <<>>
      /\ \A s \in 1..Len(r.states) : r.states[s] # <<>> =>
           LimitedUpTo(packager, r.skins, Len(r.skins), s, FirstImage(d, s))
  BY <1>1, <1>2, <1>3, InlinedLimits
<1>5. PICK s \in d.result.states :
        /\ 1 \in DOMAIN d.states[s] /\ t.image = FirstImage(d, s)
        /\ t.limits = {skin.limit : skin \in {k \in ToSet(d.skins) : k.state = s}}
  BY NodeTexture DEF ShowsTexture
<1>6. s \in 1..Len(r.states) /\ s \in c.result.states
  BY <1>2, <1>3, <1>4, <1>5
<1>7. r.states[s] # <<>>
  <2>1. d.states[s] # <<>>
    BY <1>5
  <2>. QED
    BY <1>4, <1>6, <2>1
<1>8. LimitedUpTo(packager, r.skins, Len(r.skins), s, t.image)
  BY <1>4, <1>5, <1>6, <1>7
<1>9. LimitsUpTo(r.skins, Len(r.skins), s) = t.limits
  <2>1. r.skins \in Seq(Range(r.skins))
    BY <1>2, <1>3
  <2>. QED
    BY <1>4, <1>5, <2>1, AllLimits
<1>10. t.limits # {} /\ t.limits \subseteq Nat
  <2>1. ToSet(d.skins) = Range(c.skins)
    BY <1>2, <1>4 DEF ToSet, Range
  <2>2. PICK skin \in Range(c.skins) : skin.state = s
    BY <1>2, <1>3, <1>6, <1>7
  <2>. QED
    BY <1>3, <1>5, <2>1, <2>2
<1>11. Limits(packager, t.limits, t.image)
  BY <1>8, <1>9, <1>10 DEF LimitedUpTo
<1>. QED
  BY <1>10, <1>11, LimitedIsWanted

\* What is written for each skin of a state set that is shown
Writes(packager, limit, image, f, out) ==
  /\ f.name = image.path
  /\ f.file = [origin |-> image.origin, size |-> out.size, whole |-> TRUE]
  /\ out.origin = image.origin /\ out.pixel_format = image.pixel_format
  /\ Limits(packager, {limit}, out)

LEMMA WrittenTexture ==
  ASSUME NEW packager, packager.max \in Nat, NEW limit \in Nat,
         NEW image, HasFields(image), Limiting(packager, {}, image),
         IsWritten(packager, image.path), image.path.base # ""
  PROVE  \E out : Writes(packager, limit, image, TextureFile(Output(packager, limit, image)), out)
<1> DEFINE output == Output(packager, limit, image)
           out == output.image
<1>1. output.name = image.path
  BY OutputName
<1>2. out.origin = image.origin /\ out.pixel_format = image.pixel_format
      /\ Limits(packager, {limit}, out)
  <2>1. {} \subseteq Nat
    OBVIOUS
  <2>2. out = Output(packager, limit, image).image
    OBVIOUS
  <2> HIDE DEF out
  <2>3. LimitsAs(packager, {} \cup {limit}, image, out)
    BY <2>1, <2>2, OutputImage
  <2>4. {} \cup {limit} = {limit}
    OBVIOUS
  <2>. QED
    BY <2>3, <2>4 DEF LimitsAs
<1> DEFINE f == TextureFile(output)
<1> HIDE DEF output
<1>4. f.name = output.name /\ f.file = [origin |-> out.origin, size |-> out.size, whole |-> TRUE]
  BY DEF TextureFile
<1> HIDE DEF out, f
<1>5. Writes(packager, limit, image, f, out)
  BY <1>1, <1>2, <1>4 DEF Writes
<1>. QED
  BY <1>5 DEF f, output

LEMMA HasFirst == ASSUME NEW q, 1 \in DOMAIN q PROVE q # <<>>
  OBVIOUS
LEMMA SequenceDomain == ASSUME NEW q, q \in Seq(Range(q)) PROVE DOMAIN q = 1..Len(q)
  OBVIOUS

\* The limits of the skins that a state set wears
IsListOf(list, n, skins) == \A x : x \in skins <=> \E j \in 1..n : list[j] = x
LimitsOf(skins, s) == {skin.limit : skin \in {k \in skins : k.state = s}}
LimitsAt(list, n, s) == {list[j].limit : j \in {k \in 1..n : list[k].state = s}}

LEMMA LimitsWorn ==
  ASSUME NEW skins, NEW list, NEW n, NEW s, IsListOf(list, n, skins)
  PROVE  LimitsOf(skins, s) = LimitsAt(list, n, s)
  BY DEF IsListOf, LimitsOf, LimitsAt

LEMMA FiledTexture ==
  ASSUME NEW packager, packager.max \in Nat, ~packager.inline, NEW ive, NEW c, IsGiven(c), NEW d,
         d = Packaged(packager, c), NEW t \in NodeFile(packager, ive, d).textures, t.first,
         t.name.base # "",
         NEW given, Range(Textures(packager, rewriteResourceReferences(packager, c))) \subseteq Range(given),
         Agree(given)
  PROVE  HasTexture(packager, given, t)
<1> DEFINE r == rewriteResourceReferences(packager, c)
<1>1. d = r /\ Range(Textures(packager, r)) \subseteq Range(given)
  BY DEF Packaged
<1>2. /\ IsCache(r) /\ r.states = c.states /\ r.skins = c.skins
      /\ r.result.states = c.result.states
      /\ DOMAIN r.images = DOMAIN c.images
      /\ \A i \in DOMAIN c.images : HasFields(r.images[i]) /\ Limiting(packager, {}, r.images[i])
      /\ \A i \in Shown(c) : i \in DOMAIN c.images => IsWritten(packager, r.images[i].path)
  <2>1. IsRewritten(packager, c, r)
    BY RewrittenForm
  <2> HIDE DEF r
  <2>. QED
    BY <2>1 DEF IsRewritten
<1> HIDE DEF r
<1>3. /\ \A skin \in Range(c.skins) : skin.limit \in Nat
      /\ c.result.states \subseteq 1..Len(c.states)
      /\ \A s \in c.result.states : c.states[s] # <<>> => \E skin \in Range(c.skins) : skin.state = s
      /\ c.skins \in Seq(Range(c.skins))
  BY DEF IsGiven, IsCache
<1>a. PICK s \in d.result.states : ShowsTexture(d, t, s)
  BY NodeTexture
<1>4. /\ 1 \in DOMAIN d.states[s] /\ t.image = FirstImage(d, s) /\ t.name = FirstImage(d, s).path
      /\ t.limits = {skin.limit : skin \in {k \in ToSet(d.skins) : k.state = s}}
  BY <1>a DEF ShowsTexture
<1> DEFINE image == FirstImage(r, s)
           i == r.states[s][1]
<1>5. s \in 1..Len(r.states) /\ s \in c.result.states /\ r.states[s] # <<>>
  <2>1. s \in c.result.states
    BY <1>1, <1>2
  <2>2. s \in 1..Len(r.states)
    BY <1>2, <1>3, <2>1
  <2>3. r.states[s] # <<>>
    <3>1. 1 \in DOMAIN r.states[s]
      BY <1>1, <1>4
    <3>. QED
      BY <3>1, HasFirst
  <2>. QED
    BY <2>1, <2>2, <2>3
<1>6. i \in DOMAIN c.images /\ Head(r.states[s]) = i
  BY <1>2, <1>5, FirstOf
<1>7. i \in Shown(c)
  <2>1. i \in ToSet(c.states[s])
    BY <1>1, <1>2, <1>4 DEF ToSet
  <2>. QED
    BY <1>5, <2>1 DEF Shown
<1>8. /\ HasFields(image) /\ Limiting(packager, {}, image) /\ IsWritten(packager, image.path)
      /\ image = r.images[i] /\ t.image = image /\ t.name = image.path /\ image.path.base # ""
  <2>1. image = r.images[i] /\ t.image = image /\ t.name = image.path
    BY <1>1, <1>4 DEF FirstImage
  <2> HIDE DEF image
  <2>. QED
    BY <1>2, <1>6, <1>7, <2>1
<1> HIDE DEF image, i
<1> DEFINE J == {j \in 1..Len(c.skins) : c.skins[j].state = s}
           Wrote(j) == TextureFile(Output(packager, c.skins[j].limit, image))
<1>9. DOMAIN c.skins = 1..Len(c.skins)
  <2>1. c.skins \in Seq(Range(c.skins))
    BY <1>3
  <2> HIDE DEF J, Wrote
  <2>. QED
    BY <2>1, SequenceDomain
<1>10. t.limits = {c.skins[j].limit : j \in J}
  <2>1. t.limits = LimitsOf(ToSet(c.skins), s)
    BY <1>1, <1>2, <1>4 DEF LimitsOf
  <2>2. IsListOf(c.skins, Len(c.skins), ToSet(c.skins))
    BY <1>9 DEF ToSet, IsListOf
  <2>3. LimitsOf(ToSet(c.skins), s) = LimitsAt(c.skins, Len(c.skins), s)
    BY <2>2, LimitsWorn
  <2>. QED
    BY <2>1, <2>3 DEF LimitsAt
<1>11. ASSUME NEW j \in J
       PROVE  /\ Wrote(j) \in Range(given) /\ c.skins[j].limit \in Nat
              /\ \E out : Writes(packager, c.skins[j].limit, image, Wrote(j), out)
  <2>1. c.skins[j].limit \in Nat /\ c.skins[j].state = s /\ j \in 1..Len(c.skins)
    BY <1>3, <1>9 DEF Range
  <2>2. Wrote(j) \in Range(given)
    <3>1. SkinOutput(packager, r, r.skins[j]) = Output(packager, c.skins[j].limit, image)
      BY <1>2, <1>6, <1>8, <2>1 DEF SkinOutput
    <3>2. r.states[r.skins[j].state] # <<>> /\ j \in 1..Len(r.skins)
      BY <1>2, <1>5, <2>1
    <3>3. Wrote(j) = TextureFile(SkinOutput(packager, r, r.skins[j]))
      BY <3>1
    <3> HIDE DEF Wrote
    <3>4. Wrote(j) \in Range(Textures(packager, r))
      BY <1>2, <3>2, <3>3, TexturesList
    <3>. QED
      BY <1>1, <3>4
  <2>4. \E out : Writes(packager, c.skins[j].limit, image, Wrote(j), out)
    BY <1>8, <2>1, WrittenTexture
  <2>. QED
    BY <2>1, <2>2, <2>4
<1> HIDE DEF Wrote
<1>12. PICK k \in J : TRUE
  <2>1. PICK skin \in Range(c.skins) : skin.state = s
    BY <1>2, <1>3, <1>5
  <2>. QED
    BY <1>9, <2>1 DEF Range
<1>13. PICK out : Writes(packager, c.skins[k].limit, image, Wrote(k), out)
  BY <1>11
<1> USE DEF Writes
<1>14. ASSUME NEW j \in J, out.pixel_format \in Resizable, c.skins[j].limit # 0,
              c.skins[j].limit # packager.max
       PROVE  out.size <= c.skins[j].limit
  <2>1. PICK other : Writes(packager, c.skins[j].limit, image, Wrote(j), other)
    BY <1>11
  <2>2. Wrote(j).file = Wrote(k).file
    <3>1. Wrote(j) \in Range(given) /\ Wrote(k) \in Range(given)
      BY <1>11
    <3>2. Wrote(j).name = Wrote(k).name
      BY <1>13, <2>1
    <3>. QED
      BY <3>1, <3>2 DEF Agree
  <2>3. other.size = out.size
    <3>1. Wrote(j).file = [origin |-> image.origin, size |-> other.size, whole |-> TRUE]
      BY <2>1
    <3>2. Wrote(k).file = [origin |-> image.origin, size |-> out.size, whole |-> TRUE]
      BY <1>13
    <3>3. [origin |-> image.origin, size |-> other.size, whole |-> TRUE]
          = [origin |-> image.origin, size |-> out.size, whole |-> TRUE]
      BY <2>2, <3>1, <3>2
    <3>. QED
      BY <3>3
  <2>4. c.skins[j].limit \in Sizes(packager, {c.skins[j].limit}, other)
    BY <1>14 DEF Sizes
  <2>5. other.size <= c.skins[j].limit
    BY <1>13, <1>14, <2>1, <2>4 DEF Limits, Limiting
  <2>. QED
    BY <2>3, <2>5
<1> DEFINE limit == c.skins[k].limit
<1>15. limit \in t.limits /\ t.limits \subseteq Nat
  BY <1>10, <1>11
<1>16. Limits(packager, t.limits, out)
  <2>1. Limits(packager, {limit}, out)
    BY <1>13
  <2> HIDE DEF limit
  <2>2. /\ out.size \in Nat \ {0} /\ out.origin.size \in Nat \ {0}
        /\ out.pixel_format \notin Resizable => out.size = out.origin.size
        /\ out.pixel_format \in Resizable /\ packager.max # 0 => out.size <= packager.max
        /\ out.pixel_format \in Resizable =>
             /\ out.size \in Sizes(packager, {limit}, out)
             /\ \A size \in Sizes(packager, {limit}, out) : size # packager.max => out.size <= size
    BY <2>1 DEF Limits, Limiting
  <2>3. ASSUME out.pixel_format \in Resizable
        PROVE  out.size \in Sizes(packager, t.limits, out)
    BY <1>15, <2>2, <2>3 DEF Sizes
  <2>4. ASSUME out.pixel_format \in Resizable, NEW size \in Sizes(packager, t.limits, out), size # packager.max
        PROVE  out.size <= size
    <3>1. size # 0 /\ (size = out.origin.size \/ size \in t.limits)
      BY <2>4 DEF Sizes
    <3>2. CASE size = out.origin.size
      <4>1. size \in Sizes(packager, {limit}, out)
        BY <3>1, <3>2 DEF Sizes
      <4>. QED
        BY <2>2, <2>4, <4>1
    <3>3. CASE size \in t.limits
      <4>1. PICK j \in J : size = c.skins[j].limit
        BY <1>10, <3>3
      <4>. QED
        BY <1>14, <2>4, <3>1, <4>1
    <3>. QED
      BY <3>1, <3>2, <3>3
  <2>. QED
    BY <2>2, <2>3, <2>4 DEF Limits, Limiting
<1>17. WantedSize(packager, t) = out.size
  <2> DEFINE t2 == [image |-> out, limits |-> t.limits]
  <2>1. t2.image = out /\ t2.limits = t.limits
    OBVIOUS
  <2> HIDE DEF t2
  <2>2. WantedSize(packager, t2) = out.size
    <3>1. t2.limits \subseteq Nat /\ Limits(packager, t2.limits, t2.image)
      BY <1>15, <1>16, <2>1
    <3>2. WantedSize(packager, t2) = t2.image.size
      BY <3>1, LimitedIsWanted
    <3>. QED
      BY <2>1, <3>2
  <2>3. WantedSize(packager, t2) = WantedSize(packager, t)
    BY <1>8, <1>13, <2>1 DEF WantedSize
  <2>. QED
    BY <2>2, <2>3
<1>18. Wrote(k).name = t.name
       /\ Wrote(k).file = [origin |-> t.image.origin, size |-> WantedSize(packager, t), whole |-> TRUE]
  BY <1>8, <1>13, <1>17
<1>. QED
  BY <1>11, <1>18 DEF HasTexture

\* Proxies are the same, inlined or not, and all files are ones to write.
IsPackaged(packager, c, d, given) ==
  /\ d.proxies \in Seq(Range(d.proxies)) /\ DOMAIN d.proxies = DOMAIN c.proxies
  /\ d.result.proxies = c.result.proxies
  /\ \A p \in c.result.proxies :
       /\ p \in DOMAIN c.proxies
       /\ d.proxies[p].name = [NoName EXCEPT !.base = d.proxies[p].resource.uri]
  /\ given \in Seq(Range(given))
  /\ \A f \in Range(given) : IsOutput(f)
  /\ ~packager.inline => Range(Textures(packager, rewriteResourceReferences(packager, c))) \subseteq Range(given)
  /\ \A p \in DOMAIN d.proxies : d.proxies[p].resource.uri \in DOMAIN ModelFiles =>
       ModelFile(d.proxies[p].resource.uri) \in Range(given)
  /\ c.skins = <<>> /\ c.proxies = <<>> => Range(given) = {}

\* What packaging makes of a cache, and the files it lists
LEMMA PackagedForm ==
  ASSUME NEW packager, packager.max \in Nat, NEW c, IsGiven(c)
  PROVE  IsPackaged(packager, c, Packaged(packager, c), packageResources(packager, c))
<1> DEFINE r == rewriteResourceReferences(packager, c)
           d == Packaged(packager, c)
           given == packageResources(packager, c)
           textures == IF packager.inline THEN <<>> ELSE Textures(packager, r)
<1>1. d = IF packager.inline THEN InlineTextures(packager, r) ELSE r
  BY DEF Packaged
<1>2. given = textures \o Models(d)
  BY DEF packageResources
<1>3. IsRewritten(packager, c, r)
  BY RewrittenForm
<1>4. textures = IF packager.inline THEN <<>> ELSE Textures(packager, r)
  OBVIOUS
<1> HIDE DEF r, d, given, textures
<1>5. /\ IsCache(r) /\ r.states = c.states /\ r.skins = c.skins
      /\ r.result.states = c.result.states /\ r.result.proxies = c.result.proxies
      /\ DOMAIN r.images = DOMAIN c.images
      /\ \A i \in DOMAIN c.images : HasFields(r.images[i]) /\ Limiting(packager, {}, r.images[i])
      /\ r.proxies \in Seq(Range(r.proxies)) /\ DOMAIN r.proxies = DOMAIN c.proxies
      /\ \A p \in DOMAIN c.proxies : r.proxies[p].resource = c.proxies[p].resource
      /\ \A p \in c.result.proxies : r.proxies[p].name = [NoName EXCEPT !.base = r.proxies[p].resource.uri]
  BY <1>3 DEF IsRewritten
<1>6. /\ \A skin \in Range(c.skins) : skin.limit \in Nat
      /\ c.result.proxies \subseteq 1..Len(c.proxies) /\ c.proxies \in Seq(Range(c.proxies))
  BY DEF IsGiven
<1>7. d.proxies = r.proxies /\ d.result.proxies = r.result.proxies
  <2>1. CASE packager.inline
    BY <1>1, <1>5, <1>6, <2>1, InlinedLimits
  <2>2. CASE ~packager.inline
    BY <1>1, <2>2
  <2>. QED
    BY <2>1, <2>2
<1>8. DOMAIN c.proxies = 1..Len(c.proxies)
  BY <1>6, SequenceDomain
<1>9. /\ textures \in Seq(Range(textures))
      /\ \A f \in Range(textures) : \E out : f = TextureFile(out)
      /\ c.skins = <<>> => Range(textures) = {}
  <2>1. CASE packager.inline
    <3>1. textures = <<>> /\ Range(<<>>) = {} /\ <<>> \in Seq({})
      BY <1>4, <2>1, EmptyQueue
    <3>. QED
      BY <3>1
  <2>2. CASE ~packager.inline
    <3>1. textures = Textures(packager, r)
      BY <1>4, <2>2
    <3>2. /\ textures \in Seq(Range(textures))
          /\ \A f : f \in Range(textures) <=>
               \E i \in 1..Len(r.skins) :
                 r.states[r.skins[i].state] # <<>> /\ f = TextureFile(SkinOutput(packager, r, r.skins[i]))
      <4>1. IsCache(r)
        BY <1>5
      <4>. QED
        BY <3>1, <4>1, TexturesList
    <3>3. c.skins = <<>> => Len(r.skins) = 0
      BY <1>5
    <3>4. c.skins = <<>> => \A i \in 1..Len(r.skins) : FALSE
      BY <3>3
    <3>. QED
      BY <3>2, <3>4
  <2>. QED
    BY <2>1, <2>2
<1>10. /\ Models(d) \in Seq(Range(Models(d)))
       /\ \A f : f \in Range(Models(d)) <=>
            \E p \in DOMAIN d.proxies :
              d.proxies[p].resource.uri \in DOMAIN ModelFiles /\ f = ModelFile(d.proxies[p].resource.uri)
  BY <1>5, <1>7, ModelsList
<1>11. given \in Seq(Range(given)) /\ Range(given) = Range(textures) \cup Range(Models(d))
  BY <1>2, <1>9, <1>10, ListConcat
<1>12. ASSUME NEW f \in Range(given) PROVE IsOutput(f)
  <2>1. CASE f \in Range(textures)
    BY <1>9, <2>1, OutputsForm
  <2>2. CASE f \in Range(Models(d))
    BY <1>10, <2>2, OutputsForm
  <2>. QED
    BY <1>11, <2>1, <2>2
<1>13. c.skins = <<>> /\ c.proxies = <<>> => Range(given) = {}
  <2>1. c.proxies = <<>> => DOMAIN d.proxies = {}
    BY <1>5, <1>7
  <2>. QED
    BY <1>9, <1>10, <1>11, <2>1
<1>14. \A p \in c.result.proxies :
         /\ p \in DOMAIN c.proxies
         /\ d.proxies[p].name = [NoName EXCEPT !.base = d.proxies[p].resource.uri]
  BY <1>5, <1>6, <1>7, <1>8
<1>15. d.proxies \in Seq(Range(d.proxies)) /\ DOMAIN d.proxies = DOMAIN c.proxies
       /\ d.result.proxies = c.result.proxies
  BY <1>5, <1>7
<1>16. ~packager.inline => Range(Textures(packager, r)) \subseteq Range(given)
  BY <1>4, <1>11
<1>17. \A p \in DOMAIN d.proxies : d.proxies[p].resource.uri \in DOMAIN ModelFiles =>
         ModelFile(d.proxies[p].resource.uri) \in Range(given)
  BY <1>10, <1>11
<1>18. IsPackaged(packager, c, d, given)
  BY <1>11, <1>12, <1>13, <1>14, <1>15, <1>16, <1>17 DEF IsPackaged, r
<1>. QED
  BY <1>18 DEF d, given

\* All that the file of a cell shows is among the files that are written for the cell.
NodeFound(packager, node, given) ==
  /\ \A t \in node.textures : t.first /\ t.name.base # "" => HasTexture(packager, given, t)
  /\ \A m \in node.models : HasModel(given, m)

\* The packager lists a file for all that the node refers to.
LEMMA NodeHasFiles ==
  ASSUME NEW packager, packager.max \in Nat, NEW ive, NEW c, IsGiven(c),
         Agree(packageResources(packager, c))
  PROVE  NodeFound(packager, NodeFile(packager, ive, Packaged(packager, c)), packageResources(packager, c))
<1> DEFINE d == Packaged(packager, c)
           given == packageResources(packager, c)
           node == NodeFile(packager, ive, d)
<1>1. IsPackaged(packager, c, d, given)
  BY PackagedForm
<1>2. node.models = {d.proxies[p] : p \in d.result.proxies}
  BY DEF NodeFile
<1>3. d = Packaged(packager, c) /\ node = NodeFile(packager, ive, d) /\ Agree(given)
  OBVIOUS
<1> HIDE DEF d, given, node
<1>4. ASSUME NEW t \in node.textures, t.first, t.name.base # ""
      PROVE  HasTexture(packager, given, t)
  <2>1. t \in NodeFile(packager, ive, d).textures
    BY <1>3
  <2>2. CASE packager.inline
    <3>1. t.image.size = WantedSize(packager, t)
      BY <1>3, <1>4, <2>1, <2>2, InlinedTexture
    <3>. QED
      BY <2>2, <3>1 DEF HasTexture
  <2>3. CASE ~packager.inline
    <3>1. Range(Textures(packager, rewriteResourceReferences(packager, c))) \subseteq Range(given)
      BY <1>1, <2>3 DEF IsPackaged
    <3>. QED
      BY <1>3, <1>4, <2>1, <2>3, <3>1, FiledTexture
  <2>. QED
    BY <2>2, <2>3
<1>5. ASSUME NEW m \in node.models PROVE HasModel(given, m)
  <2>1. PICK p \in d.result.proxies : m = d.proxies[p]
    BY <1>2
  <2>2. /\ p \in DOMAIN d.proxies
        /\ d.proxies[p].name = [NoName EXCEPT !.base = d.proxies[p].resource.uri]
        /\ d.proxies[p].resource.uri \in DOMAIN ModelFiles =>
             ModelFile(d.proxies[p].resource.uri) \in Range(given)
    BY <1>1 DEF IsPackaged
  <2> DEFINE uri == m.resource.uri
             f == ModelFile(uri)
  <2>3. f.name = [NoName EXCEPT !.base = uri] /\ f.file = [origin |-> Whole(uri, 0), size |-> 0, whole |-> TRUE]
    BY DEF ModelFile
  <2> HIDE DEF f
  <2>4. m.name = f.name /\ (uri \in DOMAIN ModelFiles => f \in Range(given))
    BY <2>1, <2>2, <2>3 DEF f
  <2>. QED
    BY <2>3, <2>4 DEF HasModel
<1>6. NodeFound(packager, node, given)
  BY <1>4, <1>5 DEF NodeFound
<1>. QED
  BY <1>6 DEF d, given, node

-----------------------------------------------------------------------------
(***************************************************************************)
(* The files of the cells.                                                 *)
(***************************************************************************)
LastCache(l, c) == CachesOf(l, c)[Len(l.uses[c])]
CellFiles(l, c) == Range(FilesOf(l, c))
CellNode(l, c) == NodeFile(l.packager[c], l.ive, Packaged(l.packager[c], LastCache(l, c)))

CellIsApart(l, c) ==
  /\ Len(l.uses[c]) \in Nat /\ CachesOf(l, c)[0] = EmptyCache
  /\ FilesOf(l, c) \in Seq(Range(FilesOf(l, c)))
  /\ \A f \in CellFiles(l, c) : IsOutput(f)
  /\ NodeFound(l.packager[c], CellNode(l, c), FilesOf(l, c))
  /\ CellNode(l, c).exists
  /\ l.uses[c] = <<>> => CellFiles(l, c) = {}
  /\ \A d \in Cells : \A f \in CellFiles(l, c) : \A g \in CellFiles(l, d) : f.name = g.name => f.file = g.file

\* What the proof needs to know of one cell of such a layer
LEMMA CellsAreApart ==
  ASSUME NEW l \in Layers, Apart(l), NEW c \in Cells
  PROVE  CellIsApart(l, c)
<1> DEFINE packager == l.packager[c]
           last == LastCache(l, c)
           N == Len(l.uses[c])
<1>1. N \in Nat /\ packager.max \in Nat /\ l.uses[c] \in Seq(Range(l.uses[c]))
  BY CachesGiven, LayerAssumption
<1>2. IsGiven(last) /\ CachesOf(l, c)[0] = EmptyCache
  <2>1. N \in 0..N
    BY <1>1
  <2>. QED
    BY <1>1, <2>1, CachesGiven, CachesForm DEF LastCache
<1>3. FilesOf(l, c) = packageResources(packager, last) /\ CellNode(l, c) = NodeFile(packager, l.ive, Packaged(packager, last))
  BY DEF FilesOf, CellNode, LastCache
<1>4. N = 0 => last = EmptyCache
  BY <1>2 DEF LastCache
<1> HIDE DEF packager, last
<1>5. IsPackaged(packager, last, Packaged(packager, last), packageResources(packager, last))
  BY <1>1, <1>2, PackagedForm
<1>6. /\ FilesOf(l, c) \in Seq(Range(FilesOf(l, c)))
      /\ \A f \in CellFiles(l, c) : IsOutput(f)
      /\ last.skins = <<>> /\ last.proxies = <<>> => CellFiles(l, c) = {}
  BY <1>3, <1>5 DEF IsPackaged, CellFiles
<1>7. \A d \in Cells : \A f \in CellFiles(l, c) : \A g \in CellFiles(l, d) : f.name = g.name => f.file = g.file
  BY DEF Apart, CellFiles, ToSet, Range
<1>8. NodeFound(packager, CellNode(l, c), FilesOf(l, c))
  <2>1. Agree(packageResources(packager, last))
    BY <1>3, <1>7 DEF Agree, CellFiles
  <2>. QED
    BY <1>1, <1>2, <1>3, <2>1, NodeHasFiles
<1>9. CellNode(l, c).exists
  BY <1>3 DEF NodeFile
<1>10. l.uses[c] = <<>> => CellFiles(l, c) = {}
  <2>1. l.uses[c] = <<>> => N = 0
    OBVIOUS
  <2>2. EmptyCache.skins = <<>> /\ EmptyCache.proxies = <<>>
    BY DEF EmptyCache
  <2>. QED
    BY <1>4, <1>6, <2>1, <2>2
<1>. QED
  BY <1>1, <1>2, <1>6, <1>7, <1>8, <1>9, <1>10 DEF CellIsApart, packager

\* What is to be written for a cell: its files, then its node
IsFileOf(l, c, p) ==
  /\ p = [kind |-> p.kind, open |-> p.open, name |-> p.name, file |-> p.file] /\ p.kind # "node"
  /\ \E f \in CellFiles(l, c) : f.name = p.name /\ f.file = p.file
IsNodeOf(l, c, p) == p = [kind |-> "node", open |-> p.open, file |-> CellNode(l, c)]

PendingOf(l, c, s) ==
  /\ s \in Seq(Range(s))
  /\ \A i \in 1..Len(s) : IF i = Len(s) THEN IsNodeOf(l, c, s[i]) ELSE IsFileOf(l, c, s[i])

Names(s) == {s[i].name : i \in 1..(Len(s) - 1)}

LEMMA NoPending ==
  ASSUME NEW l, NEW c PROVE PendingOf(l, c, <<>>) /\ Names(<<>>) = {}
<1>1. <<>> \in Seq({}) /\ Range(<<>>) = {} /\ Len(<<>>) = 0 /\ 1..0 = {} /\ 1..(0 - 1) = {}
  BY EmptyQueue
<1>. QED
  BY <1>1 DEF PendingOf, Names

LEMMA ConcatAt ==
  ASSUME NEW s, s \in Seq(Range(s)), NEW t, t \in Seq(Range(t))
  PROVE  /\ \A i \in 1..Len(s) : (s \o t)[i] = s[i]
         /\ \A i \in 1..Len(t) : (s \o t)[Len(s) + i] = t[i]
<1> DEFINE S == Range(s) \cup Range(t)
<1>1. Range(s) \subseteq S /\ Range(t) \subseteq S
  OBVIOUS
<1> HIDE DEF S
<1>2. s \in Seq(S) /\ t \in Seq(S)
  BY <1>1, SeqOfElements
<1>3. /\ s \o t \in Seq(S)
      /\ Len(s \o t) = Len(s) + Len(t) /\ Len(s) \in Nat /\ Len(t) \in Nat
  BY <1>2
<1>4. /\ \A i \in 1..Len(s) : (s \o t)[i] = s[i]
      /\ \A i \in 1..Len(t) : (s \o t)[Len(s) + i] = t[i]
  BY <1>2, <1>3
<1>. QED
  BY <1>4

LEMMA PendingStarts ==
  ASSUME NEW l, NEW c, CellIsApart(l, c), NEW node, IsNodeOf(l, c, node),
         NEW s, s = Outputs(FilesOf(l, c), node)
  PROVE  PendingOf(l, c, s) /\ Names(s) = {f.name : f \in CellFiles(l, c)}
<1> DEFINE given == FilesOf(l, c)
           n == Len(given)
<1>1. given \in Seq(Range(given)) /\ CellFiles(l, c) = Range(given) /\ \A f \in Range(given) : IsOutput(f)
  BY DEF CellIsApart, CellFiles
<1>2. s = given \o <<node>>
  BY DEF Outputs
<1> HIDE DEF given
<1> DEFINE one == <<node>>
<1>3. one \in Seq(Range(one)) /\ Len(one) = 1 /\ one[1] = node
  BY ListOfOne
<1> HIDE DEF one
<1>4. s \in Seq(Range(s)) /\ Len(s) = n + 1 /\ n \in Nat
  <2>1. s = given \o one
    BY <1>2 DEF one
  <2>. QED
    <3>1. /\ given \o one \in Seq(Range(given \o one))
          /\ Len(given \o one) = Len(given) + Len(one) /\ Len(given) \in Nat
      BY <1>1, <1>3, ListConcat
    <3>. QED
      BY <1>3, <2>1, <3>1 DEF n
<1>5. s[n + 1] = node /\ \A i \in 1..n : s[i] = given[i]
  <2>1. s = given \o one
    BY <1>2 DEF one
  <2>. QED
    <3>1. /\ \A i \in 1..Len(given) : (given \o one)[i] = given[i]
          /\ \A i \in 1..Len(one) : (given \o one)[Len(given) + i] = one[i]
      <4>1. one \in Seq(Range(one)) /\ given \in Seq(Range(given))
        BY <1>1, <1>3
      <4>. QED
        BY <4>1, ConcatAt
    <3>2. 1 \in 1..Len(one)
      BY <1>3
    <3>. QED
      BY <1>3, <2>1, <3>1, <3>2 DEF n
<1>6. DOMAIN given = 1..n
  BY <1>1
<1>7. ASSUME NEW i \in 1..n PROVE IsFileOf(l, c, s[i])
  <2>1. s[i] \in Range(given)
    BY <1>5, <1>6 DEF Range
  <2>2. IsOutput(s[i])
    BY <1>1, <2>1
  <2> DEFINE f == s[i]
  <2>3. f \in CellFiles(l, c) /\ IsOutput(f)
    BY <1>1, <2>1, <2>2
  <2> HIDE DEF f
  <2>4. f = [kind |-> f.kind, open |-> f.open, name |-> f.name, file |-> f.file] /\ f.kind # "node"
    <3>1. f = [kind |-> f.kind, open |-> FALSE, name |-> f.name, file |-> f.file] /\ f.kind \in {"texture", "model"}
      BY <2>3 DEF IsOutput
    <3>2. f.open = FALSE
      BY <3>1
    <3>. QED
      BY <3>1, <3>2
  <2>5. IsFileOf(l, c, f)
    BY <2>3, <2>4 DEF IsFileOf
  <2>. QED
    BY <2>5 DEF f
<1> HIDE DEF n
<1>8. PendingOf(l, c, s)
  <2>1. ASSUME NEW i \in 1..Len(s)
        PROVE  IF i = Len(s) THEN IsNodeOf(l, c, s[i]) ELSE IsFileOf(l, c, s[i])
    <3>1. i = n + 1 \/ i \in 1..n
      BY <1>4
    <3>2. n + 1 # i => i # Len(s)
      BY <1>4
    <3>. QED
      BY <1>4, <1>5, <1>7, <3>1, <3>2
  <2>. QED
    BY <1>4, <2>1 DEF PendingOf
<1>9. Names(s) = {f.name : f \in Range(given)}
  <2>1. Len(s) - 1 = n
    BY <1>4
  <2>2. Range(given) = {given[i] : i \in 1..n}
    BY <1>6 DEF Range
  <2>3. Names(s) = {given[i].name : i \in 1..n}
    BY <1>5, <2>1 DEF Names
  <2>. QED
    BY <2>2, <2>3
<1>. QED
  BY <1>1, <1>8, <1>9

LEMMA NodeOpens ==
  ASSUME NEW p, NEW k, NEW o, NEW f, p = [kind |-> k, open |-> o, file |-> f], NEW v
  PROVE  [p EXCEPT !.open = v] = [kind |-> k, open |-> v, file |-> f]
  OBVIOUS
LEMMA FileOpens ==
  ASSUME NEW p, NEW k, NEW o, NEW n, NEW f, p = [kind |-> k, open |-> o, name |-> n, file |-> f], NEW v
  PROVE  [p EXCEPT !.open = v] = [kind |-> k, open |-> v, name |-> n, file |-> f]
  OBVIOUS
LEMMA HeadReplaced ==
  ASSUME NEW R, NEW s \in Seq(R), Len(s) # 0, NEW head \in R
  PROVE  /\ [s EXCEPT ![1] = head] \in Seq(R) /\ Len([s EXCEPT ![1] = head]) = Len(s)
         /\ [s EXCEPT ![1] = head][1] = head
         /\ \A i \in 1..Len(s) : i # 1 => [s EXCEPT ![1] = head][i] = s[i]
  OBVIOUS

Opened(s, v) == [s EXCEPT ![1].open = v]

LEMMA PendingOpens ==
  ASSUME NEW l, NEW c, NEW s, PendingOf(l, c, s), s # <<>>,
         NEW v, NEW t, t = Opened(s, v)
  PROVE  PendingOf(l, c, t) /\ Names(t) = Names(s)
<1> DEFINE S == Range(s)
           head == [s[1] EXCEPT !.open = v]
           n == Len(s)
<1>1. s \in Seq(S) /\ n \in Nat \ {0} /\ DOMAIN s = 1..n
  BY DEF PendingOf
<1>2. \A i \in 1..n : IF i = n THEN IsNodeOf(l, c, s[i]) ELSE IsFileOf(l, c, s[i])
  BY DEF PendingOf
<1>3. t = [s EXCEPT ![1] = head]
  BY DEF Opened
<1>4. s[1] \in S
  BY <1>1 DEF Range
<1>5. n = 1 => IsNodeOf(l, c, head)
  <2>1. n = 1 => s[1] = [kind |-> "node", open |-> s[1].open, file |-> CellNode(l, c)]
    BY <1>1, <1>2 DEF IsNodeOf
  <2>2. n = 1 => head = [kind |-> "node", open |-> v, file |-> CellNode(l, c)]
    BY <2>1, NodeOpens
  <2> HIDE DEF head
  <2>3. n = 1 => head.open = v
    BY <2>2
  <2>. QED
    BY <2>2, <2>3 DEF IsNodeOf
<1>6. n # 1 => IsFileOf(l, c, head) /\ head.name = s[1].name
  <2>1. n # 1 => /\ s[1] = [kind |-> s[1].kind, open |-> s[1].open, name |-> s[1].name, file |-> s[1].file]
                 /\ s[1].kind # "node" /\ \E f \in CellFiles(l, c) : f.name = s[1].name /\ f.file = s[1].file
    <3> HIDE DEF head, n
    <3>1. n # 1 => IsFileOf(l, c, s[1])
      BY <1>1, <1>2
    <3>. QED
      BY <3>1, Zenon DEF IsFileOf
  <2>2. n # 1 => head = [kind |-> s[1].kind, open |-> v, name |-> s[1].name, file |-> s[1].file]
    BY <2>1, FileOpens
  <2> HIDE DEF head
  <2>3. n # 1 => head.kind = s[1].kind /\ head.open = v /\ head.name = s[1].name /\ head.file = s[1].file
    BY <2>2
  <2>. QED
    BY <2>1, <2>2, <2>3 DEF IsFileOf
<1> HIDE DEF head
<1> DEFINE R == S \cup {head}
<1>7. s \in Seq(R) /\ head \in R
  <2>1. S \subseteq R /\ head \in R
    OBVIOUS
  <2> HIDE DEF R
  <2>. QED
    BY <1>1, <2>1, SeqOfElements
<1>0. Len(s) = n
  OBVIOUS
<1> HIDE DEF S, R, n
<1>8. t \in Seq(R) /\ Len(t) = n /\ t[1] = head /\ \A i \in 1..n : i # 1 => t[i] = s[i]
  <2>1. Len(s) # 0
    BY <1>0, <1>1
  <2>. QED
    BY <1>0, <1>3, <1>7, <2>1, HeadReplaced
<1>9. t \in Seq(Range(t))
  BY <1>8, ListOf
<1>10. ASSUME NEW i \in 1..n
       PROVE  IF i = n THEN IsNodeOf(l, c, t[i]) ELSE IsFileOf(l, c, t[i])
  <2>1. CASE i = 1
    BY <1>5, <1>6, <1>8, <2>1
  <2>2. CASE i # 1
    BY <1>2, <1>8, <2>2
  <2>. QED
    BY <2>1, <2>2
<1>11. PendingOf(l, c, t)
  BY <1>8, <1>9, <1>10 DEF PendingOf
<1>12. \A i \in 1..(n - 1) : t[i].name = s[i].name
  <2> SUFFICES ASSUME NEW i \in 1..(n - 1) PROVE t[i].name = s[i].name
    OBVIOUS
  <2>1. i \in 1..n /\ n # 1
    BY <1>1
  <2>. QED
    BY <1>6, <1>8, <2>1
<1>13. Names(t) = Names(s)
  BY <1>8, <1>12 DEF Names, n
<1>. QED
  BY <1>11, <1>13

\* The node comes last, and what is before it goes one by one.
Goes(l, c, s) ==
  /\ PendingOf(l, c, Tail(s))
  /\ Head(s).kind = "node" => IsNodeOf(l, c, Head(s)) /\ Tail(s) = <<>> /\ Names(s) = {}
  /\ Head(s).kind # "node" => IsFileOf(l, c, Head(s)) /\ Names(s) = {Head(s).name} \cup Names(Tail(s))

LEMMA PendingGoes ==
  ASSUME NEW l, NEW c, NEW s, PendingOf(l, c, s), s # <<>>
  PROVE  Goes(l, c, s)
<1> DEFINE S == Range(s)
           t == Tail(s)
           n == Len(s)
<1>1. s \in Seq(S) /\ n \in Nat \ {0} /\ Head(s) = s[1] /\ DOMAIN s = 1..n
  BY DEF PendingOf
<1>2. \A i \in 1..n : IF i = n THEN IsNodeOf(l, c, s[i]) ELSE IsFileOf(l, c, s[i])
  BY DEF PendingOf
<1> HIDE DEF S
<1>3. t \in Seq(S) /\ Len(t) = n - 1 /\ \A i \in 1..(n - 1) : t[i] = s[i + 1]
  BY <1>1
<1>4. t \in Seq(Range(t))
  BY <1>3, ListOf
<1> HIDE DEF t, n
<1>5. PendingOf(l, c, t)
  <2>1. ASSUME NEW i \in 1..Len(t)
        PROVE  IF i = Len(t) THEN IsNodeOf(l, c, t[i]) ELSE IsFileOf(l, c, t[i])
    <3>1. i + 1 \in 1..n /\ t[i] = s[i + 1] /\ (i + 1 = n <=> i = Len(t))
      BY <1>1, <1>3
    <3>. QED
      BY <1>2, <3>1
  <2>. QED
    BY <1>4, <2>1 DEF PendingOf
<1>6. n = 1 => IsNodeOf(l, c, s[1]) /\ s[1].kind = "node" /\ t = <<>> /\ Names(s) = {}
  <2> SUFFICES ASSUME n = 1 PROVE IsNodeOf(l, c, s[1]) /\ s[1].kind = "node" /\ t = <<>> /\ Names(s) = {}
    OBVIOUS
  <2>1. IsNodeOf(l, c, s[1])
    BY <1>1, <1>2
  <2>2. s[1].kind = "node"
    <3> DEFINE p == s[1]
    <3>1. IsNodeOf(l, c, p)
      BY <2>1
    <3> HIDE DEF p
    <3>2. p.kind = "node"
      BY <3>1 DEF IsNodeOf
    <3>. QED
      BY <3>2 DEF p
  <2>3. t = <<>>
    BY <1>3
  <2>4. Names(s) = {}
    <3>1. 1..(Len(s) - 1) = {}
      BY DEF n
    <3>. QED
      BY <3>1 DEF Names
  <2>. QED
    BY <2>1, <2>2, <2>3, <2>4
<1>7. n # 1 => IsFileOf(l, c, s[1]) /\ s[1].kind # "node"
  BY <1>1, <1>2 DEF IsFileOf
<1>8. n # 1 => Names(s) = {s[1].name} \cup Names(t)
  <2> SUFFICES ASSUME n # 1 PROVE Names(s) = {s[1].name} \cup Names(t)
    OBVIOUS
  <2>1. Names(s) = {s[i].name : i \in 1..(n - 1)}
    BY DEF Names, n
  <2>2. Names(t) = {s[i + 1].name : i \in 1..(n - 2)}
    <3>1. Len(t) - 1 = n - 2 /\ \A i \in 1..(n - 2) : t[i] = s[i + 1]
      BY <1>1, <1>3
    <3>. QED
      BY <3>1 DEF Names
  <2>3. ASSUME NEW i \in 1..(n - 1) PROVE i = 1 \/ (i - 1 \in 1..(n - 2) /\ i = (i - 1) + 1)
    BY <1>1
  <2>4. ASSUME NEW i \in 1..(n - 2) PROVE i + 1 \in 1..(n - 1)
    BY <1>1
  <2>5. 1 \in 1..(n - 1)
    BY <1>1
  <2>6. Names(s) \subseteq {s[1].name} \cup Names(t)
    <3> SUFFICES ASSUME NEW i \in 1..(n - 1) PROVE s[i].name \in {s[1].name} \cup Names(t)
      BY <2>1
    <3>1. CASE i = 1
      BY <3>1
    <3>2. CASE i # 1
      <4>1. s[(i - 1) + 1].name \in Names(t)
        BY <2>2, <2>3, <3>2
      <4>. QED
        BY <2>3, <3>2, <4>1
    <3>. QED
      BY <3>1, <3>2
  <2>. QED
    BY <2>1, <2>2, <2>4, <2>5, <2>6
<1>. QED
  BY <1>1, <1>5, <1>6, <1>7, <1>8 DEF Goes, t

-----------------------------------------------------------------------------
(***************************************************************************)
(* What is on disk.                                                        *)
(***************************************************************************)
SessionInv == session = [resources |-> ProjectSession.resources, used |-> session.used]

StatusInv ==
  /\ status # "building" => \A c \in Cells : phase[c] \in {"waiting", "done"}
  /\ status = "finished" => \A c \in Cells : phase[c] = "done"

\* Each cell's cache is what its uses so far make of it.
CompileInv(c) ==
  /\ phase[c] = "waiting" => cache[c] = EmptyCache /\ at[c] = 1
  /\ phase[c] = "compiling" =>
       at[c] \in 1..(Len(Uses(c)) + 1) /\ cache[c] = CachesOf(layer, c)[at[c] - 1]
  /\ phase[c] = "compiled" => cache[c] = LastCache(layer, c)

\* A cell that is compiled has no file yet.
NodeInv(c) ==
  /\ nodes[c] \in {NoNode, Torn, CellNode(layer, c)}
  /\ phase[c] \in {"compiling", "compiled"} => ~nodes[c].exists
  /\ phase[c] = "waiting" /\ layer.archived /\ status = "building" => ~nodes[c].exists

PackagingInv(c) ==
  phase[c] = "packaging" =>
    /\ \A d \in Cells : phase[d] = "packaging" => d = c
    /\ PendingOf(layer, c, pending)
    /\ nodes[c].exists => Names(pending) = {}

\* A cell that has yet to write a file of a name
Owes(d, name) ==
  /\ ~nodes[d].exists /\ phase[d] # "done"
  /\ \E f \in CellFiles(layer, d) : f.name = name
  /\ phase[d] = "packaging" => name \in Names(pending)

Stored(f) ==
  \E place \in {"folder", "archive"} :
    /\ <<place, f.name>> \in DOMAIN files
    /\ \/ files[<<place, f.name>>] = f.file
       \/ /\ files[<<place, f.name>>] = [whole |-> FALSE]
          /\ \E d \in Cells : Owes(d, f.name)

Attempted(c, name) == nodes[c].exists \/ (phase[c] = "packaging" /\ name \notin Names(pending))

\* What a cell was to write is there, but for what is reported and what another cell has
\* opened, or left open, and writes again.
DiskInv(c) == \A f \in CellFiles(layer, c) : Attempted(c, f.name) => f.name \in warned \/ Stored(f)

FilesInv ==
  /\ SessionInv
  /\ StatusInv
  /\ DOMAIN nodes = Cells
  /\ \A c \in Cells : CompileInv(c)
  /\ \A c \in Cells : NodeInv(c)
  /\ \A c \in Cells : PackagingInv(c)
  /\ \A c \in Cells : DiskInv(c)

\* What a cell has written is there for its node.
LEMMA FoundOnDisk ==
  ASSUME FilesInv, layer \in Layers, Apart(layer), NEW c \in Cells,
         NEW f \in CellFiles(layer, c), nodes[c].exists
  PROVE  f.name \in warned \/ OnDisk(c, f.name, f.file.origin, f.file.size)
<1>1. f.name \in warned \/ Stored(f)
  BY DEF FilesInv, DiskInv, Attempted
<1>2. f.file.whole = TRUE
  <2>1. IsOutput(f)
    BY CellsAreApart DEF CellIsApart
  <2>. QED
    BY <2>1 DEF IsOutput
<1>3. ASSUME Stored(f) PROVE OnDisk(c, f.name, f.file.origin, f.file.size)
  <2>1. PICK place \in {"folder", "archive"} :
          /\ <<place, f.name>> \in DOMAIN files
          /\ \/ files[<<place, f.name>>] = f.file
             \/ /\ files[<<place, f.name>>] = [whole |-> FALSE]
                /\ \E d \in Cells : Owes(d, f.name)
    BY <1>3 DEF Stored
  <2> DEFINE key == <<place, f.name>>
             file == files[key]
  <2>2. CASE file = f.file
    <3> HIDE DEF key
    <3>1. file.whole /\ file.origin = f.file.origin /\ file.size = f.file.size
      BY <1>2, <2>2
    <3>. QED
      BY <2>1, <3>1 DEF OnDisk, key
  <2>3. CASE file # f.file
    <3>1. file = [whole |-> FALSE] /\ \E d \in Cells : Owes(d, f.name)
      BY <2>1, <2>3
    <3>2. PICK d \in Cells : Owes(d, f.name)
      BY <3>1
    <3>3. d # c /\ ~nodes[d].exists /\ phase[d] # "done"
      BY <3>2 DEF Owes
    <3>4. status # "finished"
      BY <3>3 DEF FilesInv, StatusInv
    <3>5. ~file.whole
      <4> HIDE DEF file
      <4>. QED
        BY <3>1
    <3> HIDE DEF file
    <3>6. ~file.whole /\ status # "finished" /\ \E e \in Cells \ {c} : ~nodes[e].exists
      BY <3>3, <3>4, <3>5
    <3>. QED
      BY <2>1, <3>6 DEF OnDisk, file
  <2>. QED
    BY <2>2, <2>3
<1>. QED
  BY <1>1, <1>3

\* The invariant says that nodes find what they refer to.
LEMMA FilesMeanFound ==
  ASSUME FilesInv, layer \in Layers, Apart(layer)
  PROVE  NodesHaveTheirResources
<1> SUFFICES ASSUME NEW c \in Cells, nodes[c].exists, nodes[c] # Torn
             PROVE  /\ \A t \in nodes[c].textures : t.first /\ t.name.base # "" =>
                         LET size == WantedSize(layer.packager[c], t)
                         IN  IF layer.packager[c].inline
                             THEN nodes[c].embedded => t.image.size = size
                             ELSE t.name \in warned \/ OnDisk(c, t.name, t.image.origin, size)
                    /\ \A m \in nodes[c].models : m.resource.uri \in DOMAIN ModelFiles =>
                         m.name \in warned \/ OnDisk(c, m.name, Whole(m.resource.uri, 0), 0)
  BY DEF NodesHaveTheirResources
<1> DEFINE packager == layer.packager[c]
           given == FilesOf(layer, c)
<1>1. nodes[c] = CellNode(layer, c)
  BY DEF FilesInv, NodeInv, NoNode
<1>2. NodeFound(packager, nodes[c], given)
  BY <1>1, CellsAreApart DEF CellIsApart
<1>3. CellFiles(layer, c) = Range(given)
  BY DEF CellFiles
<1> HIDE DEF packager, given
<1>4. ASSUME NEW t \in nodes[c].textures, t.first, t.name.base # ""
      PROVE  IF packager.inline THEN t.image.size = WantedSize(packager, t)
             ELSE t.name \in warned \/ OnDisk(c, t.name, t.image.origin, WantedSize(packager, t))
  <2>1. HasTexture(packager, given, t)
    BY <1>2, <1>4 DEF NodeFound
  <2>2. CASE packager.inline
    BY <2>1, <2>2 DEF HasTexture
  <2>3. CASE ~packager.inline
    <3>1. PICK f \in Range(given) :
            f.name = t.name /\
            f.file = [origin |-> t.image.origin, size |-> WantedSize(packager, t), whole |-> TRUE]
      BY <2>1, <2>3 DEF HasTexture
    <3>2. f.file.origin = t.image.origin /\ f.file.size = WantedSize(packager, t)
      BY <3>1
    <3>3. f.name \in warned \/ OnDisk(c, f.name, f.file.origin, f.file.size)
      BY <1>3, FoundOnDisk
    <3>. QED
      BY <2>3, <3>1, <3>2, <3>3
  <2>. QED
    BY <2>2, <2>3
<1>5. ASSUME NEW m \in nodes[c].models, m.resource.uri \in DOMAIN ModelFiles
      PROVE  m.name \in warned \/ OnDisk(c, m.name, Whole(m.resource.uri, 0), 0)
  <2>1. HasModel(given, m)
    BY <1>2 DEF NodeFound
  <2>2. PICK f \in Range(given) :
          f.name = m.name /\ f.file = [origin |-> Whole(m.resource.uri, 0), size |-> 0, whole |-> TRUE]
    BY <1>5, <2>1 DEF HasModel
  <2>3. f.file.origin = Whole(m.resource.uri, 0) /\ f.file.size = 0
    BY <2>2
  <2>4. f.name \in warned \/ OnDisk(c, f.name, f.file.origin, f.file.size)
    BY <1>3, FoundOnDisk
  <2>. QED
    BY <2>2, <2>3, <2>4
<1>. QED
  BY <1>4, <1>5 DEF packager

\* Nothing is written at first.
LEMMA InitFiles == ASSUME Init PROVE FilesInv
<1>1. /\ layer \in Layers /\ status = "stopped"
      /\ phase = [c \in Cells |-> "waiting"] /\ at = [c \in Cells |-> 1]
      /\ cache = [c \in Cells |-> EmptyCache] /\ session = ProjectSession
      /\ nodes = [c \in Cells |-> NoNode] /\ NoNode.exists = FALSE
  BY DEF Init, NoNode
<1>2. SessionInv
  BY <1>1 DEF SessionInv, ProjectSession, NewSession
<1>3. StatusInv
  BY <1>1 DEF StatusInv
<1>4. \A c \in Cells : CompileInv(c)
  BY <1>1 DEF CompileInv
<1>5. \A c \in Cells : NodeInv(c) /\ PackagingInv(c) /\ DiskInv(c)
  BY <1>1 DEF NodeInv, PackagingInv, DiskInv, Attempted
<1>. QED
  BY <1>1, <1>2, <1>3, <1>4, <1>5 DEF FilesInv

\* Files of some names are written or given up; all else stays as it is, and so do those who
\* have yet to write it.
LEMMA DiskStep ==
  ASSUME layer' = layer, \A c \in Cells : DiskInv(c), warned \subseteq warned', NEW W,
         \A c \in Cells : \A f \in CellFiles(layer, c) : f.name \in W => f.name \in warned' \/ Stored(f)',
         \A place : \A name : <<place, name>> \in DOMAIN files /\ name \notin W =>
           <<place, name>> \in DOMAIN files' /\ files'[<<place, name>>] = files[<<place, name>>],
         \A c \in Cells : \A f \in CellFiles(layer, c) : f.name \notin W =>
           (Attempted(c, f.name)' => Attempted(c, f.name)) /\ (Owes(c, f.name) => Owes(c, f.name)')
  PROVE  \A c \in Cells : DiskInv(c)'
<1> SUFFICES ASSUME NEW c \in Cells, NEW f \in CellFiles(layer, c), Attempted(c, f.name)'
             PROVE  f.name \in warned' \/ Stored(f)'
  BY DEF DiskInv
<1>1. CASE f.name \in W
  BY <1>1
<1>2. CASE f.name \notin W
  <2>1. f.name \in warned \/ Stored(f)
    BY <1>2 DEF DiskInv
  <2>2. ASSUME Stored(f) PROVE Stored(f)'
    <3>1. PICK place \in {"folder", "archive"} :
            /\ <<place, f.name>> \in DOMAIN files
            /\ \/ files[<<place, f.name>>] = f.file
               \/ /\ files[<<place, f.name>>] = [whole |-> FALSE]
                  /\ \E d \in Cells : Owes(d, f.name)
      BY <2>2 DEF Stored
    <3>2. <<place, f.name>> \in DOMAIN files' /\ files'[<<place, f.name>>] = files[<<place, f.name>>]
      BY <1>2, <3>1
    <3>3. ASSUME NEW d \in Cells, Owes(d, f.name) PROVE Owes(d, f.name)'
      <4>1. PICK g \in CellFiles(layer, d) : g.name = f.name
        BY <3>3 DEF Owes
      <4>2. Owes(d, g.name) => Owes(d, g.name)'
        BY <1>2, <4>1
      <4>. QED
        BY <3>3, <4>1, <4>2
    <3>4. /\ <<place, f.name>> \in DOMAIN files'
          /\ \/ files'[<<place, f.name>>] = f.file
             \/ /\ files'[<<place, f.name>>] = [whole |-> FALSE]
                /\ \E d \in Cells : Owes(d, f.name)'
      BY <3>1, <3>2, <3>3
    <3>. QED
      BY <3>4 DEF Stored
  <2>. QED
    BY <2>1, <2>2
<1>. QED
  BY <1>1, <1>2

\* No file is touched.
LEMMA DiskStays ==
  ASSUME layer' = layer, \A c \in Cells : DiskInv(c), files' = files, warned' = warned,
         \A c \in Cells : \A f \in CellFiles(layer, c) :
           (Attempted(c, f.name)' => Attempted(c, f.name)) /\ (Owes(c, f.name) => Owes(c, f.name)')
  PROVE  \A c \in Cells : DiskInv(c)'
<1>1. \A c \in Cells : \A f \in CellFiles(layer, c) : f.name \in {} => f.name \in warned' \/ Stored(f)'
  OBVIOUS
<1>2. \A place : \A name : <<place, name>> \in DOMAIN files /\ name \notin {} =>
        <<place, name>> \in DOMAIN files' /\ files'[<<place, name>>] = files[<<place, name>>]
  OBVIOUS
<1>3. \A c \in Cells : \A f \in CellFiles(layer, c) : f.name \notin {} =>
        (Attempted(c, f.name)' => Attempted(c, f.name)) /\ (Owes(c, f.name) => Owes(c, f.name)')
  OBVIOUS
<1>4. warned \subseteq warned'
  OBVIOUS
<1>. QED
  BY <1>1, <1>2, <1>3, <1>4, DiskStep

\* A stop loses the caches, and what was open stays torn.
LEMMA CrashFiles ==
  ASSUME FilesInv, Crash
  PROVE  FilesInv'
<1>1. /\ layer' = layer /\ status' = "stopped" /\ files' = files /\ nodes' = nodes /\ warned' = warned
      /\ phase' = [c \in Cells |-> "waiting"] /\ at' = [c \in Cells |-> 1]
      /\ cache' = [c \in Cells |-> EmptyCache] /\ session' = ProjectSession
  BY DEF Crash, Fresh, diskVars
<1>2. SessionInv'
  BY <1>1 DEF SessionInv, ProjectSession, NewSession
<1>3. StatusInv'
  BY <1>1 DEF StatusInv
<1>4. \A c \in Cells : CompileInv(c)'
  BY <1>1 DEF CompileInv
<1>5. \A c \in Cells : NodeInv(c)' /\ PackagingInv(c)'
  BY <1>1 DEF FilesInv, NodeInv, PackagingInv
<1>6. ASSUME NEW c \in Cells, NEW f \in CellFiles(layer, c)
      PROVE  (Attempted(c, f.name)' => Attempted(c, f.name)) /\ (Owes(c, f.name) => Owes(c, f.name)')
  BY <1>1 DEF Attempted, Owes
<1>7. \A c \in Cells : DiskInv(c)'
  BY <1>1, <1>6, DiskStays DEF FilesInv
<1>. QED
  BY <1>1, <1>2, <1>3, <1>4, <1>5, <1>7 DEF FilesInv

LEMMA StartFiles ==
  ASSUME FilesInv, layer \in Layers, Start
  PROVE  FilesInv'
<1>1. /\ layer' = layer /\ status' = "building" /\ warned' = warned
      /\ phase' = [c \in Cells |-> "waiting"] /\ at' = [c \in Cells |-> 1]
      /\ cache' = [c \in Cells |-> EmptyCache] /\ session' = ProjectSession
      /\ nodes' = IF layer.archived THEN [c \in Cells |-> NoNode] ELSE nodes
      /\ ~layer.archived => files' = files
      /\ NoNode.exists = FALSE
  BY DEF Start, Fresh, NoNode
<1>2. SessionInv'
  BY <1>1 DEF SessionInv, ProjectSession, NewSession
<1>3. StatusInv'
  BY <1>1 DEF StatusInv
<1>4. \A c \in Cells : CompileInv(c)'
  BY <1>1 DEF CompileInv
<1>5. DOMAIN nodes' = Cells /\ \A c \in Cells : NodeInv(c)' /\ PackagingInv(c)'
  BY <1>1 DEF FilesInv, NodeInv, PackagingInv
<1>6. \A c \in Cells : DiskInv(c)'
  <2>1. CASE layer.archived
    <3>1. ASSUME NEW c \in Cells, NEW f \in CellFiles(layer, c) PROVE ~Attempted(c, f.name)'
      BY <1>1, <2>1 DEF Attempted
    <3>. QED
      BY <1>1, <3>1 DEF DiskInv
  <2>2. CASE ~layer.archived
    <3>1. nodes' = nodes /\ files' = files
      BY <1>1, <2>2
    <3>2. ASSUME NEW c \in Cells, NEW f \in CellFiles(layer, c)
          PROVE  (Attempted(c, f.name)' => Attempted(c, f.name)) /\ (Owes(c, f.name) => Owes(c, f.name)')
      BY <1>1, <3>1 DEF Attempted, Owes
    <3>. QED
      BY <1>1, <3>1, <3>2, DiskStays DEF FilesInv
  <2>. QED
    BY <2>1, <2>2
<1>. QED
  BY <1>1, <1>2, <1>3, <1>4, <1>5, <1>6 DEF FilesInv

LEMMA FinishFiles ==
  ASSUME FilesInv, Finish
  PROVE  FilesInv'
<1>1. /\ layer' = layer /\ status' = "finished" /\ files' = files /\ nodes' = nodes /\ warned' = warned
      /\ phase' = phase /\ at' = at /\ cache' = cache /\ session' = session /\ pending' = pending
      /\ \A c \in Cells : phase[c] = "done"
  BY DEF Finish, diskVars
<1>2. SessionInv'
  BY <1>1 DEF FilesInv, SessionInv
<1>3. StatusInv'
  BY <1>1 DEF StatusInv
<1>4. \A c \in Cells : CompileInv(c)' /\ NodeInv(c)' /\ PackagingInv(c)'
  BY <1>1 DEF FilesInv, CompileInv, NodeInv, PackagingInv
<1>5. ASSUME NEW c \in Cells, NEW f \in CellFiles(layer, c)
      PROVE  (Attempted(c, f.name)' => Attempted(c, f.name)) /\ (Owes(c, f.name) => Owes(c, f.name)')
  BY <1>1 DEF Attempted, Owes
<1>6. \A c \in Cells : DiskInv(c)'
  BY <1>1, <1>5, DiskStays DEF FilesInv
<1>. QED
  BY <1>1, <1>2, <1>3, <1>4, <1>6 DEF FilesInv

\* A cell goes on to another phase, and no other cell does anything.
LEMMA MovedFiles ==
  ASSUME FilesInv, NEW c \in Cells, status = "building", layer' = layer, status' = status,
         UNCHANGED <<session, diskVars>>, DOMAIN phase = Cells,
         NEW p \in {"compiling", "compiled", "done"}, phase[c] # "packaging",
         phase' = [phase EXCEPT ![c] = p], at' = at, cache' = cache, pending' = pending,
         CompileInv(c)', p # "done" => ~nodes[c].exists,
         p = "done" => nodes[c].exists \/ CellFiles(layer, c) = {}
  PROVE  FilesInv'
<1>1. /\ files' = files /\ nodes' = nodes /\ warned' = warned /\ session' = session
      /\ \A d \in Cells : phase'[d] = IF d = c THEN p ELSE phase[d]
      /\ p # "packaging" /\ p # "waiting"
  BY DEF diskVars
<1>2. SessionInv' /\ StatusInv'
  BY <1>1 DEF FilesInv, SessionInv, StatusInv
<1>3. ASSUME NEW d \in Cells PROVE CompileInv(d)' /\ NodeInv(d)'
  BY <1>1 DEF FilesInv, CompileInv, NodeInv, Uses
<1>4. ASSUME NEW d \in Cells PROVE PackagingInv(d)'
  BY <1>1 DEF FilesInv, PackagingInv
<1>5. ASSUME NEW d \in Cells, NEW f \in CellFiles(layer, d)
      PROVE  (Attempted(d, f.name)' => Attempted(d, f.name)) /\ (Owes(d, f.name) => Owes(d, f.name)')
  BY <1>1 DEF Attempted, Owes
<1>6. \A d \in Cells : DiskInv(d)'
  BY <1>1, <1>5, DiskStays DEF FilesInv
<1>. QED
  BY <1>1, <1>2, <1>3, <1>4, <1>6 DEF FilesInv

LEMMA StartCellFiles ==
  ASSUME FilesInv, layer \in Layers, Apart(layer), DOMAIN phase = Cells, NEW c \in Cells, StartCell(c)
  PROVE  FilesInv'
<1> DEFINE p == IF ~layer.archived /\ nodes[c].exists THEN "done" ELSE "compiling"
<1>1. /\ status = "building" /\ phase[c] = "waiting" /\ phase' = [phase EXCEPT ![c] = p]
      /\ at' = at /\ cache' = cache /\ pending' = pending /\ layer' = layer /\ status' = status
      /\ UNCHANGED <<session, diskVars>>
  BY DEF StartCell, CompileFrame
<1>2. p \in {"compiling", "compiled", "done"} /\ (p = "compiling" \/ p = "done")
      /\ (p = "done" => nodes[c].exists) /\ (p = "compiling" => ~nodes[c].exists)
  BY <1>1 DEF FilesInv, NodeInv
<1> HIDE DEF p
<1>3. Len(layer.uses[c]) \in Nat /\ CachesOf(layer, c)[0] = EmptyCache
  BY CellsAreApart DEF CellIsApart
<1>4. CompileInv(c)'
  <2>1. cache[c] = EmptyCache /\ at[c] = 1 /\ phase'[c] = p
    BY <1>1 DEF FilesInv, CompileInv
  <2>2. 1 \in 1..(Len(Uses(c)) + 1) /\ 1 - 1 = 0
    BY <1>3 DEF Uses
  <2>. QED
    BY <1>1, <1>2, <1>3, <2>1, <2>2 DEF CompileInv, Uses
<1>. QED
  BY <1>1, <1>2, <1>4, MovedFiles

LEMMA EndOfCellFiles ==
  ASSUME FilesInv, layer \in Layers, Apart(layer), DOMAIN phase = Cells, NEW c \in Cells, EndOfCell(c)
  PROVE  FilesInv'
<1> DEFINE p == IF Uses(c) = <<>> THEN "done" ELSE "compiled"
<1>1. /\ phase[c] = "compiling" /\ at[c] > Len(Uses(c)) /\ phase' = [phase EXCEPT ![c] = p]
      /\ at' = at /\ cache' = cache /\ pending' = pending /\ layer' = layer /\ status' = status
      /\ UNCHANGED <<session, diskVars>>
  BY DEF EndOfCell, CompileFrame
<1>2. p \in {"compiling", "compiled", "done"} /\ (p = "compiled" \/ p = "done")
      /\ (p = "done" => Uses(c) = <<>>) /\ ~nodes[c].exists
  BY <1>1 DEF FilesInv, NodeInv
<1> HIDE DEF p
<1>3. Len(layer.uses[c]) \in Nat /\ (Uses(c) = <<>> => CellFiles(layer, c) = {})
  BY CellsAreApart DEF CellIsApart, Uses
<1>4. status = "building"
  BY <1>1 DEF FilesInv, StatusInv
<1>5. CompileInv(c)'
  <2>1. phase'[c] = p /\ at[c] \in 1..(Len(Uses(c)) + 1) /\ cache[c] = CachesOf(layer, c)[at[c] - 1]
    BY <1>1 DEF FilesInv, CompileInv
  <2>2. at[c] - 1 = Len(Uses(c))
    BY <1>1, <1>3, <2>1 DEF Uses
  <2>3. cache[c] = LastCache(layer, c)
    BY <2>1, <2>2 DEF LastCache, Uses
  <2>. QED
    BY <1>1, <1>2, <2>1, <2>3 DEF CompileInv
<1>. QED
  BY <1>1, <1>2, <1>3, <1>4, <1>5, MovedFiles

\* A use of a resource changes nothing but the cell's cache, as any use before it.
LEMMA UsedFiles ==
  ASSUME FilesInv, layer \in Layers, Apart(layer), DOMAIN cache = Cells, at \in [Cells -> Nat],
         NEW c \in Cells, phase[c] = "compiling", at[c] <= Len(Uses(c)),
         NEW new, new = AfterUse(cache[c], UseOf(c)), Used(c, new), SessionInv'
  PROVE  FilesInv'
<1>1. /\ layer' = layer /\ status' = status /\ phase' = phase /\ pending' = pending
      /\ files' = files /\ nodes' = nodes /\ warned' = warned
      /\ \A d \in Cells : cache'[d] = IF d = c THEN new ELSE cache[d]
      /\ \A d \in Cells : at'[d] = IF d = c THEN at[c] + 1 ELSE at[d]
  BY DEF Used, CompileFrame, diskVars
<1>2. StatusInv'
  BY <1>1 DEF FilesInv, StatusInv
<1>3. \A d \in Cells : NodeInv(d)' /\ PackagingInv(d)'
  BY <1>1 DEF FilesInv, NodeInv, PackagingInv
<1>4. ASSUME NEW d \in Cells PROVE CompileInv(d)'
  <2>1. CASE d # c
    BY <1>1, <2>1 DEF FilesInv, CompileInv, Uses
  <2>2. CASE d = c
    <3> DEFINE uses == layer.uses[c]
    <3>1. Len(uses) \in Nat
      BY CellsAreApart DEF CellIsApart
    <3>2. at[c] \in 1..(Len(uses) + 1) /\ cache[c] = CachesOf(layer, c)[at[c] - 1]
      BY DEF FilesInv, CompileInv, Uses
    <3>3. at[c] \in 1..Len(uses) /\ UseOf(c) = uses[at[c]]
      BY <3>1, <3>2 DEF Uses, UseOf
    <3>4. CachesOf(layer, c)[at[c]] = AfterUse(CachesOf(layer, c)[at[c] - 1], layer.uses[c][at[c]])
      BY <3>1, <3>3, CachesForm
    <3>5. new = CachesOf(layer, c)[at[c]]
      BY <3>2, <3>3, <3>4
    <3>6. at'[c] \in 1..(Len(uses) + 1) /\ at'[c] - 1 = at[c]
      BY <1>1, <3>1, <3>3
    <3>7. cache'[c] = CachesOf(layer, c)[at'[c] - 1]
      BY <1>1, <3>5, <3>6
    <3>. QED
      BY <1>1, <2>2, <3>6, <3>7 DEF CompileInv, Uses
  <2>. QED
    BY <2>1, <2>2
<1>5. ASSUME NEW d \in Cells, NEW f \in CellFiles(layer, d)
      PROVE  (Attempted(d, f.name)' => Attempted(d, f.name)) /\ (Owes(d, f.name) => Owes(d, f.name)')
  BY <1>1 DEF Attempted, Owes
<1>6. \A d \in Cells : DiskInv(d)'
  BY <1>1, <1>5, DiskStays DEF FilesInv
<1>7. DOMAIN nodes' = Cells
  BY <1>1 DEF FilesInv
<1>. QED
  BY <1>2, <1>3, <1>4, <1>6, <1>7 DEF FilesInv

LEMMA SessionStays ==
  ASSUME SessionInv
  PROVE  /\ session.resources = ProjectSession.resources
         /\ session' = session => SessionInv'
         /\ \A model : session' = markResourceUsed(session, model) => SessionInv'
<1> DEFINE lib == ProjectSession.resources
<1>1. session = [resources |-> lib, used |-> session.used]
  BY DEF SessionInv
<1> HIDE DEF lib
<1>2. session.resources = lib
  BY <1>1
<1>3. ASSUME NEW model, session' = markResourceUsed(session, model) PROVE SessionInv'
  <2> DEFINE used == IF model \in ToSet(session.used) THEN session.used ELSE Append(session.used, model)
  <2>1. session' = [session EXCEPT !.used = used]
    BY <1>3 DEF markResourceUsed
  <2> HIDE DEF used
  <2>2. session' = [resources |-> lib, used |-> used]
    BY <1>1, <2>1
  <2>. QED
    BY <2>2 DEF SessionInv, lib
<1>4. ASSUME session' = session PROVE SessionInv'
  BY <1>1, <1>4 DEF SessionInv, lib
<1>. QED
  BY <1>2, <1>3, <1>4 DEF lib

LEMMA UseIs ==
  ASSUME NEW d, NEW u, NEW lib, lib = ProjectSession.resources, NEW format,
         format = Parts[u.name][CHOOSE p \in Good(u.name) : TRUE].pixel_format
  PROVE  /\ u.kind = "walls" => AfterUse(d, u) = WearSkin(lib, d, u)
         /\ u.kind = "model" /\ u.bulk => AfterUse(d, u) = CopyModel(lib, d, u)
         /\ u.kind = "model" /\ ~u.bulk /\ u.inline => AfterUse(d, u) = InlineModel(lib, d, u)
         /\ u.kind = "model" /\ ~u.bulk /\ ~u.inline => AfterUse(d, u) = ReferToModel(lib, d, u)
         /\ u.kind = "raster" => AfterUse(d, u) = ApplyOverlay(lib, Good(u.name), format, d, u)
<1>1. AfterUse(d, u)
        = CASE u.kind = "walls" -> WearSkin(lib, d, u)
            [] u.kind = "model" /\ u.bulk -> CopyModel(lib, d, u)
            [] u.kind = "model" /\ ~u.bulk /\ u.inline -> InlineModel(lib, d, u)
            [] u.kind = "model" /\ ~u.bulk /\ ~u.inline -> ReferToModel(lib, d, u)
            [] u.kind = "raster" -> ApplyOverlay(lib, Good(u.name), format, d, u)
  BY DEF AfterUse
<1>. QED
  BY <1>1

LEMMA WallsFiles ==
  ASSUME FilesInv, OverlayInv, Apart(layer), NEW c \in Cells, ExtrudeWalls(c)
  PROVE  FilesInv'
<1> DEFINE u == UseOf(c)
           lib == session.resources
           new == WearSkin(lib, cache[c], u)
<1>1. /\ phase[c] = "compiling" /\ at[c] <= Len(Uses(c)) /\ u.kind = "walls"
      /\ Used(c, new) /\ session' = session
  BY DEF ExtrudeWalls, Compiling
<1>2. lib = ProjectSession.resources /\ SessionInv'
  BY <1>1, SessionStays DEF FilesInv
<1>3. DOMAIN cache = Cells /\ layer \in Layers /\ at \in [Cells -> Nat]
  BY DEF OverlayInv, CachesInv, StepsInv
<1> HIDE DEF u, lib
<1>4. new = AfterUse(cache[c], u)
  BY <1>1, <1>2, UseIs
<1> HIDE DEF new
<1>. QED
  BY <1>1, <1>2, <1>3, <1>4, UsedFiles DEF u

LEMMA ModelUseFiles ==
  ASSUME FilesInv, OverlayInv, Apart(layer), NEW c \in Cells, SubstituteModel(c)
  PROVE  FilesInv'
<1> DEFINE u == UseOf(c)
           lib == session.resources
           inlined == InlineModel(lib, cache[c], u)
           referred == ReferToModel(lib, cache[c], u)
           new == IF u.inline THEN inlined ELSE referred
<1>1. /\ phase[c] = "compiling" /\ at[c] <= Len(Uses(c)) /\ u.kind = "model" /\ ~u.bulk
      /\ Used(c, new)
  BY DEF SubstituteModel, Compiling
<1>a. session' = session \/ \E model : session' = markResourceUsed(session, model)
  BY DEF SubstituteModel
<1>2. lib = ProjectSession.resources /\ SessionInv'
  BY <1>a, SessionStays DEF FilesInv
<1>3. DOMAIN cache = Cells /\ layer \in Layers /\ at \in [Cells -> Nat]
  BY DEF OverlayInv, CachesInv, StepsInv
<1> HIDE DEF u, lib
<1>4. new = AfterUse(cache[c], u)
  <2>1. u.inline => AfterUse(cache[c], u) = inlined
    BY <1>1, <1>2, UseIs
  <2>2. ~u.inline => AfterUse(cache[c], u) = referred
    BY <1>1, <1>2, UseIs
  <2> HIDE DEF inlined, referred
  <2>. QED
    BY <2>1, <2>2
<1> HIDE DEF new
<1>. QED
  BY <1>1, <1>2, <1>3, <1>4, UsedFiles DEF u

LEMMA ClusterFiles ==
  ASSUME FilesInv, OverlayInv, Apart(layer), NEW c \in Cells, ClusterModels(c)
  PROVE  FilesInv'
<1> DEFINE u == UseOf(c)
           lib == session.resources
           new == CopyModel(lib, cache[c], u)
<1>1. /\ phase[c] = "compiling" /\ at[c] <= Len(Uses(c)) /\ u.kind = "model" /\ u.bulk
      /\ Used(c, new)
  BY DEF ClusterModels, Compiling
<1>a. session' = session \/ \E model : session' = markResourceUsed(session, model)
  BY DEF ClusterModels
<1>2. lib = ProjectSession.resources /\ SessionInv'
  BY <1>a, SessionStays DEF FilesInv
<1>3. DOMAIN cache = Cells /\ layer \in Layers /\ at \in [Cells -> Nat]
  BY DEF OverlayInv, CachesInv, StepsInv
<1> HIDE DEF u, lib
<1>4. new = AfterUse(cache[c], u)
  BY <1>1, <1>2, UseIs
<1> HIDE DEF new
<1>. QED
  BY <1>1, <1>2, <1>3, <1>4, UsedFiles DEF u

\* A cell that ends its look at a raster of one format has found all of its parts, and what
\* it pastes is the same whoever looked them up.
LEMMA SameOverlay ==
  ASSUME FilesInv, OverlayInv, Apart(layer), NEW c \in Cells, Compiling(c, "raster"),
         NEW u, u = UseOf(c), NEW lib, lib = ProjectSession.resources,
         getRaster(lib, u.name) # NoResource /\ u.area # {} => part[c] = NumParts(u.name) + 2,
         NEW format, format = Parts[u.name][CHOOSE p \in Good(u.name) : TRUE].pixel_format, NEW d
  PROVE  ApplyOverlay(lib, extents[u.name], pixel_format[u.name], d, u)
           = ApplyOverlay(lib, Good(u.name), format, d, u)
<1> DEFINE r == u.name
           none == getRaster(lib, r) = NoResource \/ u.area = {}
           Over(known, fmt) ==
             LET added == AddStates(d, <<<<Pasted(known, fmt, u)>>>>)
                 state == Len(added.states)
             IN  addSkin(Show(added, {state}), state, 0)
<1>1. \A known, fmt : ApplyOverlay(lib, known, fmt, d, u) = IF none \/ Met(known, u) = {} THEN d ELSE Over(known, fmt)
  BY DEF ApplyOverlay
<1> HIDE DEF none, Over
<1>2. CASE none
  BY <1>1, <1>2
<1>3. CASE ~none
  <2> DEFINE uses == layer.uses[c]
  <2>1. u \in Range(uses) /\ u.kind = "raster" /\ layer \in Layers
    <3>1. layer \in Layers /\ at[c] \in 1..(Len(uses) + 1) /\ at[c] <= Len(uses) /\ UseOf(c) = uses[at[c]]
          /\ u.kind = "raster"
      BY DEF OverlayInv, StepsInv, FilesInv, CompileInv, Compiling, Uses, UseOf
    <3>2. uses \in Seq(Range(uses))
      BY <3>1, LayerAssumption
    <3>3. Len(uses) \in Nat /\ DOMAIN uses = 1..Len(uses)
      BY <3>2
    <3> HIDE DEF uses
    <3>4. at[c] \in DOMAIN uses
      BY <3>1, <3>3
    <3>. QED
      BY <3>1, <3>4 DEF Range
  <2>2. r \in DOMAIN Parts /\ OneFormat(r)
    <3>1. getRaster(lib, r) # NoResource
      BY <1>3 DEF none
    <3>2. r \in DOMAIN Parts
      BY <2>1, <3>1, UsesAssumption
    <3>. QED
      BY <2>1, <3>2 DEF Apart
  <2>3. part[c] = NumParts(r) + 2
    BY <1>3 DEF none
  <2>4. NumParts(r) \in Nat /\ \A p \in Good(r) : p \in 1..NumParts(r)
    BY <2>2, PartsOf
  <2>5. /\ extents[r] \subseteq Good(r)
        /\ extents[r] # {} => \E p \in extents[r] : pixel_format[r] = Parts[r][p].pixel_format
    BY <2>2 DEF OverlayInv, PartsInv, RasterInv
  <2>6. RasterOf(c) = r /\ part[c] # 0
    <3>1. RasterOf(c) = r
      BY DEF RasterOf
    <3> HIDE DEF r
    <3>. QED
      BY <2>3, <2>4, <3>1
  <2>7. \A p \in Good(r) : p < part[c] => p \in extents[r]
    BY <2>2, <2>6 DEF OverlayInv, PartsInv, PassedInv
  <2> HIDE DEF r
  <2>8. extents[r] = Good(r)
    BY <2>3, <2>4, <2>5, <2>7
  <2>9. CASE Good(r) = {}
    <3>1. Met(extents[r], u) = {} /\ Met(Good(r), u) = {}
      BY <2>8, <2>9 DEF Met
    <3>2. ApplyOverlay(lib, extents[r], pixel_format[r], d, u) = d
      BY <1>1, <3>1
    <3>3. ApplyOverlay(lib, Good(r), format, d, u) = d
      BY <1>1, <3>1
    <3>. QED
      BY <3>2, <3>3 DEF r
  <2>10. CASE Good(r) # {}
    <3>1. format = Parts[r][CHOOSE p \in Good(r) : TRUE].pixel_format
      BY DEF r
    <3>2. (CHOOSE p \in Good(r) : TRUE) \in Good(r)
      BY <2>10
    <3>3. pixel_format[r] = format
      BY <2>2, <2>5, <2>8, <2>10, <3>1, <3>2 DEF OneFormat
    <3>. QED
      BY <2>8, <3>3 DEF r
  <2>. QED
    BY <2>9, <2>10
<1>. QED
  BY <1>2, <1>3

LEMMA RasterFiles ==
  ASSUME FilesInv, OverlayInv, Apart(layer), NEW c \in Cells, OverlayRaster(c)
  PROVE  FilesInv'
<1> DEFINE u == UseOf(c)
           lib == session.resources
           r == RasterOf(c)
           format == Parts[u.name][CHOOSE p \in Good(u.name) : TRUE].pixel_format
           new == ApplyOverlay(lib, extents[r], pixel_format[r], cache[c], u)
<1>1. /\ phase[c] = "compiling" /\ at[c] <= Len(Uses(c)) /\ u.kind = "raster"
      /\ Compiling(c, "raster") /\ Used(c, new) /\ session' = session
      /\ Named(c) /\ u.area # {} => part[c] = NumParts(r) + 2
  BY DEF OverlayRaster, Compiling
<1>2. lib = ProjectSession.resources /\ SessionInv'
  BY <1>1, SessionStays DEF FilesInv
<1>3. DOMAIN cache = Cells /\ layer \in Layers /\ at \in [Cells -> Nat]
  BY DEF OverlayInv, CachesInv, StepsInv
<1>4. r = u.name /\ (Named(c) <=> getRaster(lib, u.name) # NoResource)
  BY DEF RasterOf, Named
<1>5. u = UseOf(c) /\ format = Parts[u.name][CHOOSE p \in Good(u.name) : TRUE].pixel_format
  OBVIOUS
<1> HIDE DEF u, lib, r, format
<1>6. new = ApplyOverlay(lib, Good(u.name), format, cache[c], u)
  <2>1. getRaster(lib, u.name) # NoResource /\ u.area # {} => part[c] = NumParts(u.name) + 2
    BY <1>1, <1>4
  <2>2. ApplyOverlay(lib, extents[u.name], pixel_format[u.name], cache[c], u)
          = ApplyOverlay(lib, Good(u.name), format, cache[c], u)
    BY <1>1, <1>2, <1>5, <2>1, SameOverlay
  <2>. QED
    BY <1>4, <2>2
<1>7. new = AfterUse(cache[c], u)
  <2> HIDE DEF new
  <2>1. AfterUse(cache[c], u) = ApplyOverlay(lib, Good(u.name), format, cache[c], u)
    <3>1. u.kind = "raster" /\ lib = ProjectSession.resources
      BY <1>1, <1>2
    <3>2. format = Parts[u.name][CHOOSE p \in Good(u.name) : TRUE].pixel_format
      BY <1>5
    <3>3. u.kind = "raster" => AfterUse(cache[c], u) = ApplyOverlay(lib, Good(u.name), format, cache[c], u)
      BY <3>1, <3>2, UseIs
    <3>. QED
      BY <3>1, <3>3
  <2>. QED
    BY <1>6, <2>1
<1> HIDE DEF new
<1>. QED
  BY <1>1, <1>2, <1>3, <1>5, <1>7, UsedFiles

\* Looking at the parts of a raster is nothing to the disk.
LEMMA LookFiles ==
  ASSUME FilesInv, UNCHANGED <<layer, status, phase, at, cache, session, pending, diskVars>>
  PROVE  FilesInv'
<1>1. /\ layer' = layer /\ status' = status /\ phase' = phase /\ at' = at /\ cache' = cache
      /\ session' = session /\ pending' = pending
      /\ files' = files /\ nodes' = nodes /\ warned' = warned
  BY DEF diskVars
<1>2. SessionInv' /\ StatusInv'
  BY <1>1 DEF FilesInv, SessionInv, StatusInv
<1>3. \A c \in Cells : CompileInv(c)' /\ NodeInv(c)' /\ PackagingInv(c)'
  BY <1>1 DEF FilesInv, CompileInv, NodeInv, PackagingInv, Uses
<1>4. ASSUME NEW c \in Cells, NEW f \in CellFiles(layer, c)
      PROVE  (Attempted(c, f.name)' => Attempted(c, f.name)) /\ (Owes(c, f.name) => Owes(c, f.name)')
  BY <1>1 DEF Attempted, Owes
<1>5. \A c \in Cells : DiskInv(c)'
  BY <1>1, <1>4, DiskStays DEF FilesInv
<1>. QED
  BY <1>1, <1>2, <1>3, <1>5 DEF FilesInv

LEMMA PackageFiles ==
  ASSUME FilesInv, layer \in Layers, Apart(layer), DOMAIN phase = Cells, DOMAIN cache = Cells,
         NEW c \in Cells, Package(c)
  PROVE  FilesInv'
<1> DEFINE packager == layer.packager[c]
           packaged == Packaged(packager, cache[c])
           node == [kind |-> "node", open |-> FALSE, file |-> NodeFile(packager, layer.ive, packaged)]
<1>1. /\ status = "building" /\ phase[c] = "compiled" /\ \A d \in Cells : phase[d] # "packaging"
      /\ phase' = [phase EXCEPT ![c] = "packaging"] /\ cache' = [cache EXCEPT ![c] = packaged]
      /\ pending' = Outputs(packageResources(packager, cache[c]), node)
      /\ layer' = layer /\ status' = status /\ at' = at /\ session' = session
      /\ files' = files /\ nodes' = nodes /\ warned' = warned
  BY DEF Package, diskVars
<1>2. cache[c] = LastCache(layer, c) /\ ~nodes[c].exists
  BY <1>1 DEF FilesInv, CompileInv, NodeInv
<1>3. packageResources(packager, cache[c]) = FilesOf(layer, c) /\ IsNodeOf(layer, c, node)
  <2>1. node = [kind |-> "node", open |-> FALSE, file |-> CellNode(layer, c)]
    BY <1>2 DEF CellNode
  <2> HIDE DEF node
  <2>2. node.open = FALSE
    BY <2>1
  <2>3. IsNodeOf(layer, c, node)
    BY <2>1, <2>2 DEF IsNodeOf
  <2>. QED
    BY <1>2, <2>3 DEF FilesOf, LastCache
<1> HIDE DEF packager, packaged, node
<1>4. PendingOf(layer, c, pending') /\ Names(pending') = {f.name : f \in CellFiles(layer, c)}
  BY <1>1, <1>3, CellsAreApart, PendingStarts
<1>5. /\ \A d \in Cells : phase'[d] = IF d = c THEN "packaging" ELSE phase[d]
      /\ \A d \in Cells : d # c => cache'[d] = cache[d]
  BY <1>1
<1>6. SessionInv' /\ StatusInv'
  BY <1>1 DEF FilesInv, SessionInv, StatusInv
<1>7. \A d \in Cells : CompileInv(d)' /\ NodeInv(d)'
  BY <1>1, <1>5 DEF FilesInv, CompileInv, NodeInv, Uses
<1>8. \A d \in Cells : PackagingInv(d)'
  BY <1>1, <1>2, <1>4, <1>5 DEF PackagingInv
<1>9. ASSUME NEW d \in Cells, NEW f \in CellFiles(layer, d)
      PROVE  (Attempted(d, f.name)' => Attempted(d, f.name)) /\ (Owes(d, f.name) => Owes(d, f.name)')
  <2>1. d = c => f.name \in Names(pending')
    BY <1>4
  <2>2. nodes'[d] = nodes[d] /\ phase'[d] = (IF d = c THEN "packaging" ELSE phase[d]) /\ phase[d] # "packaging"
    BY <1>1, <1>5
  <2>3. Attempted(d, f.name)' => Attempted(d, f.name)
    BY <1>2, <2>1, <2>2 DEF Attempted
  <2>4. Owes(d, f.name) => Owes(d, f.name)'
    BY <1>1, <2>1, <2>2 DEF Owes
  <2>. QED
    BY <2>3, <2>4
<1>10. \A d \in Cells : DiskInv(d)'
  BY <1>1, <1>9, DiskStays DEF FilesInv
<1>. QED
  BY <1>1, <1>6, <1>7, <1>8, <1>10 DEF FilesInv

LEMMA PackagedFiles ==
  ASSUME FilesInv, NEW c \in Cells, phase[c] = "packaging",
         UNCHANGED <<layer, status, phase, at, cache, session>>,
         DOMAIN nodes' = Cells, \A d \in Cells : d # c => nodes'[d] = nodes[d],
         nodes'[c] \in {NoNode, Torn, CellNode(layer, c)},
         PendingOf(layer, c, pending'), nodes'[c].exists => Names(pending') = {},
         \A d \in Cells : DiskInv(d)'
  PROVE  FilesInv'
<1>1. SessionInv' /\ StatusInv'
  BY DEF FilesInv, SessionInv, StatusInv
<1>2. \A d \in Cells : CompileInv(d)'
  BY DEF FilesInv, CompileInv, Uses
<1>3. \A d \in Cells : NodeInv(d)'
  BY DEF FilesInv, NodeInv
<1>4. \A d \in Cells : phase[d] = "packaging" => d = c
  BY DEF FilesInv, PackagingInv
<1>5. \A d \in Cells : PackagingInv(d)'
  BY <1>4 DEF PackagingInv
<1>. QED
  BY <1>1, <1>2, <1>3, <1>5 DEF FilesInv

\* What is known when a file of a cell is opened or written
WritingFacts(c) ==
  /\ phase[c] = "packaging" /\ pending # <<>> /\ DOMAIN nodes = Cells
  /\ \A d \in Cells : phase[d] = "packaging" => d = c
  /\ PendingOf(layer, c, pending) /\ Goes(layer, c, pending)
  /\ nodes[c].exists => Names(pending) = {}
  /\ nodes[c] \in {NoNode, Torn, CellNode(layer, c)}

LEMMA WritingHas ==
  ASSUME FilesInv, NEW c \in Cells, Writing(c)
  PROVE  WritingFacts(c)
<1>1. phase[c] = "packaging" /\ pending # <<>>
  BY DEF Writing, Packaging
<1>2. /\ \A d \in Cells : phase[d] = "packaging" => d = c
      /\ PendingOf(layer, c, pending) /\ (nodes[c].exists => Names(pending) = {})
      /\ nodes[c] \in {NoNode, Torn, CellNode(layer, c)} /\ DOMAIN nodes = Cells
  BY <1>1 DEF FilesInv, PackagingInv, NodeInv
<1>3. Goes(layer, c, pending)
  BY <1>1, <1>2, PendingGoes
<1>. QED
  BY <1>1, <1>2, <1>3 DEF WritingFacts

\* The cell's own file, opened or written, or not written
LEMMA NodeFiles ==
  ASSUME FilesInv, NEW c \in Cells, Writing(c), Head(pending).kind = "node",
         UNCHANGED <<layer, status, phase, at, cache, session, files, warned>>,
         DOMAIN nodes' = Cells, \A d \in Cells : d # c => nodes'[d] = nodes[d],
         nodes'[c] \in {nodes[c], Torn, CellNode(layer, c)},
         PendingOf(layer, c, pending'), Names(pending') = {}
  PROVE  FilesInv'
<1>1. WritingFacts(c)
  BY WritingHas
<1>2. phase[c] = "packaging" /\ Names(pending) = {} /\ DOMAIN nodes = Cells
      /\ nodes[c] \in {NoNode, Torn, CellNode(layer, c)}
      /\ \A d \in Cells : phase[d] = "packaging" => d = c
  BY <1>1 DEF WritingFacts, Goes
<1>4. ASSUME NEW d \in Cells, NEW f \in CellFiles(layer, d)
      PROVE  (Attempted(d, f.name)' => Attempted(d, f.name)) /\ (Owes(d, f.name) => Owes(d, f.name)')
  <2>1. CASE d = c
    <3>1. Attempted(d, f.name) /\ ~Owes(d, f.name)
      BY <1>2, <2>1 DEF Attempted, Owes
    <3>. QED
      BY <3>1
  <2>2. CASE d # c
    <3>1. nodes'[d] = nodes[d] /\ phase'[d] = phase[d] /\ phase[d] # "packaging"
      BY <1>2, <2>2
    <3>. QED
      BY <3>1 DEF Attempted, Owes
  <2>. QED
    BY <2>1, <2>2
<1>5. \A d \in Cells : DiskInv(d)'
  BY <1>4, DiskStays DEF FilesInv
<1>. QED
  BY <1>2, <1>5, PackagedFiles

\* A texture or model, opened, written or reported
LEMMA FileFiles ==
  ASSUME FilesInv, NEW c \in Cells, Writing(c), Head(pending).kind # "node",
         UNCHANGED <<layer, status, phase, at, cache, session, nodes>>, warned \subseteq warned',
         PendingOf(layer, c, pending'), NEW name, Names(pending) = {name} \cup Names(pending'),
         \A place : \A other : <<place, other>> \in DOMAIN files /\ other # name =>
           <<place, other>> \in DOMAIN files' /\ files'[<<place, other>>] = files[<<place, other>>],
         \A d \in Cells : \A f \in CellFiles(layer, d) : f.name = name => f.name \in warned' \/ Stored(f)'
  PROVE  FilesInv'
<1>1. WritingFacts(c)
  BY WritingHas
<1>2. /\ phase[c] = "packaging" /\ DOMAIN nodes = Cells /\ ~nodes[c].exists
      /\ nodes[c] \in {NoNode, Torn, CellNode(layer, c)}
      /\ \A d \in Cells : phase[d] = "packaging" => d = c
  BY <1>1 DEF WritingFacts
<1>3. ASSUME NEW d \in Cells, NEW f \in CellFiles(layer, d), f.name \notin {name}
      PROVE  (Attempted(d, f.name)' => Attempted(d, f.name)) /\ (Owes(d, f.name) => Owes(d, f.name)')
  <2>1. f.name \in Names(pending) <=> f.name \in Names(pending')
    BY <1>3
  <2>. QED
    BY <2>1 DEF Attempted, Owes
<1>4. \A d \in Cells : DiskInv(d)'
  <2>1. \A d \in Cells : DiskInv(d)
    BY DEF FilesInv
  <2>2. \A d \in Cells : \A f \in CellFiles(layer, d) : f.name \in {name} => f.name \in warned' \/ Stored(f)'
    OBVIOUS
  <2>3. \A place : \A other : <<place, other>> \in DOMAIN files /\ other \notin {name} =>
          <<place, other>> \in DOMAIN files' /\ files'[<<place, other>>] = files[<<place, other>>]
    OBVIOUS
  <2>. QED
    BY <1>3, <2>1, <2>2, <2>3, DiskStep
<1>5. nodes' = nodes /\ \A d \in Cells : d # c => nodes'[d] = nodes[d]
  OBVIOUS
<1>. QED
  BY <1>2, <1>4, <1>5, PackagedFiles

\* What writing a file makes of the disk
LEMMA WriteForm ==
  ASSUME NEW output, NEW file, Write(output, file)
  PROVE  \E place \in {"folder", "archive"} :
           /\ <<place, output.name>> \in DOMAIN files' /\ files'[<<place, output.name>>] = file
           /\ \A other : \A name : <<other, name>> \in DOMAIN files /\ name # output.name =>
                <<other, name>> \in DOMAIN files' /\ files'[<<other, name>>] = files[<<other, name>>]
<1> DEFINE place == PlaceOf(output)
           key == <<place, output.name>>
<1>1. place \in {"folder", "archive"}
  BY DEF PlaceOf
<1>2. files' = [k \in DOMAIN files \union {key} |-> IF k = key THEN file ELSE files[k]]
  BY DEF Write
<1> HIDE DEF place
<1>3. key \in DOMAIN files' /\ files'[key] = file
  BY <1>2
<1>4. ASSUME NEW other, NEW name, <<other, name>> \in DOMAIN files, name # output.name
      PROVE  <<other, name>> \in DOMAIN files' /\ files'[<<other, name>>] = files[<<other, name>>]
  <2>1. <<other, name>> # key
    BY <1>4
  <2>. QED
    BY <1>2, <1>4, <2>1
<1>. QED
  BY <1>1, <1>3, <1>4

\* A file that is opened is torn, and the cell has yet to write it.
LEMMA OpenFiles ==
  ASSUME FilesInv, NEW c \in Cells, OpenFile(c)
  PROVE  FilesInv'
<1> DEFINE head == Head(pending)
<1>1. /\ Writing(c) /\ pending' = [pending EXCEPT ![1].open = TRUE]
      /\ UNCHANGED <<layer, status, phase, at, cache, session, warned>>
      /\ head.kind = "node" => nodes' = [nodes EXCEPT ![c] = Torn] /\ files' = files
      /\ head.kind # "node" => Write(head, [whole |-> FALSE]) /\ nodes' = nodes
  BY DEF OpenFile, PackageFrame
<1>2. WritingFacts(c)
  BY <1>1, WritingHas
<1>3. PendingOf(layer, c, pending') /\ Names(pending') = Names(pending)
  <2>1. PendingOf(layer, c, pending) /\ pending # <<>>
    BY <1>2 DEF WritingFacts
  <2>2. ASSUME NEW v, NEW t, t = Opened(pending, v)
        PROVE  PendingOf(layer, c, t) /\ Names(t) = Names(pending)
    BY <2>1, <2>2, PendingOpens
  <2>3. pending' = Opened(pending, TRUE)
    BY <1>1 DEF Opened
  <2>. QED
    BY <2>2, <2>3
<1>4. CASE head.kind = "node"
  <2>1. Names(pending') = {}
    BY <1>2, <1>3, <1>4 DEF WritingFacts, Goes
  <2>2. DOMAIN nodes' = Cells /\ nodes'[c] = Torn /\ \A d \in Cells : d # c => nodes'[d] = nodes[d]
    BY <1>1, <1>2, <1>4 DEF WritingFacts
  <2>. QED
    BY <1>1, <1>3, <1>4, <2>1, <2>2, NodeFiles
<1>5. CASE head.kind # "node"
  <2>0. SUFFICES ASSUME NEW name, name = head.name PROVE FilesInv'
    OBVIOUS
  <2>1. Names(pending) = {name} \cup Names(Tail(pending)) /\ \E f \in CellFiles(layer, c) : f.name = name
    BY <1>2, <1>5, <2>0 DEF WritingFacts, Goes, IsFileOf
  <2>2. PICK place \in {"folder", "archive"} :
          /\ <<place, head.name>> \in DOMAIN files' /\ files'[<<place, head.name>>] = [whole |-> FALSE]
          /\ \A other : \A n : <<other, n>> \in DOMAIN files /\ n # head.name =>
               <<other, n>> \in DOMAIN files' /\ files'[<<other, n>>] = files[<<other, n>>]
    BY <1>1, <1>5, WriteForm
  <2>3. phase[c] = "packaging" /\ ~nodes[c].exists
    BY <1>2, <2>1 DEF WritingFacts
  <2> HIDE DEF head
  <2>4. Names(pending) = {name} \cup Names(pending')
    BY <1>3, <2>1
  <2>5. Owes(c, name)'
    BY <1>1, <1>3, <1>5, <2>1, <2>3 DEF Owes
  <2>6. ASSUME NEW d \in Cells, NEW f \in CellFiles(layer, d), f.name = name PROVE Stored(f)'
    <3>1. <<place, f.name>> \in DOMAIN files' /\ files'[<<place, f.name>>] = [whole |-> FALSE]
      BY <2>0, <2>2, <2>6
    <3>2. Owes(c, f.name)'
      BY <2>5, <2>6
    <3>. QED
      BY <3>1, <3>2 DEF Stored
  <2>7. \A other : \A n : <<other, n>> \in DOMAIN files /\ n # name =>
          <<other, n>> \in DOMAIN files' /\ files'[<<other, n>>] = files[<<other, n>>]
    BY <2>0, <2>2
  <2>. QED
    BY <1>1, <1>3, <1>5, <2>4, <2>6, <2>7, FileFiles DEF head
<1>. QED
  BY <1>4, <1>5

\* A file that is written is the one that every cell writes under its name.
LEMMA WriteFiles ==
  ASSUME FilesInv, layer \in Layers, Apart(layer), NEW c \in Cells, WriteFile(c)
  PROVE  FilesInv'
<1> DEFINE head == Head(pending)
<1>0. SUFFICES ASSUME NEW name, name = head.name PROVE FilesInv'
  OBVIOUS
<1>1. /\ Writing(c) /\ pending' = Tail(pending) /\ head.kind # "node" /\ Write(head, head.file)
      /\ UNCHANGED <<layer, status, phase, at, cache, session, warned, nodes>>
  BY DEF WriteFile, PackageFrame
<1>2. WritingFacts(c)
  BY <1>1, WritingHas
<1>3. PendingOf(layer, c, pending') /\ IsFileOf(layer, c, head) /\ Names(pending) = {name} \cup Names(pending')
  BY <1>0, <1>1, <1>2 DEF WritingFacts, Goes
<1>4. PICK place \in {"folder", "archive"} :
        /\ <<place, head.name>> \in DOMAIN files' /\ files'[<<place, head.name>>] = head.file
        /\ \A other : \A n : <<other, n>> \in DOMAIN files /\ n # head.name =>
             <<other, n>> \in DOMAIN files' /\ files'[<<other, n>>] = files[<<other, n>>]
  BY <1>1, WriteForm
<1> HIDE DEF head
<1>5. ASSUME NEW d \in Cells, NEW f \in CellFiles(layer, d), f.name = name PROVE Stored(f)'
  <2>1. PICK g \in CellFiles(layer, c) : g.name = name /\ g.file = head.file
    BY <1>0, <1>3 DEF IsFileOf
  <2>2. f.file = g.file
    BY <1>5, <2>1, CellsAreApart DEF CellIsApart
  <2>3. <<place, f.name>> \in DOMAIN files' /\ files'[<<place, f.name>>] = f.file
    BY <1>0, <1>4, <1>5, <2>1, <2>2
  <2>. QED
    BY <2>3 DEF Stored
<1>6. \A other : \A n : <<other, n>> \in DOMAIN files /\ n # name =>
        <<other, n>> \in DOMAIN files' /\ files'[<<other, n>>] = files[<<other, n>>]
  BY <1>0, <1>4
<1>. QED
  BY <1>1, <1>3, <1>5, <1>6, FileFiles DEF head

LEMMA FailFiles ==
  ASSUME FilesInv, NEW c \in Cells, FailToWrite(c)
  PROVE  FilesInv'
<1> DEFINE head == Head(pending)
<1>0. SUFFICES ASSUME NEW name, name = head.name PROVE FilesInv'
  OBVIOUS
<1>1. /\ Writing(c) /\ pending' = Tail(pending) /\ head.kind # "node"
      /\ warned' = warned \union {name} /\ files' = files
      /\ UNCHANGED <<layer, status, phase, at, cache, session, nodes>>
  BY <1>0 DEF FailToWrite, PackageFrame
<1>2. WritingFacts(c)
  BY <1>1, WritingHas
<1>3. PendingOf(layer, c, pending') /\ Names(pending) = {name} \cup Names(pending')
  BY <1>0, <1>1, <1>2 DEF WritingFacts, Goes
<1>4. \A other : \A n : <<other, n>> \in DOMAIN files /\ n # name =>
        <<other, n>> \in DOMAIN files' /\ files'[<<other, n>>] = files[<<other, n>>]
  BY <1>1
<1>5. warned \subseteq warned' /\ name \in warned'
  BY <1>1
<1>. QED
  BY <1>1, <1>3, <1>4, <1>5, FileFiles

LEMMA NodeWrittenFiles ==
  ASSUME FilesInv, NEW c \in Cells, WriteNode(c) \/ FailToWriteNode(c)
  PROVE  FilesInv'
<1> DEFINE head == Head(pending)
<1>1. /\ Writing(c) /\ pending' = Tail(pending) /\ head.kind = "node"
      /\ UNCHANGED <<layer, status, phase, at, cache, session, files, warned>>
      /\ nodes' = [nodes EXCEPT ![c] = head.file] \/ nodes' = nodes
  BY DEF WriteNode, FailToWriteNode, PackageFrame, diskVars
<1>2. WritingFacts(c)
  BY <1>1, WritingHas
<1>3. PendingOf(layer, c, pending') /\ IsNodeOf(layer, c, head) /\ pending' = <<>>
  BY <1>1, <1>2 DEF WritingFacts, Goes
<1>4. Names(pending') = {}
  BY <1>3, NoPending
<1> HIDE DEF head
<1>5. head.file = CellNode(layer, c)
  BY <1>3 DEF IsNodeOf
<1>6. /\ DOMAIN nodes' = Cells /\ \A d \in Cells : d # c => nodes'[d] = nodes[d]
      /\ nodes'[c] \in {nodes[c], Torn, CellNode(layer, c)}
  BY <1>1, <1>2, <1>5 DEF WritingFacts
<1>. QED
  BY <1>1, <1>3, <1>4, <1>6, NodeFiles DEF head

LEMMA EndOfPackagingFiles ==
  ASSUME FilesInv, DOMAIN phase = Cells, DOMAIN cache = Cells, NEW c \in Cells, EndOfPackaging(c)
  PROVE  FilesInv'
<1>1. /\ status = "building" /\ phase[c] = "packaging" /\ pending = <<>>
      /\ phase' = [phase EXCEPT ![c] = "done"] /\ cache' = [cache EXCEPT ![c] = EmptyCache]
      /\ layer' = layer /\ status' = status /\ at' = at /\ session' = session /\ pending' = pending
      /\ files' = files /\ nodes' = nodes /\ warned' = warned
  BY DEF EndOfPackaging, Packaging, PackageFrame, diskVars
<1>2. /\ \A d \in Cells : phase'[d] = IF d = c THEN "done" ELSE phase[d]
      /\ \A d \in Cells : d # c => cache'[d] = cache[d]
  BY <1>1
<1>3. Names(pending) = {}
  BY <1>1, NoPending
<1>4. SessionInv' /\ StatusInv'
  BY <1>1 DEF FilesInv, SessionInv, StatusInv
<1>5. \A d \in Cells : CompileInv(d)' /\ NodeInv(d)'
  BY <1>1, <1>2 DEF FilesInv, CompileInv, NodeInv, Uses
<1>6. \A d \in Cells : PackagingInv(d)'
  BY <1>1, <1>2 DEF FilesInv, PackagingInv
<1>7. ASSUME NEW d \in Cells, NEW f \in CellFiles(layer, d)
      PROVE  (Attempted(d, f.name)' => Attempted(d, f.name)) /\ (Owes(d, f.name) => Owes(d, f.name)')
  <2>1. CASE d = c
    <3>1. Attempted(d, f.name) /\ ~Owes(d, f.name)
      BY <1>1, <1>3, <2>1 DEF Attempted, Owes
    <3>. QED
      BY <3>1
  <2>2. CASE d # c
    <3>1. nodes'[d] = nodes[d] /\ phase'[d] = phase[d] /\ pending' = pending
      BY <1>1, <1>2, <2>2
    <3>. QED
      BY <1>1, <3>1 DEF Attempted, Owes
  <2>. QED
    BY <2>1, <2>2
<1>8. \A d \in Cells : DiskInv(d)'
  BY <1>1, <1>7, DiskStays DEF FilesInv
<1>9. DOMAIN nodes' = Cells
  BY <1>1 DEF FilesInv
<1>. QED
  BY <1>4, <1>5, <1>6, <1>8, <1>9 DEF FilesInv

\* Every step keeps what is on disk.
LEMMA NextFiles == OverlayInv /\ (Apart(layer) => FilesInv) /\ [Next]_vars => (Apart(layer) => FilesInv)'
<1> SUFFICES ASSUME OverlayInv, Apart(layer) => FilesInv, [Next]_vars, Apart(layer)'
             PROVE  FilesInv'
  OBVIOUS
<1>1. layer' = layer
  BY DEF Next, vars, Start, Crash, Finish, StartCell, ExtrudeWalls, SubstituteModel, ClusterModels,
           LookAtParts, initPart, PartsInitialized, OverlayRaster, EndOfCell, Package, OpenFile, WriteFile,
           FailToWrite, WriteNode, FailToWriteNode, EndOfPackaging, CompileFrame, PackageFrame, Used
<1>2. Apart(layer) /\ FilesInv
  BY <1>1
<1>3. layer \in Layers /\ DOMAIN phase = Cells /\ DOMAIN cache = Cells
  BY DEF OverlayInv, StepsInv, CachesInv
<1>4. CASE Start
  BY <1>2, <1>3, <1>4, StartFiles
<1>5. CASE Crash
  BY <1>2, <1>5, CrashFiles
<1>6. CASE Finish
  BY <1>2, <1>6, FinishFiles
<1>7. ASSUME NEW c \in Cells, StartCell(c) \/ EndOfCell(c) PROVE FilesInv'
  BY <1>2, <1>3, <1>7, StartCellFiles, EndOfCellFiles
<1>8. ASSUME NEW c \in Cells, ExtrudeWalls(c) \/ SubstituteModel(c) \/ ClusterModels(c) \/ OverlayRaster(c)
      PROVE  FilesInv'
  BY <1>2, <1>8, WallsFiles, ModelUseFiles, ClusterFiles, RasterFiles
<1>9. ASSUME NEW c \in Cells, LookAtParts(c) \/ initPart(c) \/ PartsInitialized(c) PROVE FilesInv'
  <2>1. UNCHANGED <<layer, status, phase, at, cache, session, pending, diskVars>>
    BY <1>9 DEF LookAtParts, initPart, PartsInitialized, CompileFrame
  <2>. QED
    BY <1>2, <2>1, LookFiles
<1>10. ASSUME NEW c \in Cells, Package(c) \/ EndOfPackaging(c) PROVE FilesInv'
  BY <1>2, <1>3, <1>10, PackageFiles, EndOfPackagingFiles
<1>11. ASSUME NEW c \in Cells,
              \/ OpenFile(c) \/ WriteFile(c) \/ FailToWrite(c) \/ WriteNode(c) \/ FailToWriteNode(c)
       PROVE  FilesInv'
  BY <1>2, <1>3, <1>11, OpenFiles, WriteFiles, FailFiles, NodeWrittenFiles
<1>12. CASE UNCHANGED vars
  <2>1. UNCHANGED <<layer, status, phase, at, cache, session, pending, diskVars>>
    BY <1>12 DEF vars
  <2>. QED
    BY <1>2, <2>1, LookFiles
<1>. QED
  BY <1>4, <1>5, <1>6, <1>7, <1>8, <1>9, <1>10, <1>11, <1>12 DEF Next

\* The file of a cell finds every texture and model that it refers to, in the size that the
\* smallest limit of its skins asks for, or the failure was reported: for any layer in which
\* files of one name are the same whichever cell writes them, any resources, files and number
\* of workers, and wherever the program was stopped and started again
\* (CellCompiler::runSynchronousPostProcess(), ResourcePackager).
THEOREM NodesFindTheirFiles == Spec => [](Apart(layer) => NodesHaveTheirResources)
<1>1. OverlayInv /\ (Apart(layer) => FilesInv) => (Apart(layer) => NodesHaveTheirResources)
  BY FilesMeanFound DEF OverlayInv, StepsInv
<1>2. Init => OverlayInv /\ (Apart(layer) => FilesInv)
  BY InitOverlay, InitFiles
<1>3. OverlayInv /\ (Apart(layer) => FilesInv) /\ [Next]_vars
        => OverlayInv' /\ (Apart(layer) => FilesInv)'
  BY NextOverlay, NextFiles
<1>. QED
  BY <1>1, <1>2, <1>3, PTL DEF Spec
=============================================================================
