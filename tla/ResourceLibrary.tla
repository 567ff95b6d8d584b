--------------------------- MODULE ResourceLibrary ---------------------------
(***************************************************************************)
(* The resources of a compilation and the session that owns them.  Worker   *)
(* threads share both; every operation holds the mutex of the session from  *)
(* its first access to its last, so each is part of one step of the module  *)
(* that uses it.                                                            *)
(*                                                                         *)
(* A resource is a record with its class, name, uri and tags; a skin also   *)
(* has its range of heights and the limit of its texture.                   *)
(***************************************************************************)
EXTENDS Naturals, Sequences, FiniteSets, SequencesExt

Lists == [SkinResource |-> "skins", ModelResource |-> "models", RasterResource |-> "rasters",
          FeatureLayerResource |-> "feature_layers", SRSResource |-> "srs_list", PathResource |-> "paths"]

NoResource == [class |-> "none", name |-> "", uri |-> ""]

NewLibrary == [list \in {Lists[c] : c \in DOMAIN Lists} |-> <<>>]

\* A resource of a class that has no list is not kept.
addResource(lib, resource) ==
    IF resource.class \in DOMAIN Lists
    THEN [lib EXCEPT ![Lists[resource.class]] = Append(@, resource)] ELSE lib

\* The first one with the name.
FirstNamed(list, name) ==
    IF \E r \in ToSet(list) : r.name = name
    THEN list[SelectInSeq(list, LAMBDA r : r.name = name)] ELSE NoResource

getSkin(lib, name) == FirstNamed(lib.skins, name)
getModel(lib, name) == FirstNamed(lib.models, name)
getRaster(lib, name) == FirstNamed(lib.rasters, name)

-----------------------------------------------------------------------------
\* A query gives what a skin must have; an empty set of heights or tags asks for nothing.
Fits(skin, q) ==
    /\ \A h \in q.height : skin.min_height <= h /\ h < skin.max_height
    /\ \A h \in q.min_height : h <= skin.max_height
    /\ \A h \in q.max_height : h > skin.min_height
    /\ \A r \in q.repeats : r = skin.repeats
    /\ q.tags \subseteq skin.tags

getSkins(lib, q) == SelectSeq(lib.skins, LAMBDA skin : Fits(skin, q))

-----------------------------------------------------------------------------
(* The session. *)

NewSession == [resources |-> NewLibrary, used |-> <<>>]

markResourceUsed(session, r) ==
    [session EXCEPT !.used = IF r \in ToSet(@) THEN @ ELSE Append(@, r)]
=============================================================================
