------------------------------ MODULE FeatureLayer ------------------------------
(***************************************************************************)
(* A feature store that one program writes (WriteFeaturesFilter.cpp) and    *)
(* other programs read through a FeatureLayer: the spatial index that is    *)
(* made on first use by whatever thread comes first (FeatureLayer.cpp),     *)
(* built or loaded from the work directory (RTreeSpatialIndex.cpp), and the *)
(* cursors over what a query finds (FeatureCursor.cpp).                     *)
(*                                                                         *)
(* A store is only written while no program reads it.  One SRS is used      *)
(* throughout, so its transforms are left out.                              *)
(***************************************************************************)
EXTENDS FeatureStore, RTree, FiniteSetsExt

CONSTANTS
    Stores,         \* feature stores, whose index files have the same name
    Contents,       \* per store the sequences of features it may be written with
    Queries,        \* extents and points that are asked for
    Threads, Null,
    prefetch_size,
    HasWorkDirectory,
    GRAIN,          \* no coordinate is printed further off than this
    MaxClock, MaxWrites, MaxAsks    \* bounds

ASSUME PrefetchAssumption == prefetch_size \in Nat \ {0}
ASSUME GrainAssumption == GRAIN \in Nat
ASSUME QueriesAssumption == \A q \in Queries : q \in GeoExtents
ASSUME NullAssumption == Null \notin Threads \cup Stores
ASSUME ContentsAssumption ==
    \A s \in Stores : \A features \in Contents[s] :
        features \in Seq(ToSet(features)) /\ \A f \in ToSet(features) : IsFeature(f)

VARIABLES
    clock,          \* the second that st_mtime is counted in
    store,          \* per store: layer, rows, mtime, and (auxiliary) writes, the
                    \* times it was written, and given, the features it was given
    file,           \* the saved index in the work directory, or Null
    prog,           \* the program that runs: [mode, store, todo, mtime]
    index,          \* FeatureLayer::index of that program: Null, or [id, tree, extent, of],
                    \* of (auxiliary) being Null when it came from a torn file
    lock,           \* the owner of the registry's global mutex, or Null
    thread,         \* per thread: [pc, query, index, oids]
    cursor,         \* per thread: its FeatureCursor
    asked,
    crashed

vars == <<clock, store, file, prog, index, lock, thread, cursor, asked, crashed>>

Off == [mode |-> "off", store |-> Null, todo |-> <<>>, mtime |-> 0]
Idle == [pc |-> "idle", query |-> Null, index |-> Null]

\* What the saved index and a loaded one hold: which writing of which store.
Of(s) == [store |-> s, writes |-> store[s].writes]

NoLayer == [reported |-> "none", fields |-> <<>>]

-------------------------------------------------------------------------------
(* Reading: the cursor.  An OID is the place of a row.                     *)

GetFeature(s, oid) == LoadFeature(store[s].layer, store[s].rows[oid])

\* A feature is read, unless the store has none of that number, and is tested on
\* its shapes if that is asked for.
Matches(c, oid) ==
    /\ oid \in DOMAIN store[prog.store].rows
    /\ c.match_exactly => Meets(GetFeature(prog.store, oid), c.search_extent)

\* Reads on until the queue is full or the features are used up.
Fetch(c) ==
    IF Len(c.queue) < prefetch_size /\ c.iter < Len(c.oids)
    THEN [c EXCEPT !.iter = @ + 1,
                   !.queue = IF Matches(c, c.oids[c.iter + 1])
                             THEN Append(@, c.oids[c.iter + 1]) ELSE @]
    ELSE c

Prefetch(c) ==
    IF ~c.has_store \/ Len(c.queue) > 1 THEN c
    ELSE FoldLeft(LAMBDA d, oid : Fetch(d), c, c.oids)

NextFeature(c) ==
    Prefetch([c EXCEPT !.at_bof = FALSE,
                       !.last = IF c.queue = <<>> THEN Null ELSE Head(c.queue),
                       !.queue = IF c.queue = <<>> THEN @ ELSE Tail(@)])

\* A mutant that keeps what was read ahead.
ResetCursorKept(c) ==
    IF c.at_bof THEN c
    ELSE [Prefetch([c EXCEPT !.iter = 0, !.last = Null]) EXCEPT !.at_bof = TRUE]

ResetCursor(c) ==
    IF c.at_bof THEN c
    ELSE [Prefetch([c EXCEPT !.iter = 0, !.queue = <<>>, !.last = Null]) EXCEPT !.at_bof = TRUE]

NoCursor == [oids |-> <<>>, has_store |-> FALSE, search_extent |-> Invalid, match_exactly |-> FALSE,
             iter |-> 0, queue |-> <<>>, last |-> Null, at_bof |-> FALSE]

NewCursor(oids, extent, exact) ==
    ResetCursor([NoCursor EXCEPT !.oids = oids, !.has_store = TRUE,
                                 !.search_extent = extent, !.match_exactly = exact])

HasNext(c) == c.has_store /\ c.queue # <<>>

-------------------------------------------------------------------------------
(* The index.                                                              *)

AllRows(s) == [i \in DOMAIN store[s].rows |-> i]

\* A mutant that counts the features from zero.
BuildTreeFromZero(s) ==
    FoldLeft(LAMBDA b, oid :
                 LET e == Extent(GetFeature(s, oid))
                 IN IF ~e.is_valid \/ e.is_infinite THEN b
                    ELSE [tree |-> Insert(b.tree, e, oid - 1),
                          extent |-> IF b.extent.is_valid THEN ExpandToInclude(b.extent, e) ELSE e],
             [tree |-> EmptyTree, extent |-> Invalid], AllRows(s))

\* Every feature that has an extent; the extent of the index grows with it.
BuildTree(s) ==
    FoldLeft(LAMBDA b, oid :
                 LET e == Extent(GetFeature(s, oid))
                 IN IF ~e.is_valid \/ e.is_infinite THEN b
                    ELSE [tree |-> Insert(b.tree, e, oid),
                          extent |-> IF b.extent.is_valid THEN ExpandToInclude(b.extent, e) ELSE e],
             [tree |-> EmptyTree, extent |-> Invalid], AllRows(s))

\* A mutant that takes one of the same second.
CanLoadSameSecond == HasWorkDirectory /\ file # Null /\ file.mtime >= prog.mtime /\ file.text # Null

\* The saved index is taken if it is newer than the store was when it was opened,
\* unless its first line is missing.
CanLoad == HasWorkDirectory /\ file # Null /\ file.mtime > prog.mtime /\ file.text # Null

SimpleIndexFinds(s, e) ==
    Selected(AllRows(s), {oid \in DOMAIN store[s].rows : Intersects(Extent(GetFeature(s, oid)), e)})

-------------------------------------------------------------------------------
Init ==
    /\ clock = 1
    /\ store = [s \in Stores |-> [layer |-> NoLayer, rows |-> <<>>, mtime |-> 0, writes |-> 0, given |-> <<>>]]
    /\ file = Null
    /\ prog = Off
    /\ index = Null
    /\ lock = Null
    /\ thread = [t \in Threads |-> Idle]
    /\ cursor = [t \in Threads |-> NoCursor]
    /\ asked = 0
    /\ crashed = FALSE

Tick == clock < MaxClock /\ clock' = clock + 1
        /\ UNCHANGED <<store, file, prog, index, lock, thread, cursor, asked, crashed>>

(* A program that writes the store anew, feature by feature.               *)

Writings == MapThenSumSet(LAMBDA s : store[s].writes, Stores)

StartWriting(s, features) ==
    /\ prog = Off /\ ~crashed
    /\ Writings < MaxWrites
    /\ prog' = [Off EXCEPT !.mode = "write", !.store = s, !.todo = features]
    /\ store' = [store EXCEPT ![s].layer = NoLayer, ![s].rows = <<>>, ![s].writes = @ + 1,
                              ![s].mtime = clock, ![s].given = <<>>]
    /\ UNCHANGED <<clock, file, index, lock, thread, cursor, asked, crashed>>

\* WriteFeaturesFilter::process(): the first feature with shapes makes the store.
WriteFeature ==
    /\ prog.mode = "write" /\ prog.todo # <<>>
    /\ LET s == prog.store
           f == Head(prog.todo)
           layer == IF store[s].layer = NoLayer THEN CreateLayer(f) ELSE store[s].layer
       IN store' = IF f.shapes = <<>> THEN store
                   ELSE [store EXCEPT ![s].layer = layer,
                                      ![s].rows = Append(@, InsertFeature(layer, f)),
                                      ![s].given = Append(@, f)]
    /\ prog' = [prog EXCEPT !.todo = Tail(@)]
    /\ UNCHANGED <<clock, file, index, lock, thread, cursor, asked, crashed>>

CloseStore ==
    /\ prog.mode = "write" /\ prog.todo = <<>>
    /\ store' = [store EXCEPT ![prog.store].mtime = clock]
    /\ prog' = Off
    /\ UNCHANGED <<clock, file, index, lock, thread, cursor, asked, crashed>>

(* A program that reads it.                                                *)

StartReading(s) ==
    /\ prog = Off /\ ~crashed
    /\ store[s].writes > 0
    /\ prog' = [Off EXCEPT !.mode = "read", !.store = s, !.mtime = store[s].mtime]
    /\ asked' = 0
    /\ UNCHANGED <<clock, store, file, index, lock, thread, cursor, crashed>>

Step(t, pc) == thread' = [thread EXCEPT ![t].pc = pc]

\* getCursor(): everything is read without the index.  A point is looked up as
\* an extent, with an exact match.
Ask(t, q) ==
    /\ prog.mode = "read" /\ ~crashed
    /\ thread[t].pc = "idle" /\ asked < MaxAsks
    /\ asked' = asked + 1
    /\ IF q.is_infinite
       THEN /\ cursor' = [cursor EXCEPT ![t] = NewCursor(AllRows(prog.store), Infinite, FALSE)]
            /\ thread' = [thread EXCEPT ![t] = [Idle EXCEPT !.pc = "read", !.query = q]]
       ELSE /\ thread' = [thread EXCEPT ![t] = [Idle EXCEPT !.pc = "assert", !.query = q]]
            /\ UNCHANGED cursor
    /\ UNCHANGED <<clock, store, file, prog, index, lock, crashed>>

\* assertSpatialIndex(): the test is outside the lock and not made again inside.
AssertIndex(t) ==
    /\ ~crashed
    /\ \/ /\ thread[t].pc = "assert" /\ index # Null
          /\ Step(t, "use") /\ UNCHANGED lock
       \/ /\ thread[t].pc = "assert" /\ index = Null
          /\ Step(t, "lock") /\ UNCHANGED lock
       \/ /\ thread[t].pc = "lock" /\ lock = Null
          /\ Step(t, "make") /\ lock' = t
    /\ UNCHANGED <<clock, store, file, prog, index, cursor, asked, crashed>>

Made(t, made, of, pc, built) ==
    thread' = [thread EXCEPT ![t].pc = pc,
                             ![t].index = [id |-> t, tree |-> made.tree, extent |-> made.extent, of |-> of,
                                           built |-> built]]

LoadIndex(t) ==
    /\ thread[t].pc = "make" /\ ~crashed
    /\ CanLoad
    /\ Made(t, [tree |-> ReadFrom(file.text), extent |-> Reread(file.text.extent)],
            IF file.torn THEN Null ELSE file.of, "install", FALSE)
    /\ UNCHANGED <<clock, store, file, prog, index, lock, cursor, asked, crashed>>

BuildIndex(t) ==
    /\ thread[t].pc = "make" /\ ~crashed
    /\ ~CanLoad
    /\ Made(t, BuildTree(prog.store), Of(prog.store), IF HasWorkDirectory THEN "save" ELSE "install", TRUE)
    /\ UNCHANGED <<clock, store, file, prog, index, lock, cursor, asked, crashed>>

SaveIndex(t) ==
    /\ thread[t].pc = "save" /\ ~crashed
    /\ file' = [mtime |-> clock, of |-> thread[t].index.of, torn |-> FALSE,
                text |-> WriteTo(thread[t].index.tree, thread[t].index.extent)]
    /\ Step(t, "install")
    /\ UNCHANGED <<clock, store, prog, index, lock, cursor, asked, crashed>>

\* The index that was there before goes away, in the hands of whoever uses it.
InstallIndex(t) ==
    /\ thread[t].pc = "install" /\ ~crashed
    /\ index' = thread[t].index
    /\ lock' = Null
    /\ thread' = [thread EXCEPT ![t].pc = "use", ![t].index = Null]
    /\ UNCHANGED <<clock, store, file, prog, cursor, asked, crashed>>

EnterIndex(t) ==
    /\ thread[t].pc = "use" /\ ~crashed
    /\ thread' = [thread EXCEPT ![t].pc = "find", ![t].index = index]
    /\ UNCHANGED <<clock, store, file, prog, index, lock, cursor, asked, crashed>>

Freed(t) == thread[t].index # index

FindFeatures(t) ==
    /\ thread[t].pc = "find" /\ ~crashed
    /\ IsWhole(thread[t].index.tree)
    /\ LET q == thread[t].query
       IN cursor' = [cursor EXCEPT ![t] = NewCursor(Find(thread[t].index.tree, q), q, IsPoint(q))]
    /\ thread' = [thread EXCEPT ![t].pc = "read"]
    /\ UNCHANGED <<clock, store, file, prog, index, lock, asked, crashed>>

\* A null child, or an index that was freed in the meantime: its memory may
\* still be what it was, and then the query goes on as above.
FindCrashes(t) ==
    /\ thread[t].pc = "find" /\ ~crashed
    /\ Freed(t) \/ ~IsWhole(thread[t].index.tree)
    /\ crashed' = TRUE
    /\ UNCHANGED <<clock, store, file, prog, index, lock, thread, cursor, asked>>

ReadNext(t) ==
    /\ thread[t].pc = "read" /\ ~crashed
    /\ cursor' = [cursor EXCEPT ![t] = NextFeature(@)]
    /\ UNCHANGED <<clock, store, file, prog, index, lock, thread, asked, crashed>>

ReadAgain(t) ==
    /\ thread[t].pc = "read" /\ ~crashed
    /\ cursor' = [cursor EXCEPT ![t] = ResetCursor(@)]
    /\ UNCHANGED <<clock, store, file, prog, index, lock, thread, asked, crashed>>

EndReading(t) ==
    /\ thread[t].pc = "read" /\ ~crashed /\ ~HasNext(cursor[t])
    /\ thread' = [thread EXCEPT ![t] = Idle]
    /\ cursor' = [cursor EXCEPT ![t] = NoCursor]
    /\ UNCHANGED <<clock, store, file, prog, index, lock, asked, crashed>>

StopProgram ==
    /\ prog.mode = "read"
    /\ crashed \/ \A t \in Threads : thread[t].pc = "idle"
    /\ prog' = Off /\ index' = Null /\ lock' = Null /\ crashed' = FALSE
    /\ thread' = [t \in Threads |-> Idle]
    /\ cursor' = [t \in Threads |-> NoCursor]
    /\ UNCHANGED <<clock, store, file, asked>>

\* What is left of a text: std::endl flushes line by line, so whole lines are
\* there, or the first only, or the file is empty.
TornTexts(text) ==
    LET Cut(k) == [text EXCEPT !.lines = SubSeq(@, 1, k)]
    IN {Cut(k) : k \in 0..(Len(text.lines) - 1)} \cup {Null, [Cut(0) EXCEPT !.root_id = 1]}

\* The program is killed while it saves the index.
KilledWhileSaving(t) ==
    /\ thread[t].pc = "save" /\ ~crashed
    /\ \E text \in TornTexts(WriteTo(thread[t].index.tree, thread[t].index.extent)) :
          file' = [mtime |-> clock, of |-> thread[t].index.of, torn |-> TRUE, text |-> text]
    /\ crashed' = TRUE
    /\ UNCHANGED <<clock, store, prog, index, lock, thread, cursor, asked>>

ThreadStep(t) ==
    \/ \E q \in Queries : Ask(t, q)
    \/ AssertIndex(t) \/ LoadIndex(t) \/ BuildIndex(t) \/ SaveIndex(t) \/ InstallIndex(t)
    \/ EnterIndex(t) \/ FindFeatures(t) \/ FindCrashes(t)
    \/ ReadNext(t) \/ ReadAgain(t) \/ EndReading(t)
    \/ KilledWhileSaving(t)

Next ==
    \/ Tick
    \/ \E s \in Stores : StartReading(s) \/ \E features \in Contents[s] : StartWriting(s, features)
    \/ WriteFeature \/ CloseStore \/ StopProgram
    \/ \E t \in Threads : ThreadStep(t)

Spec == Init /\ [][Next]_vars

-------------------------------------------------------------------------------
(* Properties.                                                             *)

TypeOK ==
    /\ clock \in 1..MaxClock /\ asked \in 0..MaxAsks /\ crashed \in BOOLEAN
    /\ prog.mode \in {"off", "write", "read"}
    /\ prog.store \in Stores \cup {Null}
    /\ lock \in Threads \cup {Null}
    /\ \A t \in Threads : thread[t].pc \in
          {"idle", "assert", "lock", "make", "save", "install", "use", "find", "read"}
    /\ \A s \in Stores : store[s].writes \in 0..MaxWrites
    /\ \A t \in Threads : LET c == cursor[t] IN
          c.iter \in 0..Len(c.oids) /\ Len(c.queue) <= prefetch_size /\ c.last \in {Null} \cup ToSet(c.oids)

(* The times of last modification keep a saved index and its store together, *)
(* through any number of programs that write the one or the other within one *)
(* second or many: no program uses an index of what its store held before    *)
(* (RTreeSpatialIndex.cpp:80-83).                                            *)
IndexFits ==
    /\ file # Null /\ file.mtime > store[file.of.store].mtime => file.of = Of(file.of.store)
    /\ \A x \in {index} \cup {thread[t].index : t \in Threads} :
          x # Null /\ x.of # Null /\ x.of.store = prog.store => x.of = Of(prog.store)

Fits(t) == thread[t].index.of # Null /\ thread[t].index.of.store = prog.store

(* A query gives every feature once whose extent meets it and no other, as   *)
(* the index without a tree does (SimpleSpatialIndex.cpp), whichever thread  *)
(* made the index and whether it was built or loaded, up to the margin that  *)
(* points are given and the precision of the saved coordinates.              *)
QueriesExact ==
    \A t \in Threads : thread[t].pc \in {"find", "read"} /\ thread[t].index # Null /\ Fits(t) =>
        /\ IsWhole(thread[t].index.tree)
        /\ thread[t].pc = "read" =>
              LET q == thread[t].query
                  oids == cursor[t].oids
                  Near(d) == {oid \in DOMAIN store[prog.store].rows :
                                Intersects(Expand(Extent(GetFeature(prog.store, oid)), d), q)}
              IN /\ Cardinality(ToSet(oids)) = Len(oids)
                 /\ Near(-GRAIN) \subseteq ToSet(oids)
                 /\ ToSet(oids) \subseteq Near(MARGIN + GRAIN)
                 /\ thread[t].index.built => ToSet(SimpleIndexFinds(prog.store, q)) \subseteq ToSet(oids)

(* What is read from a store is what was written to it, in the same order:   *)
(* of all features that have the type and the attributes of the first one,   *)
(* of a bool only its name, of what is no polygon only one shape, of a part  *)
(* of points only one point, and of a shape that it has a part               *)
(* (OGR_FeatureStore.cpp:403-517, OGR_Feature.cpp:88-303).                   *)
Keeps(f, first) ==
    /\ f.type = first.type /\ DOMAIN f.attrs = DOMAIN first.attrs
    /\ f.type = "polygon" \/ Len(f.shapes) = 1
    /\ \A shape \in ToSet(f.shapes) :
          shape # <<>> /\ (f.type = "point" => \A part \in ToSet(shape) : Len(part) = 1)
    /\ \A n \in DOMAIN f.attrs : f.attrs[n].type # "bool" /\ f.attrs[n].type = first.attrs[n].type

WrittenReadBack ==
    \A s \in Stores : LET given == store[s].given IN
        /\ Len(store[s].rows) = Len(given)
        /\ \A i \in DOMAIN given : Keeps(given[i], given[1]) => GetFeature(s, i) = given[i]

(* Reading ahead in batches, filtering while it does and starting over does  *)
(* not show: a cursor is the plain sequence of the features that match       *)
(* (FeatureCursor.cpp:75-140).                                               *)
Matching(c, upto) == Selected(SubSeq(c.oids, 1, upto), {oid \in ToSet(c.oids) : Matches(c, oid)})

Items(c) == IF c.has_store THEN Matching(c, Len(c.oids)) ELSE <<>>

Sequence(t) == INSTANCE FeatureSequence WITH
    items <- Items(cursor[t]),
    given <- Len(Matching(cursor[t], cursor[t].iter)) - Len(cursor[t].queue),
    last <- cursor[t].last

CursorsAreSequences ==
    /\ \A t \in Threads : Sequence(t)!Init
    /\ [][\A t \in Threads : [Sequence(t)!Next]_(Sequence(t)!vars)]_vars
================================================================================
