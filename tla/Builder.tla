------------------------------ MODULE Builder ------------------------------
(***************************************************************************)
(* The sources of a layer: Builder::build( Source ) and the part of        *)
(* build( BuildLayer ) that calls it (src/src/osgGISProjects), with the    *)
(* FeatureStoreCompiler that writes an intermediate source from its        *)
(* parent.                                                                 *)
(*                                                                         *)
(* A source is a file; an intermediate source has a parent and is built    *)
(* again unless its file is newer than its parent's.  The builder is run   *)
(* again and again, by hand, on the files there are; between the runs raw  *)
(* sources are edited and files deleted.  File times are whole seconds, so *)
(* that several steps may fall into one.                                   *)
(***************************************************************************)
EXTENDS Integers, Sequences, FiniteSets, SequencesExt

CONSTANTS
  Sources,       \* the sources of the project
  NoSource,      \* a NULL Source
  Parents,       \* which parent each source may have, one function a project
  Buildable,     \* sources with a graph that is all FeatureFilters
  Layers,        \* the sources of a layer and its slices, in their order
  Versions,      \* what the file of a raw source may hold
  Hollow,        \* those of which no feature gets through the graphs
  Partial,       \* content of a file that was not written to its end
  Absent,        \* no file
  MaxDepth,      \* how deep the recursion goes before the stack is used up
  MaxTime,       \* bound: seconds that pass
  MaxRuns,       \* bound: runs of the builder
  WritesMayFail, \* may the output store fail to take features?
  CrashesAllowed \* may the builder stop in the middle of a run?

ASSUME SourcesAssumption ==
  /\ NoSource \notin Sources
  /\ Parents \subseteq [Sources -> Sources \cup {NoSource}]
  /\ Buildable \subseteq Sources
  /\ Layers \subseteq Seq(Sources)
ASSUME ContentsAssumption ==
  /\ Hollow \subseteq Versions
  /\ Partial \notin Versions /\ Absent \notin Versions \cup {Partial}
ASSUME BoundsAssumption ==
  MaxDepth \in Nat \ {0} /\ MaxTime \in Nat \ {0} /\ MaxRuns \in Nat

VARIABLES
  parent_source,  \* the project
  \* the file system
  clock,          \* the time, in seconds
  content,        \* of the file of each source
  mtime,          \* its st_mtime; 0: no file
  troubled,       \* history: sources whose last compile left no whole file
  \* the builder
  pc,             \* see Positions
  runs,           \* how often it was run
  layer,          \* the sources it is building, and
  done,           \* how many of them it has built
  path            \* the calls of build( Source ) on the stack

fileVars == <<content, mtime, troubled>>
vars == <<parent_source, clock, fileVars, pc, runs, layer, done, path>>

Positions ==
  {"off",        \* not running
   "next",       \* in build( BuildLayer ), between two sources
   "checking",   \* at the head of build( Source ), for the last of path
   "compiling",  \* there, after its parent was built
   "writing",    \* in compile(), after the output store was created
   "returning",  \* it returns true
   "done", "failed",
   "overflow"}   \* the stack is used up

Idle == pc \in {"off", "done", "failed", "overflow"}

Contents == Versions \cup {Partial, Absent}

self == Last(path)
parent == parent_source[self]

isIntermediate(s) == parent_source[s] # NoSource

\* stat() of the file, 0 if there is none
getTimeLastModified(s) == mtime[s]

Init ==
  /\ parent_source \in Parents
  /\ clock = 1
  /\ \E v \in Versions :
       content = [s \in Sources |->
                    IF parent_source[s] = NoSource THEN v ELSE Absent]
  /\ mtime = [s \in Sources |-> IF parent_source[s] = NoSource THEN 1 ELSE 0]
  /\ troubled = {}
  /\ pc = "off" /\ runs = 0 /\ layer = <<>> /\ done = 0 /\ path = <<>>

-----------------------------------------------------------------------------
(***************************************************************************)
(* The user, and time.                                                     *)
(***************************************************************************)
Tick ==
  /\ clock < MaxTime
  /\ clock' = clock + 1
  /\ UNCHANGED <<parent_source, fileVars, pc, runs, layer, done, path>>

\* The file of s is written now.
Writes(s, v) ==
  /\ content' = [content EXCEPT ![s] = v]
  /\ mtime' = [mtime EXCEPT ![s] = clock]

Edit(s) ==
  /\ Idle
  /\ ~isIntermediate(s)
  /\ \E v \in Versions : Writes(s, v)
  /\ pc' = "off"
  /\ UNCHANGED <<parent_source, clock, troubled, runs, layer, done, path>>

Delete(s) ==
  /\ Idle
  /\ content[s] # Absent
  /\ content' = [content EXCEPT ![s] = Absent]
  /\ mtime' = [mtime EXCEPT ![s] = 0]
  /\ troubled' = troubled \ {s}
  /\ pc' = "off"
  /\ UNCHANGED <<parent_source, clock, runs, layer, done, path>>

-----------------------------------------------------------------------------
(***************************************************************************)
(* build( BuildLayer ), as far as its sources go.                          *)
(***************************************************************************)
StartLayer ==
  /\ Idle
  /\ runs < MaxRuns
  /\ runs' = runs + 1
  /\ layer' \in Layers
  /\ done' = 0 /\ path' = <<>>
  /\ pc' = "next"
  /\ UNCHANGED <<parent_source, clock, fileVars>>

NextSource ==
  /\ pc = "next" /\ done < Len(layer)
  /\ path' = <<layer[done + 1]>>
  /\ pc' = "checking"
  /\ UNCHANGED <<parent_source, clock, fileVars, runs, layer, done>>

EndOfSources ==
  /\ pc = "next" /\ done = Len(layer)
  /\ pc' = "done"
  /\ UNCHANGED <<parent_source, clock, fileVars, runs, layer, done, path>>

\* The source is built: is there a feature layer?  What is left of a file that
\* was not written to its end may do, or not.
OpenSource ==
  /\ pc = "returning" /\ Len(path) = 1
  /\ \/ /\ content[self] # Absent
        /\ pc' = "next" /\ done' = done + 1
     \/ /\ content[self] \in {Absent, Partial}
        /\ pc' = "failed" /\ UNCHANGED done
  /\ path' = <<>>
  /\ UNCHANGED <<parent_source, clock, fileVars, runs, layer>>

-----------------------------------------------------------------------------
(***************************************************************************)
(* build( Source ).                                                        *)
(***************************************************************************)
\* Slip: files of the same second are taken for up to date.
UpToDateInSameSecond(s) ==
  getTimeLastModified(parent_source[s]) <= getTimeLastModified(s)

\* "newer than parent"
UpToDate(s) ==
  getTimeLastModified(parent_source[s]) < getTimeLastModified(s)

NeedsBuild(s) == isIntermediate(s) /\ ~UpToDate(s)

BuilderFrame == UNCHANGED <<parent_source, clock, runs, layer, done>>

NoNeed ==
  /\ pc = "checking"
  /\ ~NeedsBuild(self)
  /\ pc' = "returning"
  /\ UNCHANGED <<path, fileVars>>
  /\ BuilderFrame

\* build it's parent first
BuildParent ==
  /\ pc = "checking"
  /\ NeedsBuild(self)
  /\ IF Len(path) < MaxDepth
     THEN path' = Append(path, parent) /\ UNCHANGED pc
     ELSE pc' = "overflow" /\ UNCHANGED path
  /\ UNCHANGED fileVars
  /\ BuilderFrame

\* Slip: the source is compared with its parent again.
ParentBuiltChecksAgain ==
  /\ pc = "returning" /\ Len(path) > 1
  /\ path' = Front(path)
  /\ pc' = "checking"
  /\ UNCHANGED fileVars
  /\ BuilderFrame

\* The call for the parent returns to the one for the source.
ParentBuilt ==
  /\ pc = "returning" /\ Len(path) > 1
  /\ path' = Front(path)
  /\ pc' = "compiling"
  /\ UNCHANGED fileVars
  /\ BuilderFrame

\* No graph, none for a feature store, or no feature layer of the parent: all
\* the calls return false.
Refused ==
  /\ pc = "compiling"
  /\ self \notin Buildable \/ content[parent] \in {Absent, Partial}
  /\ pc' = "failed" /\ path' = <<>>
  /\ UNCHANGED fileVars
  /\ BuilderFrame

CanCompile ==
  /\ pc = "compiling"
  /\ self \in Buildable /\ content[parent] # Absent

\* The output store is created when the first feature comes to be written.
CreateStore ==
  /\ CanCompile
  /\ content[parent] \notin Hollow
  /\ Writes(self, Partial)
  /\ troubled' = troubled \cup {self}
  /\ pc' = "writing"
  /\ UNCHANGED path
  /\ BuilderFrame

\* Slip: the file that there is gets a new time, so as not to be looked at again.
NothingWrittenTouched ==
  /\ CanCompile
  /\ content[parent] \in Hollow \/ WritesMayFail
  /\ mtime' = [mtime EXCEPT ![self] = IF content[self] = Absent THEN 0 ELSE clock]
  /\ pc' = "returning"
  /\ UNCHANGED <<content, troubled, path>>
  /\ BuilderFrame

\* There was nothing to write, or no store to write it to: compile() is OK.
NothingWritten ==
  /\ CanCompile
  /\ content[parent] \in Hollow \/ WritesMayFail
  /\ troubled' = troubled \cup {self}
  /\ pc' = "returning"
  /\ UNCHANGED <<content, mtime, path>>
  /\ BuilderFrame

\* The session of the compile ends, and the store is closed with it.
StoreWritten ==
  /\ pc = "writing"
  /\ Writes(self, content[parent])
  /\ troubled' = troubled \ {self}
  /\ pc' = "returning"
  /\ UNCHANGED path
  /\ BuilderFrame

\* What insertFeature() returns is not looked at: compile() is OK.
StoreIncomplete ==
  /\ WritesMayFail
  /\ pc = "writing"
  /\ Writes(self, Partial)
  /\ pc' = "returning"
  /\ UNCHANGED <<troubled, path>>
  /\ BuilderFrame

Crash ==
  /\ CrashesAllowed
  /\ ~Idle
  /\ pc' = "off" /\ path' = <<>>
  /\ UNCHANGED <<parent_source, clock, fileVars, runs, layer, done>>

BuilderStep ==
  \/ NextSource \/ EndOfSources \/ OpenSource
  \/ NoNeed \/ BuildParent \/ ParentBuilt
  \/ Refused \/ CreateStore \/ NothingWritten \/ StoreWritten
  \/ StoreIncomplete

Next ==
  \/ Tick
  \/ \E s \in Sources : Edit(s) \/ Delete(s)
  \/ StartLayer
  \/ BuilderStep
  \/ Crash

Spec == Init /\ [][Next]_vars

\* The builder goes on; nobody has to run it, and it need not crash.
FairSpec == Spec /\ WF_vars(BuilderStep)

-----------------------------------------------------------------------------
TypeOK ==
  /\ parent_source \in Parents
  /\ clock \in 1..MaxTime
  /\ content \in [Sources -> Contents]
  /\ mtime \in [Sources -> 0..clock]
  /\ \A s \in Sources : mtime[s] = 0 <=> content[s] = Absent
  /\ troubled \subseteq Sources
  /\ pc \in Positions
  /\ runs \in 0..MaxRuns
  /\ layer \in Layers \cup {<<>>} /\ done \in 0..Len(layer)
  /\ path \in Seq(Sources) /\ Len(path) <= MaxDepth

\* s was made from what its parent holds now.
Matches(s) == content[s] = content[parent_source[s]]

(***************************************************************************)
(* What the comparison of file times relies on: an intermediate file that  *)
(* is newer than its parent's was made from what the parent holds now,     *)
(* whatever was edited, deleted, built or cut short, in any run, and       *)
(* however much of it fell into one second.                                *)
(***************************************************************************)
NewerMeansMatching ==
  \A s \in Sources \ troubled :
    /\ isIntermediate(s)
    /\ content[parent_source[s]] # Absent
    /\ mtime[parent_source[s]] < mtime[s]
    => Matches(s)

(***************************************************************************)
(* When build( Source ) returns true, the source was made from what its    *)
(* parent holds then, unless its output could not be written.              *)
(***************************************************************************)
BuiltFromParent ==
  pc = "returning" /\ isIntermediate(self) /\ self \notin troubled =>
    content[parent] = Absent \/ Matches(self)

\* No source is its own ancestor: the k-th parent is none for some k.
Acyclic ==
  LET above[k \in 0..Cardinality(Sources)] ==
        IF k = 0 THEN Sources
        ELSE {parent_source[s] : s \in above[k - 1]} \ {NoSource}
  IN  above[Cardinality(Sources)] = {}

(***************************************************************************)
(* The recursion ends, by itself and not for lack of stack, when no source *)
(* is its own ancestor, whatever the file times are.                       *)
(***************************************************************************)
BuildReturns ==
  Acyclic /\ pc = "checking"
    ~> pc \in {"off", "next", "done", "failed"}

(***************************************************************************)
(* "It will need rebuilding if the parent source has changed", and "build  *)
(* it's parent first": when a run ends with all its sources built and      *)
(* nothing went wrong, they were made from what the sources they derive    *)
(* from, near and far, hold.  The code breaks it: a source that is newer   *)
(* than its parent is left alone though the parent itself is out of date.  *)
(***************************************************************************)
MadeFromCurrentData ==
  pc = "done" /\ troubled = {} /\ Acyclic =>
    LET needed[k \in 0..Cardinality(Sources)] ==
          IF k = 0 THEN Range(layer)
          ELSE needed[k - 1]
                 \cup ({parent_source[s] : s \in needed[k - 1]} \ {NoSource})
        sources == needed[Cardinality(Sources)]
    IN  (\A s \in sources : content[s] # Absent)
          => \A s \in sources : isIntermediate(s) => Matches(s)
=============================================================================
