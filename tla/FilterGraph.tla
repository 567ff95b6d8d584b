---------------------------- MODULE FilterGraph ----------------------------
(***************************************************************************)
(* A filter graph at work: FilterGraph::computeNodes() and                 *)
(* computeFeatureStore() with the chain of FilterStates they drive         *)
(* (src/src/osgGIS).                                                       *)
(*                                                                         *)
(* Features are read one at a time and traverse the chain until a          *)
(* CollectionFilterState holds them up.  At the end of the cursor a        *)
(* checkpoint goes down the chain, and each collection meters its data out *)
(* in batches, by groups; a batch traverses the chain as far as the next   *)
(* collection.  The nested calls are flattened: `at' is the state that is  *)
(* being traversed, `level' the one that the checkpoint has reached.       *)
(*                                                                         *)
(* A feature, fragment or node is known by the source features it is made  *)
(* of.  What filters do to shapes is left out, but for this: they lose     *)
(* some of the source features, and may merge a batch into one element.    *)
(***************************************************************************)
EXTENDS Integers, Sequences, SequencesExt, FiniteSetsExt

CONSTANTS
  NumFeatures,  \* features under the cursor
  Shapeless,    \* those that have no shape data
  NumGroups,    \* groups, which have numbers in the order of their names
  GroupOf,      \* the group that assign() puts a source feature into
  Filters,      \* the filters that graphs are made of
  MaxFilters,   \* bound on the length of a graph
  Modes         \* "nodes": computeNodes(); "store": computeFeatureStore()

Features == 1..NumFeatures
Kinds == {"feature", "fragment", "node", "collection"}

ASSUME FeaturesAssumption ==
  /\ NumFeatures \in Nat /\ MaxFilters \in Nat /\ NumGroups \in Nat
  /\ Shapeless \subseteq Features
  /\ GroupOf \in [Features -> 1..NumGroups]
  /\ Modes \subseteq {"nodes", "store"}
ASSUME FiltersAssumption ==
  \A f \in Filters :
    /\ f.kind \in Kinds
    /\ f.drops \subseteq Features   \* source features that the filter loses
    /\ f.keeps_empty \in BOOLEAN    \* are emptied elements kept?
    /\ f.merges \in BOOLEAN         \* is a batch made into one element?
    /\ f.metering \in Nat           \* of a collection; 0: no limit
    /\ f.grouped \in BOOLEAN        \* does a collection override assign()?
    /\ f.kind = "collection" => f.drops = {}  \* it only holds them up

VARIABLES
  mode, chain,  \* what is computed, and by which filters
  pc,           \* see Positions
  cursor,       \* features read
  level,        \* the state that the checkpoint has reached; 0 before it
  start, at,    \* the states where the traversal began, and where it is
  in,           \* the input of each state, in_* or the collected data
  out_nodes,    \* of NodeFilterStates
  batches,      \* what the collection has still to meter out
  output,       \* the children of the group, or the features in the store
  arrivals      \* how often the NodeFilterState that gives it was traversed:
                \* never, once, or (2) more often

vars == <<mode, chain, pc, cursor, level, start, at, in, out_nodes, batches,
          output, arrivals>>

Positions == {"reading", "traversing", "returning", "checkpoint", "metering",
              "unwinding", "finishing", "done", "crashed", "refused"}

-----------------------------------------------------------------------------
Length == Len(chain)
Kind(k) == chain[k].kind

\* The WriteFeaturesFilter that computeFeatureStore() appends.
Writer == [kind |-> "feature", drops |-> {}, keeps_empty |-> TRUE,
           merges |-> FALSE, metering |-> 0, grouped |-> FALSE]

\* Features are hollow, that is without shape data, if nothing is left in them.
Source(f) ==
  [data |-> "feature", of |-> IF f \in Shapeless THEN <<>> ELSE <<f>>]

\* The elements of a sequence that are in a set, in their order
Only(s, S) ==
  LET kept[n \in 0..Len(s)] ==
        IF n = 0 THEN <<>>
        ELSE IF s[n] \in S THEN Append(kept[n - 1], s[n]) ELSE kept[n - 1]
  IN  kept[Len(s)]

Content(items) == FlattenSeq([i \in DOMAIN items |-> items[i].of])

\* The types of data that a state has a push() for
Accepts(kind) ==
  CASE kind = "feature" -> {"feature"}
    [] kind = "fragment" -> {"feature", "fragment"}
    [] OTHER -> {"feature", "fragment", "node"}

\* What push() keeps of the elements; no push() is called for other types.
Pushed(f, items) ==
  Only(items, {e \in Range(items) : /\ e.data \in Accepts(f.kind)
                                    /\ e.data = "feature" => e.of # <<>>})

\* Filter::process() of a batch
Processed(f, batch) ==
  LET shed == [i \in DOMAIN batch |->
                 [data |-> f.kind,
                  of |-> Only(batch[i].of, Features \ f.drops)]]
      kept == Only(shed, {e \in Range(shed) : f.keeps_empty \/ e.of # <<>>})
  IN  IF f.merges /\ kept # <<>>
      THEN <<[data |-> f.kind, of |-> Content(kept)]>>
      ELSE kept

-----------------------------------------------------------------------------
(***************************************************************************)
(* Batches: meterGroups() in the order of a std::map, meterData() in each. *)
(***************************************************************************)
\* assign(), the empty name if it is not overridden
GroupName(f, e) == IF f.grouped /\ e.of # <<>> THEN GroupOf[e.of[1]] ELSE 0

InGroup(f, items, g) ==
  Only(items, {e \in Range(items) : GroupName(f, e) = g})

Groups(f, items) ==
  Only([n \in 1..(NumGroups + 1) |-> n - 1],
       {GroupName(f, e) : e \in Range(items)})

\* Slip: the last, incomplete batch is left out.
ChunksFull(s, metering) ==
  IF metering = 0 THEN <<s>>
  ELSE [i \in 1..(Len(s) \div metering) |->
          SubSeq(s, 1 + (i - 1) * metering, i * metering)]

Chunks(s, metering) ==
  IF metering = 0 THEN <<s>>
  ELSE [i \in 1..((Len(s) + metering - 1) \div metering) |->
          SubSeq(s, 1 + (i - 1) * metering, Min({i * metering, Len(s)}))]

Metered(f, items) ==
  LET groups == Groups(f, items)
  IN  FlattenSeq([i \in DOMAIN groups |->
                    Chunks(InGroup(f, items, groups[i]), f.metering)])

-----------------------------------------------------------------------------
\* output_state: the last NodeFilterState of the chain, 0 for NULL
OutputState ==
  LET nodes == {k \in 1..Length : Kind(k) = "node"}
  IN  IF nodes = {} THEN 0 ELSE Max(nodes)

\* computeNodes() reads nothing if the first state is a NodeFilterState.
FirstPosition(m, c) ==
  CASE m = "nodes" /\ (c = <<>> \/ c[1].kind = "node") -> "finishing"
    [] m = "store" /\ (c = <<>> \/ \E k \in DOMAIN c : c[k].kind # "feature")
         -> "refused"
    [] OTHER -> "reading"

Graphs == UNION {[1..n -> Filters] : n \in 0..MaxFilters}

Init ==
  \E m \in Modes, c \in Graphs :
    /\ mode = m
    /\ chain = IF m = "store" THEN Append(c, Writer) ELSE c
    /\ pc = FirstPosition(m, c)
    /\ cursor = 0 /\ level = 0 /\ start = 0 /\ at = 0
    /\ in = [k \in 1..Len(chain) |-> <<>>]
    /\ out_nodes = [k \in 1..Len(chain) |-> <<>>]
    /\ batches = <<>> /\ output = <<>> /\ arrivals = 0

-----------------------------------------------------------------------------
(***************************************************************************)
(* The loop over the cursor.                                               *)
(***************************************************************************)
\* A state is given a batch, and traversed.
Feed(k, items) ==
  /\ in' = [in EXCEPT ![k] = @ \o Pushed(chain[k], items)]
  /\ start' = k /\ at' = k
  /\ pc' = "traversing"

ReadFeature ==
  /\ pc = "reading" /\ cursor < NumFeatures
  /\ cursor' = cursor + 1
  /\ Feed(1, <<Source(cursor + 1)>>)
  /\ UNCHANGED <<mode, chain, level, out_nodes, batches, output, arrivals>>

EndOfCursor ==
  /\ pc = "reading" /\ cursor = NumFeatures
  /\ pc' = "checkpoint" /\ level' = 1
  /\ UNCHANGED <<mode, chain, cursor, start, at, in, out_nodes, batches,
                 output, arrivals>>

(***************************************************************************)
(* traverse(), of each type of state.                                      *)
(***************************************************************************)
\* On to the next state with the results, if there are any, or back.
PassOn(out) ==
  IF at < Length /\ out # <<>>
  THEN /\ in' = [in EXCEPT ![at + 1] = @ \o Pushed(chain[at + 1], out)]
       /\ at' = at + 1
       /\ UNCHANGED pc
  ELSE /\ pc' = "returning"
       /\ UNCHANGED <<in, at>>

TraverseFilter ==
  /\ pc = "traversing" /\ Kind(at) \in {"feature", "fragment"}
  /\ PassOn(Processed(chain[at], in[at]))
  /\ output' = IF mode = "store" /\ at = Length
               THEN output \o Processed(chain[at], in[at]) ELSE output
  /\ UNCHANGED <<mode, chain, cursor, level, start, out_nodes, batches,
                 arrivals>>

\* Slip: out_nodes is passed on and kept.
TraverseNodesKept ==
  /\ pc = "traversing" /\ Kind(at) = "node"
  /\ LET out == IF in[at] # <<>> THEN Processed(chain[at], in[at])
                                 ELSE out_nodes[at]
     IN  /\ PassOn(out)
         /\ out_nodes' = [out_nodes EXCEPT ![at] = out]
  /\ arrivals' = IF at = OutputState THEN Min({arrivals + 1, 2}) ELSE arrivals
  /\ UNCHANGED <<mode, chain, cursor, level, start, batches, output>>

\* Without input, out_nodes stays what it was.
TraverseNodes ==
  /\ pc = "traversing" /\ Kind(at) = "node"
  /\ LET out == IF in[at] # <<>> THEN Processed(chain[at], in[at])
                                 ELSE out_nodes[at]
     IN  /\ PassOn(out)
         /\ out_nodes' = [out_nodes EXCEPT ![at] =
                            IF at < Length THEN <<>> ELSE out]
  /\ arrivals' = IF at = OutputState THEN Min({arrivals + 1, 2}) ELSE arrivals
  /\ UNCHANGED <<mode, chain, cursor, level, start, batches, output>>

TraverseCollection ==
  /\ pc = "traversing" /\ Kind(at) = "collection"
  /\ pc' = "returning"
  /\ UNCHANGED <<mode, chain, cursor, level, start, at, in, out_nodes, batches,
                 output, arrivals>>

\* Slip: only the state that was traversed last cleans up.
ClearedLast == [in EXCEPT ![at] = IF Kind(at) = "collection" THEN @ ELSE <<>>]

\* The states on the way back clean up; a collection keeps its data.
Cleared ==
  [k \in 1..Length |->
     IF k \in start..at /\ Kind(k) # "collection" THEN <<>> ELSE in[k]]

Return ==
  /\ pc = "returning"
  /\ in' = Cleared
  /\ pc' = IF level = 0 THEN "reading" ELSE "metering"
  /\ UNCHANGED <<mode, chain, cursor, level, start, at, out_nodes, batches,
                 output, arrivals>>

-----------------------------------------------------------------------------
(***************************************************************************)
(* signalCheckpoint(), of each type of state.                              *)
(***************************************************************************)
\* Is there data of a type that the next state takes?
CanMeter(k) ==
  /\ Kind(k) = "collection" /\ k < Length
  /\ in[k] # <<>> /\ in[k][1].data \in Accepts(Kind(k + 1))

Checkpoint ==
  /\ pc = "checkpoint"
  /\ IF CanMeter(level)
     THEN /\ batches' = Metered(chain[level], in[level])
          /\ pc' = "metering"
          /\ UNCHANGED level
     ELSE /\ pc' = IF level < Length THEN pc ELSE "unwinding"
          /\ level' = level + 1
          /\ UNCHANGED batches
  /\ UNCHANGED <<mode, chain, cursor, start, at, in, out_nodes, output,
                 arrivals>>

MeterBatch ==
  /\ pc = "metering" /\ batches # <<>>
  /\ Feed(level + 1, Head(batches))
  /\ batches' = Tail(batches)
  /\ UNCHANGED <<mode, chain, cursor, level, out_nodes, output, arrivals>>

\* Slip: the loop is left when one batch is still to come, or never.
MeteringEndsBefore ==
  /\ pc = "metering" /\ Len(batches) = 1
  /\ pc' = "checkpoint" /\ level' = level + 1
  /\ batches' = <<>>
  /\ UNCHANGED <<mode, chain, cursor, start, at, in, out_nodes, output,
                 arrivals>>

\* next->signalCheckpoint()
MeteringEnds ==
  /\ pc = "metering" /\ batches = <<>>
  /\ pc' = "checkpoint" /\ level' = level + 1
  /\ UNCHANGED <<mode, chain, cursor, start, at, in, out_nodes, batches,
                 output, arrivals>>

\* The calls return, and each collection clears its data.
Unwind ==
  /\ pc = "unwinding"
  /\ in' = [k \in 1..Length |-> IF Kind(k) = "collection" THEN <<>> ELSE in[k]]
  /\ pc' = "finishing"
  /\ UNCHANGED <<mode, chain, cursor, level, start, at, out_nodes, batches,
                 output, arrivals>>

\* No status is ever STATUS_ERROR, so the result is read off output_state,
\* which may be NULL.
Finish ==
  /\ pc = "finishing"
  /\ IF mode = "nodes" /\ OutputState = 0
     THEN pc' = "crashed" /\ UNCHANGED output
     ELSE /\ pc' = "done"
          /\ output' = IF mode = "nodes" THEN out_nodes[OutputState] ELSE output
  /\ UNCHANGED <<mode, chain, cursor, level, start, at, in, out_nodes, batches,
                 arrivals>>

Next ==
  \/ ReadFeature \/ EndOfCursor
  \/ TraverseFilter \/ TraverseNodes \/ TraverseCollection \/ Return
  \/ Checkpoint \/ MeterBatch \/ MeteringEnds \/ Unwind \/ Finish

Spec == Init /\ [][Next]_vars

\* The graph runs in one thread, which goes on.
FairSpec == Spec /\ WF_vars(Next)

-----------------------------------------------------------------------------
Items == [data : {"feature", "fragment", "node"}, of : Seq(Features)]

TypeOK ==
  /\ mode \in Modes
  /\ Length \in 0..(MaxFilters + 1)
  /\ \A k \in 1..Length : chain[k] \in Filters \cup {Writer}
  /\ pc \in Positions
  /\ cursor \in 0..NumFeatures /\ arrivals \in 0..2
  /\ level \in 0..(Length + 1) /\ start \in 0..Length /\ at \in start..Length
  /\ in \in [1..Length -> Seq(Items)] /\ out_nodes \in [1..Length -> Seq(Items)]
  /\ output \in Seq(Items) /\ batches \in Seq(Seq(Items))

(***************************************************************************)
(* The chain, state by state: each makes a sequence of batches out of the  *)
(* batches it is given, and the last batch to reach the last state is the  *)
(* output.  This is what the chain means, whatever the order of the calls. *)
(***************************************************************************)
\* The batches that arrive at a state, of those it is given; empty ones do not.
Arriving(f, given) ==
  LET pushed == [i \in DOMAIN given |-> Pushed(f, given[i])]
  IN  Only(pushed, Range(pushed) \ {<<>>})

\* What a filter makes of all the batches that arrive at its state
Results(f, arrived) ==
  LET collected == FlattenSeq(arrived)
  IN  IF f.kind # "collection"
      THEN [i \in DOMAIN arrived |-> Processed(f, arrived[i])]
      ELSE IF collected = <<>> THEN <<>> ELSE Metered(f, collected)

Singles == [f \in 1..NumFeatures |-> <<Source(f)>>]

BatchesInto(c) ==
  LET stage[k \in 1..Len(c)] ==
        Arriving(c[k], IF k = 1 THEN Singles ELSE Results(c[k - 1], stage[k - 1]))
  IN  stage

Meaning(m, c) ==
  LET arriving == BatchesInto(c)[Len(c)]
  IN  IF m = "store" THEN FlattenSeq(arriving)
      ELSE IF c[1].kind = "node" \/ Last(c).kind # "node" \/ arriving = <<>>
      THEN <<>>
      ELSE Processed(Last(c), Last(arriving))

(***************************************************************************)
(* Depth first, with state left between the calls, the chain computes what *)
(* it means: nothing is metered twice, left over from an earlier batch or  *)
(* forgotten on the way.                                                   *)
(***************************************************************************)
ComputesMeaning == pc = "done" => output = Meaning(mode, chain)

\* Each state takes what the one before it gives, and nodes come out last.
Fits ==
  /\ \A k \in 1..(Length - 1) :
       CASE Kind(k) = "feature" -> TRUE
         [] Kind(k) = "fragment" -> Kind(k + 1) # "feature"
         [] Kind(k) = "node" -> Kind(k + 1) \in {"node", "collection"}
         [] Kind(k) = "collection" ->
              LET before == {j \in 1..k : Kind(j) # "collection"}
              IN  IF before = {} THEN TRUE
                  ELSE Kind(Max(before)) \in Accepts(Kind(k + 1))
  /\ mode = "nodes" => OutputState = Length /\ Kind(1) # "node"

Survivors == (Features \ Shapeless) \ UNION {chain[k].drops : k \in 1..Length}

(***************************************************************************)
(* Every feature that has shape data and that no filter drops is in the    *)
(* output, once, if the last NodeFilterState was traversed once only, or   *)
(* if the output is a feature store.  Without groups it is in the order of *)
(* the cursor.                                                             *)
(***************************************************************************)
OutputIsWhole ==
  pc = "done" /\ Fits /\ (mode = "store" \/ arrivals <= 1) =>
    LET found == Content(output)
    IN  /\ Range(found) = Survivors
        /\ IsInjective(found)
        /\ (\A k \in 1..Length : ~chain[k].grouped)
             => \A i, j \in DOMAIN found : i < j => found[i] < found[j]

(***************************************************************************)
(* Filters see one element at a time before the checkpoint, and after it   *)
(* no more than the collection's metering, all of one group: batches do    *)
(* not pile up in a state from one traversal to the next.                  *)
(***************************************************************************)
BatchesKeptApart ==
  pc = "traversing" /\ Kind(at) # "collection" =>
    /\ level = 0 => Len(in[at]) <= 1
    /\ level > 0 /\ at = start =>
         LET f == chain[level]
         IN  /\ f.metering > 0 => Len(in[at]) <= f.metering
             /\ \A e1, e2 \in Range(in[at]) : GroupName(f, e1) = GroupName(f, e2)

(***************************************************************************)
(* The graph comes to an end, on any chain.                                *)
(***************************************************************************)
Ends == <>(pc \in {"done", "crashed", "refused"})

(***************************************************************************)
(* The group "upon success, contains resulting nodes of compiled scene as  *)
(* its children": however the data was metered, what survives is there.    *)
(***************************************************************************)
NoNodeLost == pc = "done" /\ Fits => Survivors \subseteq Range(Content(output))
=============================================================================
