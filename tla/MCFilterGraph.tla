--------------------------- MODULE MCFilterGraph ---------------------------
(* Filters for FilterGraph that a .cfg cannot write. *)
EXTENDS FilterGraph

Plain(kind) == [kind |-> kind, drops |-> {}, keeps_empty |-> FALSE,
                merges |-> FALSE, metering |-> 0, grouped |-> FALSE]

Collect(metering, grouped) ==
  [Plain("collection") EXCEPT !.metering = metering, !.grouped = grouped]

\* A filter that empties the third feature, one that merges a batch into a
\* fragment, one node for each element, and two ways to collect.
MCFilters ==
  {[Plain("feature") EXCEPT !.drops = {3}, !.keeps_empty = TRUE],
   [Plain("fragment") EXCEPT !.merges = TRUE],
   Plain("node"),
   Collect(0, FALSE), Collect(2, TRUE)}

\* Features of two groups, the second in the alphabet coming first.
MCGroupOf == <<2, 1, 2, 2, 1>>

\* Collect, meter out, make nodes.
MCMetering == {Plain("node"), Collect(1, FALSE)}
=============================================================================
