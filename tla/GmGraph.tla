------------------------------ MODULE GmGraph ------------------------------
(***************************************************************************)
(* The graph object of src/gm_graph: the flexible form that nodes and edges*)
(* are added to, the compact form (CSR) that freeze makes of it and that   *)
(* the algorithms read, its sorting, its reverse edges, and its way through*)
(* a binary file.  One step is one call of the library by one thread; the  *)
(* threads inside make_reverse_edges show in the order of the edges.       *)
(***************************************************************************)
EXTENDS Integers, Sequences, FiniteSets, SequencesExt

CONSTANTS
  MaxNodes, MaxEdges,   \* bounds on what is added by calls
  Files,                \* the graphs in files: [begin, node_idx], not always sorted
  INSERTION,            \* sort: at most so many elements by insertion, 16 in the code
  LINEAR,               \* LINEAR_SEARCH_THRESHOLD, 16 in the code
  NULL                  \* no array; also NIL_EDGE

VARIABLES
  g,       \* the members of gm_graph
  ends,    \* history: the ends of each edge, by edge ID + 1
  stale    \* history: the flags set for a graph that has been cleared since

vars == <<g, ends, stale>>

NoArrays == [begin |-> NULL, node_idx |-> NULL, node_idx_src |-> NULL,
             r_begin |-> NULL, r_node_idx |-> NULL, r_node_idx_src |-> NULL,
             e_idx2id |-> NULL, e_id2idx |-> NULL, e_idx2idx |-> NULL, e_rev2idx |-> NULL]

\* flexible[v + 1]: the neighbours of v, with the ID of the edge
gm_graph == [flexible |-> <<>>, nodes |-> 0, edges |-> 0,
             frozen |-> FALSE, sorted |-> FALSE, reverse |-> FALSE] @@ NoArrays

Nodes(s)     == 0 .. s.nodes - 1
Index(s)     == 0 .. s.edges - 1
Bucket(b, v) == b[v] .. b[v + 1] - 1
NodeSeq(s)   == [i \in 1 .. s.nodes |-> i - 1]
Prefix(n, size) == [v \in 0 .. n |-> FoldLeft(LAMBDA a, u : a + size[u - 1], 0, [i \in 1 .. v |-> i])]
SourceOf(b, n, k)  == CHOOSE v \in 0 .. n - 1 : k \in Bucket(b, v)

get_edge_id(s, k) == IF s.e_idx2id = NULL THEN k ELSE s.e_idx2id[k]

-----------------------------------------------------------------------------
(* swap, sort: rows [dest, aux, aux2] are the same places of three arrays  *)

Bugswap(a, i, j) == [a EXCEPT ![i].dest = a[j].dest, ![j].dest = a[i].dest]
swap(a, i, j)    == [a EXCEPT ![i] = a[j], ![j] = a[i]]

RECURSIVE Sift(_, _, _)
Sift(a, lo, j) ==
  IF j < lo \/ a[j].dest <= a[j + 1].dest THEN a ELSE Sift(swap(a, j, j + 1), lo, j - 1)

Partition(a, lo, hi) ==
  LET p     == (hi - lo - 1) \div 2 + lo
      b     == swap(a, p, hi - 1)
      Up(c, i) == IF c.a[i].dest < a[p].dest THEN [a |-> swap(c.a, c.store, i), store |-> c.store + 1] ELSE c
      c     == FoldLeft(Up, [a |-> b, store |-> lo], [i \in 1 .. hi - lo |-> lo + i - 1])
  IN  [c EXCEPT !.a = swap(c.a, c.store, hi - 1)]

RECURSIVE sort(_, _, _)
sort(a, lo, hi) ==
  IF hi - lo <= INSERTION
  THEN FoldLeft(LAMBDA b, i : Sift(b, lo, i - 1), a, [i \in 1 .. hi - lo - 1 |-> lo + i])
  ELSE LET c == Partition(a, lo, hi) IN sort(sort(c.a, lo, c.store), c.store + 1, hi)

SortBuckets(s, b, rows) == FoldLeft(LAMBDA r, v : sort(r, b[v], b[v + 1]), rows, NodeSeq(s))

-----------------------------------------------------------------------------
(* The two forms                                                           *)

Deleted(s) == NoArrays @@ s

\* clear_graph: frozen, sorted and reverse stay as they are
Cleared(s) == [Deleted(s) EXCEPT !.flexible = <<>>, !.nodes = 0, !.edges = 0]
Flags(s)   == {f \in {"sorted", "reverse"} : s[f]}

do_semi_sort_reverse(s) ==
  LET rows == SortBuckets(s, s.r_begin,
                [k \in Index(s) |-> [dest |-> s.r_node_idx[k], aux |-> s.e_rev2idx[k], aux2 |-> 0]])
  IN  [s EXCEPT !.r_node_idx = [k \in Index(s) |-> rows[k].dest],
                !.e_rev2idx = [k \in Index(s) |-> rows[k].aux]]

\* do_semi_sort of a frozen graph.  Threads store e_id2idx: an entry whose ID is
\* met twice may hold either index, so an entry is the set of them.
Sorted(s) ==
  IF s.sorted THEN s
  ELSE LET rows == SortBuckets(s, s.begin,
                     [k \in Index(s) |-> [dest |-> s.node_idx[k], aux |-> k, aux2 |-> get_edge_id(s, k)]])
           ids  == [k \in Index(s) |-> rows[k].aux2]
           t    == [s EXCEPT !.node_idx = [k \in Index(s) |-> rows[k].dest],
                             !.e_idx2idx = [k \in Index(s) |-> rows[k].aux],
                             !.e_idx2id = IF @ = NULL THEN NULL ELSE ids,
                             !.e_id2idx = IF @ = NULL THEN NULL ELSE [e \in Index(s) |-> {k \in Index(s) : ids[k] = e}],
                             !.sorted = TRUE]
       IN  IF s.reverse THEN do_semi_sort_reverse(t) ELSE t

\* the flexible form into the arrays, the nodes one after the other
Compacted(s) ==
  LET flat == FlattenSeq(s.flexible)
  IN  [s EXCEPT !.begin = Prefix(s.nodes, [v \in Nodes(s) |-> Len(s.flexible[v + 1])]),
                !.node_idx = [k \in Index(s) |-> flat[k + 1].dest],
                !.e_idx2id = [k \in Index(s) |-> flat[k + 1].edge],
                !.e_id2idx = [e \in Index(s) |-> {k \in Index(s) : flat[k + 1].edge = e}],
                !.flexible = <<>>, !.frozen = TRUE, !.sorted = FALSE, !.reverse = FALSE]

freeze(s) == IF s.frozen THEN s ELSE Sorted(Compacted(s))

\* e_idx is 0 for all edges: no statement of the loop advances it
thaw(s) ==
  LET e_idx == 0
      Nbrs(v) == [j \in 1 .. s.begin[v + 1] - s.begin[v] |->
                    [dest |-> s.node_idx[s.begin[v] + j - 1], edge |-> get_edge_id(s, e_idx)]]
  IN  IF ~s.frozen THEN s
      ELSE [Deleted(s) EXCEPT !.flexible = [i \in 1 .. s.nodes |-> Nbrs(i - 1)],
                              !.frozen = FALSE, !.sorted = FALSE, !.reverse = FALSE]

-----------------------------------------------------------------------------
(* Reverse edges                                                           *)

InDegree(s, v) == Cardinality({e \in Index(s) : s.node_idx[e] = v})

\* What the fetch-and-adds of the threads can return: the edges into a node get
\* different places, and those of one source theirs in order
Locations(s) ==
  {loc \in [Index(s) -> UNION {0 .. InDegree(s, v) - 1 : v \in Nodes(s)}] : \A e \in Index(s) :
     /\ loc[e] < InDegree(s, s.node_idx[e])
     /\ \A f \in Index(s) : f < e /\ s.node_idx[f] = s.node_idx[e] =>
          /\ loc[f] # loc[e]
          /\ SourceOf(s.begin, s.nodes, f) = SourceOf(s.begin, s.nodes, e) => loc[f] < loc[e]}

prepare_edge_source_reverse(s) ==
  [s EXCEPT !.r_node_idx_src = [k \in Index(s) |-> SourceOf(s.r_begin, s.nodes, k)]]

Placed(s, loc) ==
  LET r_begin == Prefix(s.nodes, [v \in Nodes(s) |-> InDegree(s, v)])
      rev     == [k \in Index(s) |-> CHOOSE e \in Index(s) : r_begin[s.node_idx[e]] + loc[e] = k]
  IN  [s EXCEPT !.r_begin = r_begin, !.e_rev2idx = rev, !.reverse = TRUE,
                !.r_node_idx = [k \in Index(s) |-> SourceOf(s.begin, s.nodes, rev[k])]]

\* make_reverse_edges: the graphs it can leave
Reversed(s) ==
  IF s.reverse THEN {s}
  ELSE LET f    == freeze(s)
           Sort(t) == IF t.sorted THEN do_semi_sort_reverse(t) ELSE t
           Src(t)  == IF t.node_idx_src # NULL THEN prepare_edge_source_reverse(t) ELSE t
       IN  {Src(Sort(Placed(f, loc))) : loc \in Locations(f)}

prepare_edge_source(s) ==
  LET t == [s EXCEPT !.node_idx_src = [k \in Index(s) |-> SourceOf(s.begin, s.nodes, k)]]
  IN  IF s.reverse THEN prepare_edge_source_reverse(t) ELSE t

\* load_binary_internal of a whole file: the graphs it can leave in s
Loaded(s, f) ==
  LET n == Cardinality(DOMAIN f.begin) - 1
      t == [Cleared(s) EXCEPT !.nodes = n, !.edges = f.begin[n], !.begin = f.begin,
                              !.node_idx = f.node_idx, !.frozen = TRUE]
  IN  Reversed([Sorted(t) EXCEPT !.sorted = TRUE])

-----------------------------------------------------------------------------
(* get_edge_idx_for_src_dest, has_edge                                     *)

BugMiddle(b, e) == b \div 2 + e \div 2
Middle(b, e)    == b \div 2 + e \div 2 + (IF b % 2 = 1 /\ e % 2 = 1 THEN 1 ELSE 0)

RECURSIVE BinarySearch(_, _, _, _)
BinarySearch(s, b, e, to) ==
  IF b >= e \/ to < s.node_idx[b] \/ to > s.node_idx[e] THEN NULL
  ELSE LET mid == Middle(b, e)
       IN  CASE to = s.node_idx[mid] -> mid
             [] to < s.node_idx[mid] -> IF e = mid THEN NULL ELSE BinarySearch(s, b, mid, to)
             [] to > s.node_idx[mid] -> IF b = mid THEN NULL ELSE BinarySearch(s, mid, e, to)

get_edge_idx_for_src_dest(s, src, to) ==
  LET b == s.begin[src]
      e == s.begin[src + 1] - 1
      found == {k \in b .. e : s.node_idx[k] = to}
  IN  CASE b > e                -> NULL
        [] b <= e /\ to = s.node_idx[b] -> b
        [] b <= e /\ to # s.node_idx[b] /\ to = s.node_idx[e] -> e
        [] OTHER -> IF e - b > LINEAR THEN BinarySearch(s, b, e, to)
                    ELSE IF found = {} THEN NULL ELSE CHOOSE k \in found : \A l \in found : k <= l

has_edge(s, from, to) == \E j \in DOMAIN s.flexible[from + 1] : s.flexible[from + 1][j].dest = to

-----------------------------------------------------------------------------
(* The calls                                                               *)

Init == g = gm_graph /\ ends = <<>> /\ stale = {}

add_node ==
  /\ g.nodes < MaxNodes
  /\ g' = LET t == thaw(g) IN [t EXCEPT !.flexible = Append(@, <<>>), !.nodes = @ + 1]
  /\ stale' = {}
  /\ UNCHANGED ends

add_edge(n, m) ==
  /\ g.edges < MaxEdges
  /\ g' = LET t == thaw(g) IN [t EXCEPT !.flexible[n + 1] = Append(@, [dest |-> m, edge |-> t.edges]),
                                        !.edges = @ + 1]
  /\ ends' = Append(ends, <<n, m>>)
  /\ stale' = {}

Freeze      == ~g.frozen /\ g' = freeze(g) /\ UNCHANGED <<ends, stale>>
Thaw        == g.frozen /\ g' = thaw(g) /\ stale' = {} /\ UNCHANGED ends
MakeReverse == ~g.reverse /\ g' \in Reversed(g) /\ UNCHANGED <<ends, stale>>

\* the arrays its loops read are there; a stale flag may promise r_begin
EdgeSource ==
  /\ g.frozen /\ g.node_idx_src = NULL
  /\ g.reverse /\ g.nodes > 0 => g.r_begin # NULL
  /\ g' = prepare_edge_source(g)
  /\ UNCHANGED <<ends, stale>>

\* clear_graph, and a load that fails at any place of the file
Clear == g' = Cleared(g) /\ ends' = <<>> /\ stale' = Flags(g)

\* the IDs of loaded edges are their indices
LoadFrom(s, f) ==
  /\ g' \in Loaded(s, f)
  /\ ends' = [i \in 1 .. g'.edges |-> <<SourceOf(g'.begin, g'.nodes, i - 1), g'.node_idx[i - 1]>>]
  /\ stale' = Flags(s)

LoadBinary == \E f \in Files : LoadFrom(g, f)

\* tools/convert freezes and stores a graph; scc loads the file into a new object.
\* The store reads begin[0], which a cleared object that is still frozen has not.
StoreAndLoad ==
  /\ g.frozen => g.begin # NULL
  /\ LET s == freeze(g) IN LoadFrom(gm_graph, [begin |-> s.begin, node_idx |-> s.node_idx])

Next ==
  \/ add_node \/ Freeze \/ Thaw \/ MakeReverse \/ EdgeSource
  \/ Clear \/ LoadBinary \/ StoreAndLoad
  \/ \E n, m \in Nodes(g) : add_edge(n, m)

Spec == Init /\ [][Next]_vars

-----------------------------------------------------------------------------
(* Properties                                                              *)

Times(v, w) == Cardinality({i \in DOMAIN ends : ends[i] = <<v, w>>})

\* However often it is frozen, thawed, sorted, cleared and stored, the graph has each
\* edge as many times as it was added, in the flexible form or in the bucket of its
\* source (freeze, thaw, do_semi_sort, the loader).
EdgesKept == \A v, w \in Nodes(g) :
  IF g.frozen
  THEN Cardinality({k \in Bucket(g.begin, v) : g.node_idx[k] = w}) = Times(v, w)
  ELSE Cardinality({j \in DOMAIN g.flexible[v + 1] : g.flexible[v + 1][j].dest = w}) = Times(v, w)

\* What is_semi_sorted says of the buckets is true.
SortedBuckets ==
  g.sorted => \A v \in Nodes(g) : \A k, l \in Bucket(g.begin, v) : k < l => g.node_idx[k] <= g.node_idx[l]

\* The reverse edges that has_reverse_edge promises mirror the edges one to one,
\* whatever order the threads met them in and however the buckets were sorted since:
\* e_rev2idx leads from each to an edge between the same two nodes, and the arrays of
\* sources agree with both.
Mirrored ==
  /\ g.reverse /\ g.nodes > 0 =>
       /\ g.r_begin # NULL
       /\ \A e \in Index(g) : \E k \in Index(g) : g.e_rev2idx[k] = e
       /\ \A d \in Nodes(g), k \in Index(g) : k \in Bucket(g.r_begin, d) =>
            /\ g.node_idx[g.e_rev2idx[k]] = d
            /\ g.e_rev2idx[k] \in Bucket(g.begin, g.r_node_idx[k])
            /\ g.r_node_idx_src # NULL => g.r_node_idx_src[k] = d
       /\ g.node_idx_src # NULL => g.r_node_idx_src # NULL
  /\ g.node_idx_src # NULL => \A k \in Index(g) : k \in Bucket(g.begin, g.node_idx_src[k])

\* The object represents the graph that was built or loaded, after any sequence of
\* calls.  clear_graph is to "invalidate everything" (gm_graph.h:405), but only of the
\* arrays does it: a flag that it has left set may be wrong about what is loaded next.
Represents ==
  /\ EdgesKept
  /\ "sorted" \in stale \/ SortedBuckets
  /\ "reverse" \in stale \/ Mirrored

\* The searches find an edge if and only if there is one: by halving a sorted bucket
\* that may hold an edge several times, which get_edge_idx_for_src_dest assumes, and
\* in the flexible form.
FindsEdge == "sorted" \notin stale => \A v, w \in Nodes(g) :
  IF g.frozen
  THEN LET e == get_edge_idx_for_src_dest(g, v, w)
       IN  IF Times(v, w) = 0 THEN e = NULL ELSE e \in Bucket(g.begin, v) /\ g.node_idx[e] = w
  ELSE has_edge(g, v, w) <=> Times(v, w) > 0
=============================================================================
