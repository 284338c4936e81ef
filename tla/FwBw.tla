-------------------------------- MODULE FwBw --------------------------------
(***************************************************************************)
(* What methods 0, 1 and 2 promise: the nodes without an SCC form classes  *)
(* (the nodes of one colour); a step trims a node or a pair of nodes that  *)
(* is an SCC by itself, takes a pivot, identifies its SCC as the nodes both*)
(* reachable from it and reaching it inside the class and splits the rest, *)
(* or cuts a class where no edge comes back, as the labels of the WCC do.  *)
(***************************************************************************)
EXTENDS Integers

CONSTANTS
  Node,         \* the nodes
  NIL,          \* gm_graph::NIL_NODE
  Graphs        \* the graphs to run on: sets of edges <<v, w>>

ASSUME NilAssumption    == NIL \notin Node
ASSUME GraphsAssumption == Graphs \subseteq SUBSET (Node \X Node)

VARIABLES
  E,            \* the edges
  G_SCC,        \* per node: the representative of its SCC, or NIL
  classes       \* the sets of nodes still to be split

\* The nodes that p reaches by the edges R inside S: those in every subset of S
\* that holds p and is closed under R
Closed(R, S, p)    == {T \in SUBSET S : p \in T /\ \A v \in T, w \in S \ T : <<v, w>> \notin R}
BugReachable(R, S, p) == {v \in S : v = p \/ <<p, v>> \in R}
Reachable(R, S, p)    == LET C == Closed(R, S, p) IN {v \in S : \A T \in C : v \in T}

Reverse(R) == {<<e[2], e[1]>> : e \in R}

\* the strongly connected component of p in the graph
SCC(p) == Reachable(E, Node, p) \cap Reachable(Reverse(E), Node, p)

BugAssign(S, p) == [v \in Node |-> IF v = p THEN p ELSE G_SCC[v]]
Assign(S, p)    == [v \in Node |-> IF v \in S THEN p ELSE G_SCC[v]]

-----------------------------------------------------------------------------
Init ==
  /\ E \in Graphs
  /\ G_SCC = [v \in Node |-> NIL]
  /\ classes = {Node} \ {{}}

\* trim_once_node: no other successor or no other predecessor in the class
Trimmable(S, v) ==
  \/ \A w \in S \ {v} : <<v, w>> \notin E
  \/ \A w \in S \ {v} : <<w, v>> \notin E

Trim(S, v) ==
  /\ Trimmable(S, v)
  /\ G_SCC' = Assign({v}, v)
  /\ classes' = ((classes \ {S}) \cup {S \ {v}}) \ {{}}
  /\ UNCHANGED E

\* do_fw_bw_single_thread: the nodes of fw_color, of bw_color and of base_color
Pieces(S, fw, bw) == {fw \ bw, bw \ fw, S \ (fw \cup bw)}

Split(S, p) ==
  LET fw == Reachable(E, S, p)
      bw == Reachable(Reverse(E), S, p)
  IN  /\ G_SCC' = Assign(fw \cap bw, p)
      /\ classes' = ((classes \ {S}) \cup Pieces(S, fw, bw)) \ {{}}
      /\ UNCHANGED E

\* trim_2nd_new_main, trim_2nd_main2: the edges both ways, and no other successor
\* of the two or no other predecessor
Pair(S, v, w) ==
  /\ v # w /\ <<v, w>> \in E /\ <<w, v>> \in E
  /\ \/ \A x \in {v, w}, y \in S \ {v, w} : <<x, y>> \notin E
     \/ \A x \in {v, w}, y \in S \ {v, w} : <<y, x>> \notin E

Trim2(S, v, w) ==
  /\ Pair(S, v, w)
  /\ G_SCC' = Assign({v, w}, v)
  /\ classes' = ((classes \ {S}) \cup {S \ {v, w}}) \ {{}}
  /\ UNCHANGED E

\* do_global_wcc: no edge leads from a node to one with a smaller label, so the nodes
\* of one label are what is final, down to that label, without what is final above it
Final(S) == {T \in SUBSET S : \A v \in T, w \in S \ T : <<v, w>> \notin E}

Separate(S, T) ==
  /\ classes' = ((classes \ {S}) \cup {T, S \ T}) \ {{}}
  /\ UNCHANGED <<E, G_SCC>>

Next == \E S \in classes :
  \/ \E p \in S : Trim(S, p) \/ Split(S, p)
  \/ \E v, w \in S : Trim2(S, v, w)
  \/ \E A, B \in Final(S) : Separate(S, A \ B)

vars == <<E, G_SCC, classes>>
Spec == Init /\ [][Next]_vars

-----------------------------------------------------------------------------
(* Properties                                                              *)

TypeOK ==
  /\ E \in Graphs
  /\ G_SCC \in [Node -> Node \cup {NIL}]
  /\ classes \subseteq SUBSET Node

\* The classes and the nodes with an SCC partition the nodes.
Partitioned ==
  /\ {} \notin classes
  /\ \A S, T \in classes : S # T => S \cap T = {}
  /\ UNION classes = {v \in Node : G_SCC[v] = NIL}

\* A class holds whole components: no SCC is ever cut in two.
WholeSCCs == \A S \in classes : \A v \in S : SCC(v) \subseteq S

\* The recorded components are right: an identified node's representative is in
\* its SCC, and the whole SCC has that representative.
Identified == \A v \in Node : G_SCC[v] # NIL =>
  /\ G_SCC[v] \in SCC(v)
  /\ \A w \in SCC(v) : G_SCC[w] = G_SCC[v]
=============================================================================
