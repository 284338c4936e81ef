---------------------------- MODULE SCCPartition ----------------------------
(***************************************************************************)
(* What a concurrent SCC decomposition promises: it keeps a partition of   *)
(* the nodes, only ever merges two parts of one strongly connected         *)
(* component, completes a part only when it is a whole component with      *)
(* nothing incomplete below it, and reports the components at the end.     *)
(***************************************************************************)
CONSTANTS Node,
          SCC       \* SCC[g][n]: the component of n in g, for every graph g, a
                    \* function from the nodes to their sets of successors
VARIABLES graph,    \* the graph decomposed
          part,     \* the part of each node
          complete, \* the nodes of the completed parts
          result    \* the answer: the reported component of each node

pvars == <<graph, part, complete, result>>

NoResult == [n \in Node |-> {}]
Parts    == {part[n] : n \in Node}

PInit ==
  /\ graph \in DOMAIN SCC
  /\ part = [n \in Node |-> {n}]
  /\ complete = {}
  /\ result = NoResult

Merge(S, T) ==
  /\ S # T
  /\ (S \cup T) \cap complete = {}
  /\ \A m \in S : T \subseteq SCC[graph][m]
  /\ part' = [n \in Node |-> IF n \in S \cup T THEN S \cup T ELSE part[n]]
  /\ UNCHANGED <<graph, complete, result>>

Complete(S) ==
  /\ S \cap complete = {}
  /\ \A n \in S : S = SCC[graph][n] /\ graph[n] \subseteq S \cup complete
  /\ complete' = complete \cup S
  /\ UNCHANGED <<graph, part, result>>

Report ==
  /\ complete = Node
  /\ result = NoResult
  /\ result' = part
  /\ UNCHANGED <<graph, part, complete>>

PNext == (\E S, T \in Parts : Merge(S, T)) \/ (\E S \in Parts : Complete(S)) \/ Report

PSpec == PInit /\ [][PNext]_pvars
=============================================================================
