------------------------------ MODULE MCTarjan ------------------------------
(* Instances of Tarjan: the graphs of four nodes in which each has at most *)
(* two successors, and none is its own successor.                          *)
EXTENDS Tarjan

SparseGraphs == {R \in SUBSET {e \in Node \X Node : e[1] # e[2]} :
                \A v \in Node : Cardinality({e \in R : e[1] = v}) <= 2}
=============================================================================
