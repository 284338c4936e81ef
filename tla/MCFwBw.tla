------------------------------ MODULE MCFwBw ------------------------------
(* Instances of FwBw: every graph of four nodes, without self-loops.      *)
EXTENDS FwBw
AllGraphs == SUBSET {e \in Node \X Node : e[1] # e[2]}
=============================================================================
