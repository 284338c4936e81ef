------------------------------ MODULE MCUFSCC ------------------------------
(* Instances of UFSCC.  A graph is written as the sequence of the sorted   *)
(* successors of its nodes.                                                *)
EXTENDS UFSCC

Graph(succ) == [s \in Slot |-> IF s = 0 THEN <<>> ELSE succ[s]]

\* 2-cycles that share state 1; a 2-cycle that leads to a self-loop, and one below
\* an initial state
Cycles == {Graph(<< <<2, 3>>, <<1>>, <<1>> >>),
           Graph(<< <<2, 3>>, <<1>>, <<3>> >>),
           Graph(<< <<2>>, <<3>>, <<2>> >>)}
=============================================================================
