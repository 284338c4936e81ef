---------------------------- MODULE MCBaseline ----------------------------
(* Instances of Baseline: graphs as sets of edges.                         *)
EXTENDS Baseline

Chain(s) == {<<s[i], s[i + 1]>> : i \in 1 .. Len(s) - 1}
Cycle(s) == Chain(s) \cup {<<s[Len(s)], s[1]>>}

\* nothing is trimmed: nodes 3 and 4 between two 2-cycles, where pivot 3 leaves
\* three items, two of them for the queue
Wide == Cycle(<<1, 2>>) \cup Cycle(<<5, 6>>) \cup Chain(<<2, 3, 5>>) \cup Chain(<<2, 4, 5>>)

\* a cycle with a tail that is trimmed in one or more passes, a self-loop being no
\* neighbour; a chain and a node alone, which leave no work
Tailed == Cycle(<<1, 2, 6>>) \cup Chain(<<2, 3, 4, 5>>) \cup {<<5, 5>>}
Line   == Chain(<<1, 2, 3, 4, 5>>)

Shapes == {Wide, Tailed, Line}
=============================================================================
