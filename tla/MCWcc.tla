------------------------------- MODULE MCWcc -------------------------------
(* Instances of Wcc.  With the pivot 5, which has no edges, all other      *)
(* nodes keep one colour.                                                  *)
EXTENDS Wcc, Sequences

Chain(s) == {<<s[i], s[i + 1]>> : i \in 1 .. Len(s) - 1}
Cycle(s) == Chain(s) \cup {<<s[Len(s)], s[1]>>}

\* labels that travel against a cycle and through roots that change; a fork whose
\* branches keep their labels; a node with so many edges that its label is flagged
Rings  == Cycle(<<2, 3, 1>>) \cup Cycle(<<0, 4>>) \cup {<<2, 4>>}
Fork   == Chain(<<3, 1>>) \cup Chain(<<3, 2>>) \cup Cycle(<<0, 4>>) \cup {<<0, 3>>}
Fan    == {<<0, 1>>, <<0, 2>>, <<0, 3>>, <<3, 0>>, <<4, 3>>}
Shapes == {Rings, Fork, Fan}

NIL_NODE == -1
=============================================================================
