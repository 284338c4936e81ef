----------------------------- MODULE MCMethods -----------------------------
(* Instances of Methods: graphs of six nodes that leave something for every*)
(* phase.                                                                  *)
EXTENDS Methods, Sequences

Chain(s) == {<<s[i], s[i + 1]>> : i \in 1 .. Len(s) - 1}
Cycle(s) == Chain(s) \cup {<<s[Len(s)], s[1]>>}

\* three cycles in a row; a cycle that leads to two others and a tail; one cycle
\* and nodes to trim; cycles apart; everything is trimmed; one node stays for method 1
Row    == Cycle(<<0, 1>>) \cup Cycle(<<2, 3>>) \cup Cycle(<<4, 5>>) \cup {<<1, 2>>, <<3, 4>>}
Spread == Cycle(<<0, 1>>) \cup Cycle(<<2, 3>>) \cup {<<0, 2>>, <<1, 4>>, <<4, 5>>}
Ring   == Cycle(<<0, 1, 2, 3>>) \cup {<<4, 0>>, <<2, 5>>}
Apart  == Cycle(<<0, 1, 2>>) \cup Cycle(<<3, 4, 5>>)
Line   == Chain(<<0, 1, 2, 3, 4, 5>>)
Bridge == Cycle(<<0, 1>>) \cup Cycle(<<3, 4>>) \cup Chain(<<1, 2, 3>>) \cup {<<5, 5>>}
Nest   == Cycle(<<0, 1>>) \cup Cycle(<<2, 3, 4>>) \cup {<<1, 2>>, <<4, 5>>}
Shapes == {Row, Spread, Ring, Apart, Line, Bridge, Nest}

NIL_NODE == -1
=============================================================================
