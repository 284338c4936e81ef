------------------------------- MODULE MCTrim -------------------------------
(* Instances of Trim.                                                      *)
EXTENDS Trim

Chain(s) == {<<s[i], s[i + 1]>> : i \in 1 .. Len(s) - 1}
Cycle(s) == Chain(s) \cup {<<s[Len(s)], s[1]>>}

\* a chain of pairs, into and out of each other; a cycle of three with a tail; a
\* chain that is trimmed from both ends
TwoPairs == Cycle(<<0, 1>>) \cup Cycle(<<2, 3>>) \cup {<<1, 2>>}
Tail3    == Cycle(<<0, 1, 2>>) \cup {<<2, 3>>, <<3, 3>>}
Crossed  == Cycle(<<0, 3>>) \cup {<<1, 0>>, <<1, 3>>, <<0, 2>>}
Line     == Chain(<<0, 1, 2, 3>>)
Shapes   == {TwoPairs, Tail3, Crossed, Line}

\* trim1 and the compacted passes, and each form of trim2 between two compactions
Passes == {<<"trim1", "compact", "trim1_compact">>, <<"compact", "trim2_new", "compact">>,
           <<"compact", "trim2", "compact">>}
=============================================================================
