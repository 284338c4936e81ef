---------------------------- MODULE MCFwBwTasks ----------------------------
(* Instances of FwBwTasks.                                                 *)
EXTENDS FwBwTasks

Chain(s) == {<<s[i], s[i + 1]>> : i \in 1 .. Len(s) - 1}
Cycle(s) == Chain(s) \cup {<<s[Len(s)], s[1]>>}

\* two cycles and a node between them; a cycle with a way in, a way out and a node
\* beside it; two labels of method 2
Middle == Cycle(<<1, 2>>) \cup Chain(<<2, 3, 4>>) \cup Cycle(<<4, 5>>)
Star   == Cycle(<<2, 3>>) \cup Chain(<<1, 2, 4>>) \cup Chain(<<1, 5, 4>>)
Two    == Cycle(<<1, 2>>) \cup Chain(<<4, 3, 5>>) \cup Chain(<<5, 3>>)
Shapes == {Middle, Star, Two}
=============================================================================
