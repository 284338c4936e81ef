--------------------------- MODULE MCGlobalFwBw ---------------------------
(* Instances of GlobalFwBw: graphs that drive the search through its states. *)
EXTENDS GlobalFwBw

Chain(s) == {<<s[i], s[i + 1]>> : i \in 1 .. Len(s) - 1}
Cycle(s) == Chain(s) \cup {<<s[Len(s)], s[1]>>}

\* levels of 1, 1, 2, 3, 1 nodes from node 0 and of 1, 1, 2, 1, 3 nodes; bytes
\* with two nodes of one level; parts not reached, or that only reach; levels that
\* wrap, of 1 node each and then of 3
Fan    == Chain(<<0, 1, 2, 4, 7, 0>>) \cup Chain(<<1, 3, 5, 7>>) \cup Chain(<<2, 6, 7>>)
Waist  == Chain(<<0, 1, 2, 4, 5, 0>>) \cup Chain(<<1, 3, 4, 6, 0>>) \cup {<<4, 7>>}
Apart  == Cycle(<<0, 1>>) \cup Chain(<<1, 2, 4>>) \cup Chain(<<1, 3, 4>>) \cup Chain(<<5, 6, 0>>)
            \cup {<<3, 3>>, <<5, 7>>}
Line   == Chain(<<0, 1, 2, 3, 4, 5, 6, 7>>)
Deep   == Chain(<<0, 1, 2, 3, 4, 5>>) \cup Chain(<<4, 6>>) \cup Chain(<<4, 7, 0>>)
Shapes == {Fan, Waist, Apart, Line, Deep}

\* from the queue at once, with narrow and wide levels; from a larger level; never
Early == {[small |-> 1, wide |-> w] : w \in 1 .. 4}
All   == Early \cup {[small |-> 2, wide |-> 3], [small |-> 8, wide |-> 1]}
=============================================================================
