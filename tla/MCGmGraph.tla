----------------------------- MODULE MCGmGraph -----------------------------
(* Instances of GmGraph: everything that can be built with three nodes and *)
(* three edges, and files with larger and with unsorted buckets.           *)
EXTENDS GmGraph

Array(s) == [i \in 0 .. Len(s) - 1 |-> s[i + 1]]

\* a bucket of three at an odd index; an unsorted bucket of five with an edge twice
File1 == [begin |-> Array(<<0, 1, 4, 4>>), node_idx |-> Array(<<1, 2, 0, 1>>)]
File2 == [begin |-> Array(<<0, 0, 5, 5, 6>>), node_idx |-> Array(<<3, 0, 3, 2, 1, 1>>)]

TwoFiles == {File1, File2}
=============================================================================
