----------------------------- MODULE MCUFPaths -----------------------------
EXTENDS UFPaths
Assigned(p, q, r) == [t \in Worker |-> CASE t = 0 -> p [] t = 1 -> q [] t = 2 -> r]

\* a chain of unions 1-2, 2-3, 3-4 in any order (three-step find paths); and a
\* worker that unites 1 with {2, 3} while another unites {2, 3} with 4 and a
\* third puts its bit into 1; two that unite 1 with different states
Overlapping == {Assigned(<<1, 2>>, <<2, 3>>, <<3, 4>>),
                Assigned(<<1, 2, 3>>, <<3, 4>>, <<1>>),
                Assigned(<<1, 3>>, <<1, 4>>, <<2>>)}
=============================================================================
