------------------------------ MODULE UFPaths ------------------------------
(***************************************************************************)
(* Workers that each walk one path of an SCC and close a cycle: they claim *)
(* its states in order, as scc_ufscc_recurse descends (lines 589-610 of    *)
(* src/src/scc_ufscc.cc), and unite them from the last two down to the     *)
(* first, as it does on an edge from the last state back to the first      *)
(* (lines 631-635).  Without picking and removing, three workers on four   *)
(* states can be explored: enough for a representative to be united away   *)
(* under a unite or a claim that is still updating its worker set.         *)
(***************************************************************************)
EXTENDS UnionFind

CONSTANT Paths    \* the assignments of paths to the workers

ASSUME PathsAssumption == Paths \subseteq [Worker -> Seq(Node) \ {<<>>}]

VARIABLES walk,   \* the path of each worker
          pos     \* its position: the states claimed, then those left to unite

pathVars == <<ufVars, walk, pos>>

Init ==
  /\ UFInit
  /\ pc = [t \in Worker |-> "descend"]
  /\ walk \in Paths
  /\ pos = [t \in Worker |-> 0]

Descend(t) ==                  \* line 589 for the next state of the path
  /\ pc[t] = "descend"
  /\ \/ /\ pos[t] < Len(walk[t])
        /\ pos' = [pos EXCEPT ![t] = @ + 1]
        /\ CallClaim(t, walk[t][pos[t] + 1], "descend")
     \/ /\ pos[t] = Len(walk[t])
        /\ Resume(t, "close")
        /\ UNCHANGED <<path, pos>>
  /\ UNCHANGED <<uf, G_Color, loc, walk>>

Close(t) ==                    \* line 631: sameset (w+1, v+1)
  /\ pc[t] = "close"
  /\ CallSameset(t, walk[t][1], walk[t][Len(walk[t])], "closing")
  /\ UNCHANGED <<uf, G_Color, walk, pos>>

Closing(t) ==                  \* lines 631-635
  /\ pc[t] = "closing"
  /\ \/ ret[t].code = "same" /\ Resume(t, "done") /\ UNCHANGED <<path, loc, pos>>
     \/ /\ ret[t].code = "different"
        /\ pos' = [pos EXCEPT ![t] = @ - 1]
        /\ CallUnite(t, walk[t][pos[t] - 1], walk[t][pos[t]], "close")
  /\ UNCHANGED <<uf, G_Color, walk>>

Closed == (\A t \in Worker : pc[t] = "done") /\ UNCHANGED pathVars

Next == \/ \E t \in Worker : \/ UFStep(t) /\ UNCHANGED <<walk, pos>>
                             \/ Descend(t) \/ Close(t) \/ Closing(t)
        \/ Closed

Spec == Init /\ [][Next]_pathVars

-----------------------------------------------------------------------------
(* Properties                                                              *)

\* unite(a, b) returns only with a and b in one set (lines 300-367), whoever
\* united them: the roots a worker has popped are in the set of the one below.
UniteJoins ==
  \A t \in Worker : pc[t] \in {"close", "done"} =>
    LET p == walk[t] IN \A j \in pos[t] + 1 .. Len(p) : Root[p[j]] = Root[p[j-1]]

\* A path is closed before its stack is used up: after uniting its first two
\* states sameset answers "same" (line 631).
ClosesInTime == \A t \in Worker : pc[t] = "closing" /\ ret[t].code = "different" => pos[t] > 1
=============================================================================
