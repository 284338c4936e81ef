----------------------------- MODULE GlobalFwBw -----------------------------
(***************************************************************************)
(* do_fw_bw_global_main of src/src/scc_fb_global.cc: all threads search    *)
(* forward from a pivot, then backward, through the nodes trimming left;   *)
(* visit_fw recolours the nodes while others ask check_navigator for       *)
(* colours, and counts per thread what do_end_of_level_fw adds up.         *)
(***************************************************************************)
EXTENDS Bfs

CONSTANTS NIL   \* gm_graph::NIL_NODE

VARIABLES
  G_SCC,
  phase,        \* "pivot", "fw", "bw", "done"
  targets,      \* the nodes left by trimming: of base_color at the start
  thread_data,  \* per thread: val0 and val1
  counts,       \* count of the forward search; count and scc_count of the backward
  visits        \* history: how often each search has visited each node

vars == <<bfsVars, G_Color, G_SCC, phase, targets, thread_data, counts, visits>>

FB == INSTANCE FwBw WITH Graphs <- Graphs, classes <- {}

base_color == -1
fw_color   == 0
bw_color   == 1

\* T is what trimming can leave: from every larger set it can go on
Trimmed(T) == \A S \in SUBSET Node : T \subseteq S /\ T # S => \E v \in S \ T : FB!Trimmable(S, v)

Init ==
  /\ E \in Graphs /\ limits \in Limits
  /\ targets \in {T \in (SUBSET Node) \ {{}} : Trimmed(T)}
  /\ G_Color = [v \in Node |-> IF v \in targets THEN base_color ELSE -2]
  /\ G_SCC = [v \in Node |-> IF v \in targets THEN NIL ELSE v]
  /\ phase = "pivot"
  /\ thread_data = [t \in Thread |-> [val0 |-> 0, val1 |-> 0]]
  /\ counts = [fw |-> 0, bw |-> 0, scc |-> 0]
  /\ visits = [d \in {"fw", "bw"} |-> [v \in Node |-> 0]]
  /\ search = [root |-> 0, reverse |-> FALSE, colors |-> {}]
  /\ state = "SMALL"
  /\ lv = [level |-> 0, count |-> 0, next |-> 0, begin |-> 0, nbegin |-> 0, expanded |-> FALSE]
  /\ small_visited = [v \in {} |-> 0] /\ visited_bitmap = {}
  /\ visited_level = [v \in Node |-> INVALID]
  /\ global_vector = [i \in 0 .. N - 1 |-> NoNode]
  /\ loop = 0
  /\ th = [t \in Thread |-> Resting]

\* choose_pivot_from_color: the targets are in any order.  A pivot that is alone
\* is a component; the others are the root of a search.
Pivot ==
  /\ phase = "pivot"
  /\ \E p \in targets :
       IF Cardinality(targets) = 1
       THEN /\ phase' = "done"
            /\ G_Color' = [G_Color EXCEPT ![p] = -2]
            /\ G_SCC' = [G_SCC EXCEPT ![p] = p]
            /\ counts' = [counts EXCEPT !.scc = 1]
            /\ UNCHANGED bfsVars
       ELSE /\ phase' = "fw"
            /\ Prepared(p, FALSE, {base_color})
            /\ UNCHANGED <<E, limits, G_Color, G_SCC, counts>>
  /\ UNCHANGED <<targets, thread_data, visits>>

\* visit_fw(k) by thread t: of fw_trim_global, and of bw_trim_global on a node of
\* the forward set and on another
VisitFw(t, k) ==
  /\ G_Color' = [G_Color EXCEPT ![k] = fw_color]
  /\ thread_data' = [thread_data EXCEPT ![t].val0 = @ + 1]
  /\ UNCHANGED G_SCC
VisitBw(t, k) ==
  \/ /\ G_Color[k] = fw_color
     /\ G_SCC' = [G_SCC EXCEPT ![k] = search.root]
     /\ G_Color' = [G_Color EXCEPT ![k] = -2]
     /\ thread_data' = [thread_data EXCEPT ![t].val1 = @ + 1]
  \/ /\ G_Color[k] # fw_color
     /\ G_Color' = [G_Color EXCEPT ![k] = bw_color]
     /\ thread_data' = [thread_data EXCEPT ![t].val0 = @ + 1]
     /\ UNCHANGED G_SCC

Visit(t, k) ==
  /\ IF phase = "fw" THEN VisitFw(t, k) ELSE VisitBw(t, k)
  /\ visits' = [visits EXCEPT ![phase][k] = @ + 1]
  /\ UNCHANGED <<phase, targets, counts>>

VisitNode ==
  /\ phase \in {"fw", "bw"}
  /\ \/ IterateSmall /\ Visit(0, SmallNode)
     \/ \E t \in Thread : Leave(t) /\ Visit(t, NodeOf(t))

SearchStep ==
  /\ phase \in {"fw", "bw"} /\ \E t \in Thread : SearchOf(t)
  /\ UNCHANGED <<G_Color, G_SCC, phase, targets, thread_data, counts, visits>>

\* do_end_of_level_fw, with the level's last step
Sum(f) == FoldFunction(LAMBDA a, b : a + b, 0, f)
BugReset(d) == d
Reset(d)    == [t \in Thread |-> [val0 |-> 0, val1 |-> IF phase = "bw" THEN 0 ELSE d[t].val1]]

AddUp ==
  LET c0 == Sum([t \in Thread |-> thread_data[t].val0])
      c1 == Sum([t \in Thread |-> thread_data[t].val1])
  IN  /\ counts' = IF phase = "fw" THEN [counts EXCEPT !.fw = @ + c0]
                   ELSE [counts EXCEPT !.bw = @ + c0, !.scc = @ + c1]
      /\ thread_data' = Reset(thread_data)

EndLevel ==
  /\ phase \in {"fw", "bw"} /\ NextLevel /\ AddUp
  /\ UNCHANGED <<G_Color, G_SCC, phase, targets, visits>>

\* the backward search of the same pivot, then the counts of the parts
EndSearch ==
  /\ phase \in {"fw", "bw"} /\ Finished /\ AddUp
  /\ \/ /\ phase = "fw" /\ phase' = "bw"
        /\ Prepared(search.root, TRUE, {base_color, fw_color})
        /\ UNCHANGED <<E, limits>>
     \/ /\ phase = "bw" /\ phase' = "done"
        /\ UNCHANGED bfsVars
  /\ UNCHANGED <<G_Color, G_SCC, targets, visits>>

Done == phase = "done"
Next == Pivot \/ VisitNode \/ SearchStep \/ EndLevel \/ EndSearch \/ (Done /\ UNCHANGED vars)

Spec == Init /\ [][Next]_vars

-----------------------------------------------------------------------------
(* Properties                                                              *)

\* No search visits a node twice: two threads that see the bit of a node clear do
\* not both queue it, a bit set in RRD is not lost to the store of another bit of
\* its byte, and no queue holds what another way to search has left.
VisitedOnce == \A d \in {"fw", "bw"}, v \in Node : visits[d][v] <= 1

\* At the end the colours, G_SCC and the counts are those of the nodes that the
\* pivot reaches and that reach it among the targets, in whatever states the
\* levels were searched: no node is forgotten between two of them.
fw_set(p) == FB!Reachable(E, targets, p)
bw_set(p) == FB!Reachable(FB!Reverse(E), targets, p)
Outcome ==
  Done /\ Cardinality(targets) > 1 =>
    LET fw  == fw_set(search.root)
        bw  == bw_set(search.root)
        scc == fw \cap bw
    IN  /\ {v \in Node : G_Color[v] = fw_color} = fw \ scc
        /\ {v \in Node : G_Color[v] = bw_color} = bw \ scc
        /\ {v \in Node : G_Color[v] = base_color} = targets \ (fw \cup bw)
        /\ \A v \in targets : G_SCC[v] = IF v \in scc THEN search.root ELSE NIL
        /\ counts = [fw |-> Cardinality(fw), bw |-> Cardinality(bw \ scc), scc |-> Cardinality(scc)]
=============================================================================
