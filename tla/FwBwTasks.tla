----------------------------- MODULE FwBwTasks -----------------------------
(***************************************************************************)
(* The tasks of the workers node by node: do_fw_bw_single_thread of        *)
(* src/src/scc_fb_seq.cc, which searches breadth first, and do_fw_bw_dfs   *)
(* of src/src/scc_fb_seq2.cc, with the template of gm_dfs_template.h.  The *)
(* threads run tasks at the same time on one array of colours: a task      *)
(* reads the colours of the neighbours, whoever is recolouring them.  The  *)
(* queue that hands out the items is WorkQueue; here it is a set.          *)
(***************************************************************************)
EXTENDS Colors, Sequences, FiniteSets

CONSTANTS
  Node,         \* the nodes, 1 .. N
  NIL,          \* gm_graph::NIL_NODE
  NULL,         \* the pointer to no set
  Graphs,       \* the graphs to run on: sets of edges <<v, w>>
  DROP,         \* a set of this size is dropped: G_num_nodes * 0.01
  COMPACT       \* breadth first, smaller items get a set: G.num_nodes() * 0.01

ASSUME TasksAssumption ==
  /\ Node \subseteq Nat /\ IsFiniteSet(Node) /\ Node # {}
  /\ NIL \notin Node
  /\ \A S \in SUBSET Node : NULL # S
  /\ Graphs \subseteq SUBSET (Node \X Node)
  /\ DROP \in Nat \ {0} /\ COMPACT \in Nat

VARIABLES
  E, G_Color, G_SCC,
  dfs,          \* the workers are start_workers_fw_bw_dfs
  works,        \* the items of the queue and of the threads' vectors
  th            \* per thread: pc, the task and its search

vars == <<colorVars, E, G_Color, G_SCC, dfs, works, th>>

OfColor(c) == {v \in Node : G_Color[v] = c}

Neighbors(v, reverse) == {w \in Node : (IF reverse THEN <<w, v>> ELSE <<v, w>>) \in E}

\* a search that has not begun, and a thread without a task
NoSearch == [visited |-> {}, curr |-> NIL, todo |-> {}, next |-> NIL, rest |-> <<>>]
Idle == [pc |-> "fetch", color |-> -1, count |-> 0, set |-> NULL, pivot |-> NIL,
         fw |-> -1, bw |-> -1, fw_set |-> NULL, bw_set |-> NULL,
         fw_count |-> 0, bw_count |-> 0, scc_count |-> 0, s |-> NoSearch]

Goto(t, r, pc) == th' = [th EXCEPT ![t] = [r EXCEPT !.pc = pc]]

FB0 == INSTANCE FwBw WITH classes <- {}

\* What the phases before leave: one item of all nodes (methods 0 and 1), or one for
\* each label of method 2, the smallest node reached, with its set
Label(v) == CHOOSE w \in FB0!Reachable(E, Node, v) : \A x \in FB0!Reachable(E, Node, v) : w <= x
Init ==
  /\ initialize_color
  /\ E \in Graphs /\ dfs \in BOOLEAN
  /\ G_SCC = [v \in Node |-> NIL]
  /\ \/ /\ G_Color = [v \in Node |-> -1]
        /\ works = {[color |-> -1, count |-> Cardinality(Node), set |-> NULL]}
     \/ /\ dfs
        /\ G_Color = [v \in Node |-> -3 - Label(v)]
        /\ works = {[color |-> G_Color[v], count |-> Cardinality(OfColor(G_Color[v])),
                     set |-> OfColor(G_Color[v])] : v \in Node}
  /\ th = [t \in Thread |-> Idle]

-----------------------------------------------------------------------------
(* Beginning a task.                                                       *)

\* start_workers_fw_bw, start_workers_fw_bw_dfs
Small(n) == n < IF dfs THEN Cardinality(Node) ELSE COMPACT

\* work_q_fetch_N and generate_compact_set: nobody else changes the class
Fetch(t) ==
  /\ th[t].pc = "fetch"
  /\ \E w \in works :
       /\ works' = works \ {w}
       /\ Goto(t, [Idle EXCEPT !.color = w.color, !.count = w.count,
                     !.set = IF w.set = NULL /\ Small(w.count) THEN OfColor(w.color) ELSE w.set],
               "pivot")
  /\ UNCHANGED <<colorVars, E, G_Color, G_SCC, dfs>>

\* the first of the set, in the order of its hashes, or of the colour, in that of
\* the trim targets; a task of one node is done
Pivot(t) ==
  /\ th[t].pc = "pivot"
  /\ \E p \in IF th[t].set = NULL THEN OfColor(th[t].color) ELSE th[t].set :
       IF th[t].count = 1
       THEN /\ G_Color' = [G_Color EXCEPT ![p] = -2]
            /\ G_SCC' = [G_SCC EXCEPT ![p] = p]
            /\ th' = [th EXCEPT ![t] = Idle]
       ELSE /\ Goto(t, [th[t] EXCEPT !.pivot = p], "fw_color")
            /\ UNCHANGED <<G_Color, G_SCC>>
  /\ UNCHANGED <<colorVars, E, dfs, works>>

FwColor(t) ==
  /\ th[t].pc = "fw_color" /\ get_new_color(t)
  /\ Goto(t, [th[t] EXCEPT !.fw = NewColor(t)], "bw_color")
  /\ UNCHANGED <<E, G_Color, G_SCC, dfs, works>>

\* the search begins at the pivot: a breadth-first one visits it last
Begun(r, reverse) ==
  LET s == [NoSearch EXCEPT !.visited = {r.pivot}]
  IN  IF dfs THEN [r EXCEPT !.s = [s EXCEPT !.next = r.pivot], !.pc = "enter"]
      ELSE [r EXCEPT !.s = [s EXCEPT !.curr = r.pivot, !.todo = Neighbors(r.pivot, reverse)],
                     !.pc = "edges"]

BwColor(t) ==
  /\ th[t].pc = "bw_color" /\ get_new_color(t)
  /\ th' = [th EXCEPT ![t] = Begun([th[t] EXCEPT !.bw = NewColor(t), !.fw_set = {}], FALSE)]
  /\ UNCHANGED <<E, G_Color, G_SCC, dfs, works>>

-----------------------------------------------------------------------------
(* A search.  The backward one begins when bw_set is made.                 *)

Backward(r) == r.bw_set # NULL \/ r.bw_count + r.scc_count > 0

check_navigator(r, u) == G_Color[u] \in IF Backward(r) THEN {r.fw, r.color} ELSE {r.color}

\* one neighbour of the current node: it is passed over, or it is to be visited
Check(t) ==
  LET s == th[t].s
  IN  /\ th[t].pc = "edges"
      /\ \E u \in s.todo :
           IF u \in s.visited \/ ~check_navigator(th[t], u)
           THEN th' = [th EXCEPT ![t].s.todo = @ \ {u}]
           ELSE IF dfs
           THEN Goto(t, [th[t] EXCEPT !.s.todo = @ \ {u}, !.s.next = u], "enter")
           ELSE th' = [th EXCEPT ![t].s.todo = @ \ {u}, ![t].s.visited = @ \cup {u},
                                 ![t].s.rest = Append(@, u)]
      /\ UNCHANGED <<colorVars, E, G_Color, G_SCC, dfs, works>>

\* a set with one more node; a set that has reached the size is deleted instead
BugWith(S, k) == IF S = NULL \/ Cardinality(S) >= DROP THEN S ELSE S \cup {k}
With(S, k)    == IF S = NULL THEN NULL ELSE IF Cardinality(S) >= DROP THEN NULL ELSE S \cup {k}
Without(S, k) == IF S = NULL THEN NULL ELSE S \ {k}

\* fw_trim: visit of k, and the thread's record after it
VisitFw(r, k) ==
  /\ G_Color' = [G_Color EXCEPT ![k] = r.fw]
  /\ UNCHANGED G_SCC
VisitedFw(r, k) == [r EXCEPT !.fw_count = @ + 1, !.set = Without(@, k), !.fw_set = With(@, k)]

\* bw_trim: the intersection, and the others
VisitBw(r, k) ==
  \/ /\ G_Color[k] = r.fw
     /\ G_SCC' = [G_SCC EXCEPT ![k] = r.pivot]
     /\ G_Color' = [G_Color EXCEPT ![k] = -2]
  \/ /\ G_Color[k] # r.fw
     /\ G_Color' = [G_Color EXCEPT ![k] = r.bw]
     /\ UNCHANGED G_SCC
VisitedBw(r, k) ==
  IF G_Color[k] = r.fw THEN [r EXCEPT !.scc_count = @ + 1, !.fw_set = Without(@, k)]
  ELSE [r EXCEPT !.bw_count = @ + 1, !.set = Without(@, k), !.bw_set = With(@, k)]

Visit(r, k)   == IF Backward(r) THEN VisitBw(r, k) ELSE VisitFw(r, k)
Visited(r, k) == IF Backward(r) THEN VisitedBw(r, k) ELSE VisitedFw(r, k)

\* enter_node: push the current node, visit_pre the next
Enter(t) ==
  LET r == th[t]
      k == r.s.next
  IN  /\ r.pc = "enter" /\ Visit(r, k)
      /\ Goto(t, [Visited(r, k) EXCEPT !.s =
                    [visited |-> r.s.visited \cup {k}, curr |-> k, next |-> NIL,
                     todo |-> Neighbors(k, Backward(r)),
                     rest |-> Append(r.s.rest, [node |-> r.s.curr, todo |-> r.s.todo])]], "edges")
      /\ UNCHANGED <<colorVars, E, dfs, works>>

\* exit_node: pop; at the bottom of the stack the search is over
Exit(t) ==
  LET s == th[t].s
      p == s.rest[Len(s.rest)]
  IN  /\ dfs /\ th[t].pc = "edges" /\ s.todo = {}
      /\ Goto(t, [th[t] EXCEPT !.s.curr = p.node, !.s.todo = p.todo,
                               !.s.rest = SubSeq(@, 1, Len(@) - 1)],
              IF p.node = NIL THEN "end" ELSE "edges")
      /\ UNCHANGED <<colorVars, E, G_Color, G_SCC, dfs, works>>

\* visit_fw after the neighbours; then the next node of the queue
Leave(t) ==
  LET r == th[t]
      s == r.s
  IN  /\ ~dfs /\ r.pc = "edges" /\ s.todo = {} /\ Visit(r, s.curr)
      /\ IF s.rest = <<>>
         THEN Goto(t, [Visited(r, s.curr) EXCEPT !.s.curr = NIL], "end")
         ELSE Goto(t, [Visited(r, s.curr) EXCEPT !.s.curr = s.rest[1], !.s.rest = Tail(@),
                                   !.s.todo = Neighbors(s.rest[1], Backward(r))], "edges")
      /\ UNCHANGED <<colorVars, E, dfs, works>>

NonEmpty(S) == IF S = {} THEN NULL ELSE S

\* the backward search follows the forward one
Turn(t) ==
  /\ th[t].pc = "end" /\ ~Backward(th[t])
  /\ th' = [th EXCEPT ![t] = Begun([th[t] EXCEPT !.bw_set = {}, !.fw_set = NonEmpty(@)], TRUE)]
  /\ UNCHANGED <<colorVars, E, G_Color, G_SCC, dfs, works>>

\* the counts, and an item for every part that is not empty
Item(c, n, S) == IF n > 0 THEN {[color |-> c, count |-> n, set |-> NonEmpty(S)]} ELSE {}

BugNewItems(r) ==
  Item(r.fw, r.fw_count, r.fw_set) \cup Item(r.bw, r.bw_count, r.bw_set)
    \cup Item(r.color, r.count - r.fw_count - r.bw_count, r.set)
NewItems(r) ==
  Item(r.fw, r.fw_count - r.scc_count, r.fw_set) \cup Item(r.bw, r.bw_count, r.bw_set)
    \cup Item(r.color, r.count - r.fw_count - r.bw_count, r.set)

EndTask(t) ==
  /\ th[t].pc = "end" /\ Backward(th[t])
  /\ works' = works \cup NewItems(th[t])
  /\ th' = [th EXCEPT ![t] = Idle]
  /\ UNCHANGED <<colorVars, E, G_Color, G_SCC, dfs>>

Step(t) ==
  \/ Fetch(t) \/ Pivot(t) \/ FwColor(t) \/ BwColor(t) \/ Check(t) \/ Enter(t) \/ Exit(t)
  \/ Leave(t) \/ Turn(t) \/ EndTask(t)

Done == works = {} /\ \A t \in Thread : th[t].pc = "fetch"
Next == (\E t \in Thread : Step(t)) \/ (Done /\ UNCHANGED vars)

Spec == Init /\ [][Next]_vars

-----------------------------------------------------------------------------
(* Properties                                                              *)

\* the nodes of the task of t: what has its colours, and the SCC found so far
Running(t) == th[t].pc # "fetch"
TaskNodes(t) ==
  LET r == th[t]
      mine == {r.color} \cup (IF r.fw = -1 THEN {} ELSE {r.fw}) \cup (IF r.bw = -1 THEN {} ELSE {r.bw})
  IN  {v \in Node : G_Color[v] \in mine \/ (r.pivot # NIL /\ G_SCC[v] = r.pivot)}

\* The items are exact when nobody works on them: the count is the number of nodes
\* of the colour and the set, if there is one, is those nodes, as the assertions
\* demand, whatever was dropped, erased and recoloured meanwhile; every node
\* without an SCC is in an item or a task, and in one only.
ItemsExact ==
  /\ \A w \in works : w.count = Cardinality(OfColor(w.color)) /\ w.set \in {NULL, OfColor(w.color)}
  /\ LET parts == {OfColor(w.color) : w \in works} \cup {TaskNodes(t) : t \in {u \in Thread : Running(u)}}
     IN  /\ \A v \in Node : G_Color[v] # -2 => v \in UNION parts
         /\ \A S, T \in parts : S # T => S \cap T = {}

\* The tasks are atomic: their searches, interleaved node by node with those of
\* the other threads, split the classes as FwBw does in one step.
FB == INSTANCE FwBw WITH
        classes <- {OfColor(w.color) : w \in works} \cup {TaskNodes(t) : t \in {u \in Thread : Running(u)}},
        G_SCC <- [v \in Node |-> IF \E t \in Thread : Running(t) /\ v \in TaskNodes(t) THEN NIL ELSE G_SCC[v]]
Refinement == FB!Partitioned /\ FB!WholeSCCs /\ [][FB!Next]_(FB!vars)
=============================================================================
