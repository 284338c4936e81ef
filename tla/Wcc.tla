-------------------------------- MODULE Wcc --------------------------------
(***************************************************************************)
(* The WCC phase of method 2, src/src/scc_weak.cc: every node takes the    *)
(* smallest label of its successors, then the label of its root, until     *)
(* nothing changes; each label then becomes a colour, a set and an item.   *)
(* The threads read the labels while others write them.                    *)
(***************************************************************************)
EXTENDS Colors, FiniteSets, FiniteSetsExt

CONSTANTS
  NNodes,       \* G_num_nodes: the nodes are 0 .. NNodes - 1
  NIL,          \* gm_graph::NIL_NODE
  Graphs,       \* the graphs to run on: sets of edges <<v, w>>
  LARGE,        \* the labels of nodes with so many edges get the flag: 50
  POOL          \* init_node_set_pool: 65536

Node == 0 .. NNodes - 1
FLAG == NNodes  \* 0x20000000, above every node

ASSUME WccAssumption ==
  /\ NNodes \in Nat /\ NIL \notin Node
  /\ Graphs \subseteq SUBSET (Node \X Node)
  /\ LARGE \in Nat /\ POOL \in Nat

VARIABLES
  E, G_Color, G_SCC,
  G_WCC,        \* per node: its label, the number of its root, perhaps with the flag
  phase,        \* the parallel loop that runs
  finished,     \* nothing has changed in this round
  todo,         \* what the loop has not handed out
  pool_cnt,
  works,        \* the items, with their sets
  th            \* per thread: its node, min_val and the neighbours to read

local == <<phase, finished, todo, pool_cnt, works, th>>
vars  == <<colorVars, E, G_Color, G_SCC, G_WCC, local>>

OfColor(c) == {v \in Node : G_Color[v] = c}
Colored    == {v \in Node : G_Color[v] # -2}
Neighbors(v) == {w \in Node : <<v, w>> \in E}

INIT_WCC_ROOT_LG(v) == v + FLAG
GET_WCC_ROOT(v)     == G_WCC[v] % FLAG
InitialLabel(v)     == IF Cardinality(Neighbors(v)) >= LARGE THEN INIT_WCC_ROOT_LG(v) ELSE v

Idle == [pc |-> "loop", n |-> NIL, min_val |-> -1, left |-> {}]

FB0 == INSTANCE FwBw WITH classes <- {}

\* after the global FW-BW, whose pivot's SCC is identified, and the trimming
Init ==
  /\ initialize_color
  /\ E \in Graphs
  /\ \E p \in Node :
       LET fw == FB0!Reachable(E, Node, p)
           bw == FB0!Reachable(FB0!Reverse(E), Node, p)
       IN  /\ G_Color = [v \in Node |-> IF v \in fw \cap bw THEN -2
                                        ELSE IF v \in fw THEN -3 ELSE IF v \in bw THEN -4 ELSE -1]
           /\ G_SCC = [v \in Node |-> IF v \in fw \cap bw THEN p ELSE NIL]
  /\ G_WCC = [v \in Node |-> IF G_Color[v] = -2 THEN NIL ELSE InitialLabel(v)]
  /\ phase = "hook" /\ finished = TRUE /\ todo = Colored
  /\ pool_cnt = POOL /\ works = {}
  /\ th = [t \in Thread |-> Idle]

-----------------------------------------------------------------------------
(* propagate_color.                                                        *)

Free(t)  == th[t].pc = "loop"
LoopDone == todo = {} /\ \A t \in Thread : Free(t)

HookBegin(t) ==
  /\ phase = "hook" /\ Free(t)
  /\ \E n \in todo :
       /\ todo' = todo \ {n}
       /\ th' = [th EXCEPT ![t] = [pc |-> "hook", n |-> n, min_val |-> G_WCC[n], left |-> Neighbors(n)]]
  /\ UNCHANGED <<colorVars, E, G_Color, G_SCC, G_WCC, phase, finished, pool_cnt, works>>

\* one neighbour of the same colour
BugSmaller(t, k) == G_WCC[k] < th[t].min_val
Smaller(t, k) == G_Color[k] = G_Color[th[t].n] /\ G_WCC[k] < th[t].min_val
HookRead(t) ==
  /\ th[t].pc = "hook"
  /\ \E k \in th[t].left :
       /\ th' = [th EXCEPT ![t].left = @ \ {k},
                           ![t].min_val = IF Smaller(t, k) THEN G_WCC[k] ELSE @]
       /\ finished' = (finished /\ ~Smaller(t, k))
  /\ UNCHANGED <<colorVars, E, G_Color, G_SCC, G_WCC, phase, todo, pool_cnt, works>>

HookEnd(t) ==
  /\ th[t].pc = "hook" /\ th[t].left = {}
  /\ G_WCC' = [G_WCC EXCEPT ![th[t].n] = th[t].min_val]
  /\ th' = [th EXCEPT ![t] = Idle]
  /\ UNCHANGED <<colorVars, E, G_Color, G_SCC, phase, finished, todo, pool_cnt, works>>

\* the root of the node may have a smaller label by now, which may change again before
\* it is copied
BugRootChanged(n) == GET_WCC_ROOT(n) # n
RootChanged(n)    == GET_WCC_ROOT(GET_WCC_ROOT(n)) # GET_WCC_ROOT(n)
ShortcutTest(t) ==
  /\ phase = "shortcut" /\ Free(t)
  /\ \E n \in todo :
       /\ todo' = todo \ {n}
       /\ th' = [th EXCEPT ![t] = IF RootChanged(n) THEN [Idle EXCEPT !.pc = "shortcut", !.n = n]
                                  ELSE Idle]
  /\ UNCHANGED <<colorVars, E, G_Color, G_SCC, G_WCC, phase, finished, pool_cnt, works>>

Shortcut(t) ==
  /\ th[t].pc = "shortcut"
  /\ G_WCC' = [G_WCC EXCEPT ![th[t].n] = G_WCC[GET_WCC_ROOT(th[t].n)]]
  /\ finished' = FALSE
  /\ th' = [th EXCEPT ![t] = Idle]
  /\ UNCHANGED <<colorVars, E, G_Color, G_SCC, phase, todo, pool_cnt, works>>

-----------------------------------------------------------------------------
(* do_global_wcc, create_work_items_from_wcc.                              *)

IsRoot(v) == GET_WCC_ROOT(v) = v

\* The loops over the roots: each thread has a chunk of the list and they run at the
\* same time, so any node may be the next that any thread examines.
Root(t, v) == Free(t) /\ v \in todo

ColorRoot(t) ==
  /\ phase = "color"
  /\ \E v \in todo :
       /\ Root(t, v)
       /\ todo' = todo \ {v}
       /\ IF IsRoot(v)
          THEN G_Color' = [G_Color EXCEPT ![v] = NewColor(t)] /\ get_new_color(t)
          ELSE UNCHANGED <<G_Color, colorVars>>
  /\ UNCHANGED <<E, G_SCC, G_WCC, phase, finished, pool_cnt, works, th>>

TakeSet(t) ==
  /\ phase = "pool"
  /\ \E v \in todo :
       /\ Root(t, v)
       /\ todo' = todo \ {v}
       /\ pool_cnt' = IF IsRoot(v) THEN pool_cnt - 1 ELSE pool_cnt
  /\ UNCHANGED <<colorVars, E, G_Color, G_SCC, G_WCC, phase, finished, works, th>>

\* Loops in which no thread reads what another writes: the copy of the root's colour,
\* and the insertions into the sets, each under the lock of its root.
SetOf(v) == {w \in Colored : GET_WCC_ROOT(w) = v}
CopyColors ==
  G_Color' = [v \in Node |-> IF v \in Colored THEN G_Color[GET_WCC_ROOT(v)] ELSE -2]
CreateItems ==
  works' = {[color |-> G_Color[v], count |-> Cardinality(SetOf(v)), set |-> SetOf(v)] :
              v \in {w \in Colored : IsRoot(w)}}

Goto(p, S) == phase' = p /\ todo' = S

\* the ends of the loops
BugAgain == FALSE
Again    == ~finished
NextLoop ==
  /\ LoopDone
  /\ \/ /\ phase = "hook" /\ Goto("shortcut", Colored)
        /\ UNCHANGED <<G_Color, finished, works>>
     \/ /\ phase = "shortcut" /\ Again /\ Goto("hook", Colored)
        /\ finished' = TRUE
        /\ UNCHANGED <<G_Color, works>>
     \/ /\ phase = "shortcut" /\ ~Again /\ Goto("color", Colored)
        /\ UNCHANGED <<G_Color, finished, works>>
     \/ /\ phase = "color" /\ Goto("pool", Colored)
        /\ CopyColors
        /\ UNCHANGED <<finished, works>>
     \/ /\ phase = "pool" /\ Goto("done", {})
        /\ CreateItems
        /\ UNCHANGED <<G_Color, finished>>
  /\ UNCHANGED <<colorVars, E, G_SCC, G_WCC, pool_cnt, th>>

Step(t) ==
  \/ HookBegin(t) \/ HookRead(t) \/ HookEnd(t) \/ ShortcutTest(t) \/ Shortcut(t)
  \/ ColorRoot(t) \/ TakeSet(t)

Next == NextLoop \/ \E t \in Thread : Step(t)

Spec     == Init /\ [][Next]_vars
FairSpec == Spec /\ WF_vars(Next)

-----------------------------------------------------------------------------
(* Properties                                                              *)

\* Whatever the threads read, when the loop stops the label of a node is the smallest
\* label that its nodes reach in its colour; an item is what one label holds, and each
\* set taken from the pool is that of an item.
Reached(v) == LET S == OfColor(G_Color[v]) IN FB0!Reachable(E, S, v)
Labelled ==
  /\ phase = "color" /\ todo = Colored =>
       \A v \in Colored : G_WCC[v] = Min({InitialLabel(w) : w \in Reached(v)})
  /\ phase = "done" =>
       /\ \A w \in works : w.count = Cardinality(w.set) /\ w.count > 0 /\ w.set = OfColor(w.color)
       /\ UNION {w.set : w \in works} = Colored
       /\ POOL - pool_cnt = Cardinality(works)

\* The labels cut the classes of FwBw: while the roots take new colours in any order,
\* each takes whole components with it.
ColorOf(v) == IF phase = "color" THEN G_Color[GET_WCC_ROOT(v)] ELSE G_Color[v]
FB == INSTANCE FwBw WITH
        classes <- {{w \in Colored : ColorOf(w) = ColorOf(v)} : v \in Colored}
Refinement == FB!Partitioned /\ FB!WholeSCCs /\ [][FB!Next]_(FB!vars)

\* The rounds come to an end: the labels only become smaller, also when a thread
\* copies one that is changing.
Termination == <>(phase = "done")
=============================================================================
