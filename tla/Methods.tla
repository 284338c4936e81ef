------------------------------ MODULE Methods ------------------------------
(***************************************************************************)
(* The methods 0 to 5 of src/src/scc_main.cc put together from their       *)
(* phases, and the sessions of common_main.h: what a phase leaves is what  *)
(* the module of the phase shows of it, and here the counts, colours and   *)
(* items go from one phase to the next, and a session to the next session. *)
(***************************************************************************)
EXTENDS Integers, FiniteSets, FiniteSetsExt

CONSTANTS
  Node,         \* the nodes, 0 .. G_num_nodes - 1
  NIL,          \* gm_graph::NIL_NODE
  Graphs,       \* the graphs: sets of edges
  Sessions      \* how often do_main_steps is called: once, or for 1, 2, 4 .. 32 threads

VARIABLES
  E, method,
  pc,           \* the phase that is next
  session,      \* the sessions begun
  G_SCC,
  classes,      \* the nodes of each colour but -2
  curr_count, trimmed, scc_size,   \* of the functions do_baseline...
  init_colors,  \* init_fw_color, init_bw_color, init_base_color: their nodes
  the_q,        \* the items: [nodes, count]
  G_scc_size, scc_size_counted, histogram

counts   == <<curr_count, trimmed, scc_size>>
analysis == <<G_scc_size, scc_size_counted, histogram>>
vars == <<E, method, pc, session, G_SCC, classes, counts, init_colors, the_q, analysis>>

FB == INSTANCE FwBw

G_num_nodes == Cardinality(Node)
Left == {v \in Node : G_SCC[v] = NIL}
SCC(v) == FB!SCC(v)

Init ==
  /\ E \in Graphs /\ method \in 0 .. 5
  /\ pc = "prepare" /\ session = 0
  /\ G_SCC = [v \in Node |-> NIL] /\ classes = {}
  /\ curr_count = 0 /\ trimmed = 0 /\ scc_size = 0
  /\ init_colors = {} /\ the_q = {}
  /\ G_scc_size = [v \in Node |-> 0] /\ scc_size_counted = FALSE
  /\ histogram = [n \in 0 .. G_num_nodes |-> 0]

prepare ==
  /\ pc = "prepare"
  /\ session' = session + 1
  /\ G_SCC' = [v \in Node |-> NIL] /\ classes' = {Node}
  /\ G_scc_size' = [v \in Node |-> 0]
  /\ pc' = IF method \in {3, 5} THEN "all" ELSE "trim"
  /\ UNCHANGED <<E, method, counts, init_colors, the_q, scc_size_counted, histogram>>

-----------------------------------------------------------------------------
(* Trimming: a pass takes at least what can be taken at its start, and more*)
(* in an order that allows it; how many passes follow depends on TRIM_STOP.*)

Removable(S, T) ==
  /\ \A v \in S : FB!Trimmable(S, v) => v \in T
  /\ \A U \in SUBSET T : U # T => \E v \in T \ U : FB!Trimmable(S \ U, v)
Trims == {T \in SUBSET Left : \A S \in classes : Removable(S, S \cap T)}

Take(T) ==
  /\ G_SCC' = [v \in Node |-> IF v \in T THEN v ELSE G_SCC[v]]
  /\ classes' = {S \ T : S \in classes} \ {{}}

Item(S, n) == [nodes |-> S, count |-> n]

\* the first repeat_global_trim1; method 0 makes one item of what is left
Rest(n) == G_num_nodes - n
trim ==
  /\ pc = "trim"
  /\ \E T \in Trims :
       /\ Take(T)
       /\ curr_count' = Rest(Cardinality(T))
       /\ pc' = CASE method = 4 -> "all"
                  [] method # 4 /\ curr_count' = 0 -> "post"
                  [] method = 0 /\ curr_count' # 0 -> "work"
                  [] method \in {1, 2} /\ curr_count' # 0 -> "global"
       /\ the_q' = IF pc' = "work" THEN {Item(Node \ T, curr_count')} ELSE the_q
  /\ UNCHANGED <<E, method, session, trimmed, scc_size, init_colors, analysis>>

\* do_fw_bw_global_main(G, -1, curr_count, false): with one node left the colours of
\* the parts stay those of earlier
global ==
  /\ pc = "global" /\ pc' = "retrim"
  /\ \E S \in classes, p \in Left :
       LET fw  == FB!Reachable(E, S, p)
           bw  == FB!Reachable(FB!Reverse(E), S, p)
           scc == IF curr_count = 1 THEN {p} ELSE fw \cap bw
       IN  /\ p \in S
           /\ G_SCC' = [v \in Node |-> IF v \in scc THEN p ELSE G_SCC[v]]
           /\ scc_size' = Cardinality(scc)
           /\ classes' = (IF curr_count = 1 THEN {S \ scc} ELSE FB!Pieces(S, fw, bw)) \ {{}}
           /\ init_colors' = IF curr_count = 1 THEN init_colors ELSE FB!Pieces(S, fw, bw) \ {{}}
  /\ UNCHANGED <<E, method, session, curr_count, trimmed, the_q, analysis>>

\* repeat_global_trim1_compact after it.  In method 1 create_works_after_bfs_trim counts
\* what is left of each colour.
retrim ==
  /\ pc = "retrim"
  /\ \E T \in Trims :
       /\ Take(T)
       /\ trimmed' = Cardinality(T)
       /\ IF method = 1
          THEN /\ curr_count' = G_num_nodes - trimmed'
               /\ pc' = IF curr_count' = 0 THEN "post" ELSE "work"
               /\ LET V == Left \ T
                  IN  the_q' = {Item(V \cap S, Cardinality(V \cap S)) : S \in {c \in init_colors : V \cap c # {}}}
          ELSE pc' = "trim2" /\ UNCHANGED <<curr_count, the_q>>
  /\ UNCHANGED <<E, method, session, scc_size, init_colors, analysis>>

Pairs == UNION {{p \in S \X S : p[1] < p[2] /\ FB!Pair(S, p[1], p[2])} : S \in classes}

\* do_global_trim2_new, the first of a pair the representative of both
BugPairCount(P) == 4 * Cardinality(P)
PairCount(P)    == 2 * Cardinality(P)
trim2 ==
  /\ pc = "trim2" /\ pc' = "trim_last"
  /\ \E P \in SUBSET Pairs :
       LET T == UNION {{p[1], p[2]} : p \in P}
       IN  /\ Cardinality(T) = 2 * Cardinality(P)
           /\ G_SCC' = [v \in Node |-> IF v \notin T THEN G_SCC[v]
                                       ELSE (CHOOSE p \in P : v \in {p[1], p[2]})[1]]
           /\ classes' = {S \ T : S \in classes} \ {{}}
           /\ trimmed' = trimmed + PairCount(P)
  /\ UNCHANGED <<E, method, session, curr_count, scc_size, init_colors, the_q, analysis>>

\* and repeat_global_trim1_compact again
trim_last ==
  /\ pc = "trim_last"
  /\ \E T \in Trims :
       /\ Take(T)
       /\ trimmed' = trimmed + Cardinality(T)
       /\ curr_count' = curr_count - trimmed' - scc_size
       /\ pc' = IF curr_count' = 0 THEN "post" ELSE "wcc"
  /\ UNCHANGED <<E, method, session, scc_size, init_colors, the_q, analysis>>

\* do_global_wcc, create_work_items_from_wcc: an item for each label, the labels of
\* nodes with many edges being larger than all others
wcc ==
  /\ pc = "wcc" /\ pc' = "work"
  /\ \E large \in SUBSET Left :
       LET Key(v) == IF v \in large THEN G_num_nodes + v ELSE v
           Label(S, v) == Min({Key(w) : w \in FB!Reachable(E, S, v)})
       IN  classes' = UNION {{{w \in S : Label(S, w) = Label(S, v)} : v \in S} : S \in classes}
  /\ the_q' = {Item(S, Cardinality(S)) : S \in classes'}
  /\ UNCHANGED <<E, method, session, G_SCC, counts, init_colors, analysis>>

\* A worker splits an item: the counts of the two searches, the base's by subtraction.
work ==
  /\ pc = "work"
  /\ \E it \in the_q, p \in Left :
       LET S    == it.nodes
           fw   == FB!Reachable(E, S, p)
           bw   == FB!Reachable(FB!Reverse(E), S, p)
           scc  == IF it.count = 1 THEN {p} ELSE fw \cap bw
           base == it.count - Cardinality(fw \cup bw)
           Part(T, n) == IF n > 0 THEN {Item(T, n)} ELSE {}
           parts == IF it.count = 1 THEN {}
                    ELSE Part(fw \ bw, Cardinality(fw \ bw)) \cup Part(bw \ fw, Cardinality(bw \ fw))
                           \cup Part(S \ (fw \cup bw), base)
       IN  /\ p \in S
           /\ G_SCC' = [v \in Node |-> IF v \in scc THEN p ELSE G_SCC[v]]
           /\ classes' = ((classes \ {S}) \cup {i.nodes : i \in parts})
           /\ the_q' = (the_q \ {it}) \cup parts
           /\ pc' = IF the_q' = {} THEN "post" ELSE "work"
  /\ UNCHANGED <<E, method, session, counts, init_colors, analysis>>

\* start_workers_fw_bw_dfs with an empty queue
no_work ==
  /\ pc = "work" /\ the_q = {} /\ pc' = "post"
  /\ UNCHANGED <<E, method, session, G_SCC, classes, counts, init_colors, the_q, analysis>>

\* do_tarjan_all and do_ufscc_all: some node of a component represents it
all ==
  /\ pc = "all" /\ pc' = "post"
  /\ \E R \in {Q \in SUBSET Left : \A v \in Left : Cardinality(Q \cap SCC(v)) = 1} :
       G_SCC' = [v \in Node |-> IF v \in Left THEN CHOOSE r \in R : r \in SCC(v) ELSE G_SCC[v]]
  /\ classes' = {}
  /\ UNCHANGED <<E, method, session, counts, init_colors, the_q, analysis>>

\* post_process with -a: create_histogram_and_print
post_process ==
  /\ pc = "post"
  /\ G_scc_size' = [v \in Node |-> IF scc_size_counted THEN G_scc_size[v]
                                   ELSE G_scc_size[v] + Cardinality({w \in Node : G_SCC[w] = v})]
  /\ scc_size_counted' = TRUE
  /\ histogram' = [n \in 0 .. G_num_nodes |-> Cardinality({v \in Node : G_SCC[v] = v /\ G_scc_size'[v] = n})]
  /\ pc' = IF session < Sessions THEN "prepare" ELSE "done"
  /\ UNCHANGED <<E, method, session, G_SCC, classes, counts, init_colors, the_q>>

Done == pc = "done"

Next ==
  \/ prepare \/ trim \/ global \/ retrim \/ trim2 \/ trim_last \/ wcc
  \/ work \/ no_work \/ all \/ post_process
  \/ Done /\ UNCHANGED vars

Spec == Init /\ [][Next]_vars

-----------------------------------------------------------------------------
(* Properties                                                              *)

\* When a method returns every node has an SCC, the right one: no phase is left out
\* because of a count that is wrong, and none loses the nodes of a colour.
Complete == pc = "post" => \A v \in Node :
  /\ G_SCC[v] \in SCC(v)
  /\ \A w \in SCC(v) : G_SCC[w] = G_SCC[v]

\* The workers have an item for each class, with its count, whichever phases made
\* the items; a class without one is never split.
ItemsAreClasses == pc = "work" =>
  /\ {it.nodes : it \in the_q} = classes
  /\ UNION classes = Left
  /\ \A it \in the_q : it.count = Cardinality(it.nodes)

\* "-a: Print SCC size histogram" (scc_main.cc:64), when post_process has printed it:
\* in the first session.  In later ones G_scc_size is new and scc_size_counted still
\* set, so that the sizes are not counted.
HistogramExact ==
  LET components == {SCC(v) : v \in Node}
  IN  \A n \in 0 .. G_num_nodes :
        histogram[n] = Cardinality({c \in components : Cardinality(c) = n})
HistogramRight == pc \in {"prepare", "done"} /\ session = 1 => HistogramExact

\* A method gives the answer: the components and the items in every session, whatever
\* the one before has left in the statics; the histogram in the first.
Answers == Complete /\ ItemsAreClasses /\ HistogramRight
=============================================================================
