-------------------------------- MODULE Trim --------------------------------
(***************************************************************************)
(* The parallel trimming passes, read by read and store by store:          *)
(* src/src/scc_trim1.cc, with the compaction of the targets, and the two   *)
(* forms of trim2 in scc_trim2.cc and scc_trim2_new.cc.  A thread counts   *)
(* the neighbours of a node that have its colour while other threads take  *)
(* theirs away; what it has found it stores one array element at a time.   *)
(***************************************************************************)
EXTENDS Integers, Sequences, SequencesExt, FiniteSetsExt

CONSTANTS
  NNodes,       \* G_num_nodes: the nodes are 0 .. NNodes - 1
  NThreads,     \* gm_rt_get_num_threads()
  NIL,          \* gm_graph::NIL_NODE
  Graphs,       \* the graphs to run on: sets of edges <<v, w>>
  Plans         \* sequences of passes, as the methods call them

Node   == 0 .. NNodes - 1
Thread == 0 .. NThreads - 1

VARIABLES
  E, G_Color, G_SCC,
  trim_targets, \* the compact list of nodes without an SCC
  L, sz,        \* per thread: the nodes it keeps, and the prefix sums of their numbers
  G_nbr, G_maybe_2nd,
  plan,         \* the passes left, the running one first
  todo,         \* what the parallel loop has not handed out
  count,        \* what the passes have trimmed in all
  th            \* per thread: the node it looks at, and the stores to do

arrays == <<E, G_Color, G_SCC>>
lists  == <<trim_targets, L, sz>>
pairs  == <<G_nbr, G_maybe_2nd>>
vars   == <<arrays, lists, pairs, plan, todo, count, th>>

Idle == [pc |-> "loop", n |-> NIL, color |-> -2, reverse |-> FALSE, at |-> NIL,
         left |-> {}, seen |-> {}, nbr |-> NIL, stores |-> <<>>]

Neighbors(v, reverse) == {w \in Node \ {v} : (IF reverse THEN <<w, v>> ELSE <<v, w>>) \in E}
Colored == {v \in Node : G_Color[v] # -2}

FB0 == INSTANCE FwBw WITH classes <- {}

\* one colour, or the colours of a global FW-BW whose pivot has been identified
Init ==
  /\ E \in Graphs
  /\ \/ /\ G_Color = [v \in Node |-> -1]
        /\ G_SCC = [v \in Node |-> NIL]
     \/ \E p \in Node :
          LET fw == FB0!Reachable(E, Node, p)
              bw == FB0!Reachable(FB0!Reverse(E), Node, p)
          IN  /\ G_Color = [v \in Node |-> IF v \in fw \cap bw THEN -2
                                           ELSE IF v \in fw THEN 0 ELSE IF v \in bw THEN 1 ELSE -1]
              /\ G_SCC = [v \in Node |-> IF v \in fw \cap bw THEN p ELSE NIL]
  /\ trim_targets = <<>>
  /\ L = [t \in Thread |-> <<>>] /\ sz = [t \in Thread |-> 0]
  /\ G_nbr = [v \in Node |-> NIL] /\ G_maybe_2nd = [v \in Node |-> FALSE]
  /\ plan \in {<<"begin">> \o p : p \in Plans}
  /\ todo = {}
  /\ count = Cardinality(Node \ Colored)
  /\ th = [t \in Thread |-> Idle]

Pass == plan[1]
LoopDone == todo = {} /\ \A t \in Thread : th[t].pc = "loop"

-----------------------------------------------------------------------------
(* Looking at a node.                                                      *)

\* a thread begins to count the neighbours of v, forward or backward
Look(r, v, reverse) ==
  [r EXCEPT !.pc = "look", !.at = v, !.reverse = reverse, !.left = Neighbors(v, reverse), !.seen = {}]

Take(t) ==
  /\ Pass \in {"trim1", "trim1_compact", "trim2_new"} /\ th[t].pc = "loop"
  /\ \E n \in todo :
       /\ todo' = todo \ {n}
       /\ th' = [th EXCEPT ![t] = IF G_Color[n] = -2 THEN Idle
                                  ELSE Look([Idle EXCEPT !.n = n, !.color = G_Color[n]], n, FALSE)]
  /\ UNCHANGED <<arrays, lists, pairs, plan, count>>

\* trim1 stops at the first neighbour, trim2 at the second
Enough(r) == Cardinality(r.seen) = IF Pass = "trim2_new" THEN 2 ELSE 1
Looked(r) == r.pc = "look" /\ (r.left = {} \/ Enough(r))

ReadNeighbor(t) ==
  /\ th[t].pc = "look" /\ ~Looked(th[t])
  /\ \E k \in th[t].left :
       th' = [th EXCEPT ![t].left = @ \ {k},
                        ![t].seen = IF G_Color[k] = th[t].color THEN @ \cup {k} ELSE @]
  /\ UNCHANGED <<arrays, lists, pairs, plan, todo, count>>

\* the stores of trim_once_node; those of trim_2nd_new_main, from right to left
SetSCC(v, p) == [array |-> "G_SCC", v |-> v, val |-> p]
SetColor(v)  == [array |-> "G_Color", v |-> v, val |-> -2]
Single(n)    == <<SetSCC(n, n), SetColor(n)>>
Both(n, k)   == <<SetColor(k), SetColor(n), SetSCC(k, n), SetSCC(n, n)>>
Storing(r, stores) == [r EXCEPT !.pc = "store", !.stores = stores]

\* forward, then backward; or the thread is done with the node
Again(r) == IF r.reverse THEN Idle ELSE Look(r, r.n, TRUE)

Decide1(t) ==
  /\ Pass \in {"trim1", "trim1_compact"} /\ Looked(th[t])
  /\ IF th[t].seen = {}
     THEN th' = [th EXCEPT ![t] = Storing(@, Single(@.n))] /\ count' = count + 1
     ELSE th' = [th EXCEPT ![t] = Again(@)] /\ UNCHANGED count
  /\ UNCHANGED <<arrays, lists, pairs, plan, todo>>

\* check_out_degree_is_one, check_in_degree_is_one of n, and then of its neighbour
BugMutual(r) == r.at # r.n /\ Cardinality(r.seen) = 1
Mutual(r)    == r.at # r.n /\ r.seen = {r.n}
First(r)     == r.at = r.n /\ \E k \in r.seen : r.seen = {k} /\ r.n < k

Decide2(t) ==
  LET r == th[t]
  IN  /\ Pass = "trim2_new" /\ Looked(r)
      /\ \/ /\ First(r)
            /\ \E k \in r.seen : th' = [th EXCEPT ![t] = Look(@, k, r.reverse)]
            /\ UNCHANGED count
         \/ /\ Mutual(r)
            /\ th' = [th EXCEPT ![t] = Storing(@, Both(r.n, r.at))]
            /\ count' = count + 2
         \/ /\ ~First(r) /\ ~Mutual(r)
            /\ th' = [th EXCEPT ![t] = Again(r)]
            /\ UNCHANGED count
      /\ UNCHANGED <<arrays, lists, pairs, plan, todo>>

Store(t) ==
  LET s == Head(th[t].stores)
  IN  /\ th[t].pc = "store"
      /\ \/ /\ s.array = "G_SCC" /\ G_SCC' = [G_SCC EXCEPT ![s.v] = s.val]
            /\ UNCHANGED G_Color
         \/ /\ s.array = "G_Color" /\ G_Color' = [G_Color EXCEPT ![s.v] = s.val]
            /\ UNCHANGED G_SCC
      /\ th' = [th EXCEPT ![t] = IF Len(@.stores) = 1 THEN Idle ELSE Storing(@, Tail(@.stores))]
      /\ UNCHANGED <<E, lists, pairs, plan, todo, count>>

-----------------------------------------------------------------------------
(* trim2 in two loops: the first only reads the colours, so it is one step. *)

One(S) == IF Cardinality(S) = 1 THEN CHOOSE k \in S : TRUE ELSE NIL
trim_2nd_main1(n) ==
  LET out == {k \in Neighbors(n, FALSE) : G_Color[k] = G_Color[n]}
      in  == {k \in Neighbors(n, TRUE) : G_Color[k] = G_Color[n]}
      two == Cardinality(in) = 1 /\ Cardinality(out) = 1
  IN  [nbr   |-> IF two /\ in = out THEN One(in) ELSE NIL,
       maybe |-> in # {} /\ out # {} /\ ~two /\ 1 \in {Cardinality(in), Cardinality(out)}]

Find ==
  /\ Pass = "trim2" /\ LoopDone
  /\ LET V == Range(trim_targets) \cap Colored
     IN  /\ G_nbr' = [v \in Node |-> IF v \in V THEN trim_2nd_main1(v).nbr ELSE G_nbr[v]]
         /\ G_maybe_2nd' = [v \in Node |-> IF v \in V THEN trim_2nd_main1(v).maybe ELSE G_maybe_2nd[v]]
  /\ plan' = <<"trim2_main2">> \o Tail(plan)
  /\ todo' = Range(trim_targets)
  /\ UNCHANGED <<arrays, lists, count, th>>

Min2(n, k) == IF n < k THEN n ELSE k
trim_2nd_main2(t) ==
  /\ Pass = "trim2_main2" /\ th[t].pc = "loop"
  /\ \E n \in todo :
       /\ todo' = todo \ {n}
       /\ LET k == G_nbr[n]
          IN  IF G_Color[n] = -2 \/ k = NIL \/ (G_nbr[k] = NIL /\ ~G_maybe_2nd[k])
              THEN UNCHANGED <<th, count>>
              ELSE IF G_nbr[k] # NIL
              THEN /\ th' = [th EXCEPT ![t] = Storing(@, <<SetSCC(n, Min2(n, k)), SetColor(n)>>)]
                   /\ count' = count + 1
              ELSE /\ th' = [th EXCEPT ![t] = Storing(@, Single(n) \o <<SetSCC(k, n), SetColor(k)>>)]
                   /\ count' = count + 2
  /\ UNCHANGED <<arrays, lists, pairs, plan>>

-----------------------------------------------------------------------------
(* create_trim1_compact.                                                   *)

\* create_trim1_compact_1 and _1b: each thread keeps what is left of its share; the
\* loop hands out its indices in order, and the colours are only read
Index(n) == IF trim_targets = <<>> THEN n ELSE CHOOSE i \in DOMAIN trim_targets : trim_targets[i] = n
Keep(t) ==
  /\ Pass = "compact" /\ th[t].pc = "loop"
  /\ \E n \in todo :
       /\ \A m \in todo : Index(n) <= Index(m)
       /\ todo' = todo \ {n}
       /\ L' = [L EXCEPT ![t] = IF G_Color[n] = -2 THEN @ ELSE Append(@, n)]
  /\ UNCHANGED <<arrays, trim_targets, sz, pairs, plan, count, th>>

\* create_trim1_compact_2: the list has room for all, of zeros
Prefix ==
  /\ Pass = "compact" /\ LoopDone
  /\ sz' = [t \in Thread |-> FoldSet(LAMBDA u, n : n + Len(L[u]), 0, 0 .. t)]
  /\ trim_targets' = [i \in 1 .. sz'[NThreads - 1] |-> 0]
  /\ plan' = <<"copy">> \o Tail(plan)
  /\ todo' = Thread
  /\ UNCHANGED <<arrays, L, pairs, count, th>>

\* create_trim1_compact_3: a thread copies its list behind those of the lower ones
BugBegin(t) == sz[t]
Begin(t)    == IF t = 0 THEN 0 ELSE sz[t - 1]
Copy(t) ==
  /\ Pass = "copy" /\ t \in todo
  /\ trim_targets' = [i \in DOMAIN trim_targets |->
                        IF i - Begin(t) \in DOMAIN L[t] THEN L[t][i - Begin(t)] ELSE trim_targets[i]]
  /\ todo' = todo \ {t}
  /\ UNCHANGED <<arrays, L, sz, pairs, plan, count, th>>

\* the end of a loop, and the beginning of the next pass
Share(pass) ==
  IF pass \in {"trim1_compact", "trim2_new"} \/ (pass = "compact" /\ trim_targets # <<>>)
  THEN Range(trim_targets)
  ELSE IF pass = "trim2" THEN {} ELSE Node

NextPass ==
  /\ Pass \notin {"compact", "trim2"} /\ LoopDone /\ Len(plan) > 1
  /\ plan' = Tail(plan)
  /\ todo' = Share(plan[2])
  /\ L' = IF plan[2] = "compact" THEN [t \in Thread |-> <<>>] ELSE L
  /\ UNCHANGED <<arrays, trim_targets, sz, pairs, count, th>>

Step(t) ==
  \/ Take(t) \/ ReadNeighbor(t) \/ Decide1(t) \/ Decide2(t) \/ Store(t)
  \/ trim_2nd_main2(t) \/ Keep(t) \/ Copy(t)

Next == NextPass \/ Find \/ Prefix \/ \E t \in Thread : Step(t)

Spec == Init /\ [][Next]_vars

-----------------------------------------------------------------------------
(* Properties                                                              *)

\* Between two loops nothing is half done: the methods can subtract the counts from
\* the number of nodes, as they do, and a compacted list has each node without an
\* SCC once, whichever thread kept it and however far its copy had to move.
PassExact == LoopDone =>
  /\ count = Cardinality(Node \ Colored)
  /\ \A v \in Node : (G_SCC[v] # NIL) <=> (G_Color[v] = -2)
  /\ Pass = "copy" => /\ Range(trim_targets) = Colored
                      /\ Len(trim_targets) = Cardinality(Colored)

\* the stores that are still to be done, and the nodes that are taken: of a pair that
\* two threads store, both with the first
Pending  == UNION {Range(th[t].stores) : t \in Thread}
Stored(v) == G_Color[v] = -2 \/ \E s \in Pending : s.array = "G_Color" /\ s.v = v
Mate(v)  == G_nbr[v] # NIL /\ G_nbr[G_nbr[v]] = v /\ Stored(G_nbr[v])
Taken(v) == Stored(v) \/ Mate(v)
Root(v)  ==
  IF ~Taken(v) THEN NIL
  ELSE IF \E s \in Pending : s.array = "G_SCC" /\ s.v = v
  THEN (CHOOSE s \in Pending : s.array = "G_SCC" /\ s.v = v).val
  ELSE IF ~Stored(v) THEN Min2(v, G_nbr[v]) ELSE G_SCC[v]

\* What the racing threads trim are SCCs: each decision, on colours read one by one
\* while others change, is a trim of FwBw of what nobody has decided on before.
FB == INSTANCE FwBw WITH
        classes <- {{v \in Node : ~Taken(v) /\ G_Color[v] = c} : c \in {-1, 0, 1}} \ {{}},
        G_SCC <- [v \in Node |-> Root(v)]
Refinement == FB!Partitioned /\ FB!WholeSCCs /\ [][FB!Next]_(FB!vars)
=============================================================================
