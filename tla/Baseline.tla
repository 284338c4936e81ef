------------------------------ MODULE Baseline ------------------------------
(***************************************************************************)
(* Method 0 (do_baseline in src/src/scc_main.cc): repeat_global_trim1 by   *)
(* all threads, then start_workers_fw_bw on the rest, whose tasks are      *)
(* do_fw_bw_single_thread on the items of the shared queue.  A node is     *)
(* trimmed and a task is done in one step here: both only write nodes that *)
(* no other thread writes.                                                 *)
(***************************************************************************)
EXTENDS WorkQueue, FiniteSets

CONSTANTS
  Node,         \* the nodes
  NIL,          \* gm_graph::NIL_NODE
  Graphs,       \* the graphs to run on: sets of edges <<v, w>>
  TRIM_STOP     \* repeat_global_trim1 goes on after a pass that trims more

ASSUME NilAssumption      == NIL \notin Node
ASSUME NodeAssumption     == IsFiniteSet(Node)
ASSUME GraphsAssumption   == Graphs \subseteq SUBSET (Node \X Node)
ASSUME TrimStopAssumption == TRIM_STOP \in Nat

VARIABLES
  E,            \* the edges
  G_SCC,        \* per node: the representative of its SCC, or NIL
  trim          \* todo, the nodes this pass has not examined yet; count and
                \* total_count; compact: repeat_global_trim1_compact has begun

vars == <<queueVars, E, G_SCC, trim>>

Item == (SUBSET Node) \ {{}}

Unassigned == {v \in Node : G_SCC[v] = NIL}

Init ==
  /\ QInit("trim")
  /\ E \in Graphs
  /\ G_SCC = [v \in Node |-> NIL]
  /\ trim = [todo |-> Node, count |-> 0, total |-> 0, compact |-> FALSE]

\* the members of a vector
Members(s) == {s[i] : i \in 1 .. Len(s)}

Trimming == \E t \in Worker : pc[t] = "trim"

\* the colour classes: -1 until the workers start, then those of the items
Classes ==
  IF Trimming THEN {Unassigned} \ {{}}
  ELSE Members(the_q) \cup UNION {Members(my_works[t]) \cup Members(Pending(t)) : t \in Worker}

FB == INSTANCE FwBw WITH classes <- Classes

-----------------------------------------------------------------------------
(* Trimming.  The parallel loops examine every node once, in any order;    *)
(* the threads stay at "trim" until the phase ends.                        *)

Trimmable(v) == FB!Trimmable(Unassigned, v)

TrimNode ==
  /\ Trimming
  /\ \E v \in trim.todo :
       \/ /\ Trimmable(v)
          /\ G_SCC' = [G_SCC EXCEPT ![v] = v]
          /\ trim' = [trim EXCEPT !.todo = @ \ {v}, !.count = @ + 1]
       \/ /\ ~Trimmable(v)
          /\ trim' = [trim EXCEPT !.todo = @ \ {v}]
          /\ UNCHANGED G_SCC
  /\ UNCHANGED <<queueVars, E>>

\* the outcomes of a pass: a tenth of the nodes is trimmed; more than TRIM_STOP
Compacts    == ~trim.compact /\ 10 * (trim.total + trim.count) >= Cardinality(Node)
PassesAgain == Compacts \/ trim.count > TRIM_STOP

NextPass ==
  /\ Trimming /\ trim.todo = {} /\ PassesAgain
  /\ trim' = [todo |-> Unassigned, count |-> 0, total |-> trim.total + trim.count,
              compact |-> trim.compact \/ Compacts]
  /\ UNCHANGED <<queueVars, E, G_SCC>>

\* do_baseline: the rest is one item of count G_num_nodes - trimmed; the thread
\* that runs it forks the workers, or returns when nothing is left
BugRest == Cardinality(Node) - (2 * trim.total + trim.count)
Rest    == Cardinality(Node) - (trim.total + trim.count)

StartWorkers ==
  /\ Trimming /\ trim.todo = {} /\ ~PassesAgain
  /\ \/ /\ Rest = 0
        /\ pc' = [t \in Worker |-> "done"]
        /\ UNCHANGED <<the_q, work_queue_empty>>
     \/ /\ Rest # 0
        /\ the_q' = <<Unassigned>>
        /\ work_queue_empty' = FALSE
        /\ pc' = [t \in Worker |-> "set_idle"]
  /\ trim' = [trim EXCEPT !.count = 0, !.total = @ + trim.count]
  /\ UNCHANGED <<q_lock, work_sheet, all_finished, local, scan, b, E, G_SCC>>

-----------------------------------------------------------------------------
(* void start_workers_fw_bw(gm_graph& G, int N)                            *)

\* do_fw_bw_single_thread on item w, for each pivot: the component it identifies
\* and the vector of new items
NonEmpty(S) == IF S = {} THEN <<>> ELSE <<S>>
BugPartsOverlap(w, fw, bw) == NonEmpty(fw \ bw) \o NonEmpty(bw) \o NonEmpty(w \ (fw \cup bw))
BugPartsEmpty(w, fw, bw)   == <<fw \ bw, bw \ fw>> \o NonEmpty(w \ (fw \cup bw))
Parts(w, fw, bw)           == NonEmpty(fw \ bw) \o NonEmpty(bw \ fw) \o NonEmpty(w \ (fw \cup bw))

Outcome(w, p) ==
  LET fw == FB!Reachable(E, w, p)
      bw == FB!Reachable(FB!Reverse(E), w, p)
  IN  [pivot |-> p, scc |-> fw \cap bw, parts |-> Parts(w, fw, bw)]

\* the while loop on my_works.size() < N: the number of items it moves
Moved(mine, new) ==
  IF Len(mine) < LocalItems THEN LeastOf(LocalItems - Len(mine), Len(new)) ELSE 0

Continue(mine) == IF mine = <<>> THEN "set_idle" ELSE "process"

Process(t) ==
  LET w    == my_works[t][Len(my_works[t])]
      left == Unpopped(my_works[t], 1)
  IN  /\ pc[t] = "process"
      /\ \E o \in {Outcome(w, p) : p \in w} :
           LET m    == Moved(left, o.parts)
               mine == left \o Popped(o.parts, m)
           IN  /\ G_SCC' = FB!Assign(o.scc, o.pivot)
               /\ my_works' = [my_works EXCEPT ![t] = mine]
               /\ new_works' = [new_works EXCEPT ![t] = Unpopped(o.parts, m)]
               /\ Goto(t, IF m < Len(o.parts) THEN "lock_put" ELSE Continue(mine))
      /\ UNCHANGED <<q_lock, the_q, work_sheet, all_finished, work_queue_empty, scan, b, E, trim>>

BugCleared(items) == items
Cleared(items)    == <<>>

Put(t) ==                      \* new_works.clear() and the loop's condition
  /\ pc[t] = "put"
  /\ new_works' = [new_works EXCEPT ![t] = Cleared(@)]
  /\ Goto(t, Continue(my_works[t]))
  /\ UNCHANGED <<q_lock, the_q, work_sheet, all_finished, work_queue_empty, my_works, scan, b,
                 E, G_SCC, trim>>

Fetched(t) ==                  \* lines 315-319
  /\ pc[t] = "fetched"
  /\ Goto(t, IF my_works[t] = <<>> THEN "done" ELSE "process")
  /\ UNCHANGED <<q_lock, the_q, work_sheet, all_finished, work_queue_empty, local, scan, b,
                 E, G_SCC, trim>>

Step(t) ==
  \/ QueueStep(t) /\ UNCHANGED <<E, G_SCC, trim>>
  \/ Process(t) \/ Put(t) \/ Fetched(t)

Done == \A t \in Worker : pc[t] = "done"

Next ==
  \/ TrimNode \/ NextPass \/ StartWorkers
  \/ \E t \in Worker : Step(t)
  \/ Done /\ UNCHANGED vars

Spec == Init /\ [][Next]_vars

\* Every thread goes on.  Nothing more: gm_spinlock_acquire is a test-and-set that
\* favours nobody, so a thread that waits for q_lock may find it taken each time.
Fairness ==
  /\ WF_vars(TrimNode \/ NextPass \/ StartWorkers)
  /\ \A t \in Worker : WF_vars(Step(t))

FairSpec == Spec /\ Fairness

-----------------------------------------------------------------------------
(* Properties                                                              *)

\* The type invariant.
TypeOK ==
  /\ QTypeOK({"trim", "process", "done"}, Item)
  /\ E \in Graphs
  /\ G_SCC \in [Node -> Node \cup {NIL}]
  /\ trim \in [todo : SUBSET Node, count : 0 .. Cardinality(Node),
               total : 0 .. Cardinality(Node), compact : BOOLEAN]

\* A node without an SCC is in exactly one item, counted over the queue and what
\* each thread holds: no task is lost between fetch, refill and put, none is
\* processed twice, and an item never has a node that is already identified.
Holding(s, v) == {i \in 1 .. Len(s) : v \in s[i]}
OneItem ==
  ~Trimming => \A v \in Node :
    Cardinality(Holding(the_q, v))
      + Cardinality(UNION {{t} \X Holding(my_works[t], v) : t \in Worker})
      + Cardinality(UNION {{t} \X Holding(Pending(t), v) : t \in Worker})
    = IF G_SCC[v] = NIL THEN 1 ELSE 0

\* When all threads have returned, every node has an SCC.
AllIdentified == Done => Unassigned = {}

\* All methods' promise: trimming and the tasks split the classes as FwBw does;
\* queue operations do not touch them.
Refinement == FB!Spec

\* Only one thing can keep the threads from returning: thread 0, which takes the
\* lock again and again to find that a thread is not idle (my_sleep stops pausing
\* after 100000 rounds), keeps it from the thread that waits to put its items into
\* the empty queue.  Otherwise all of them find out that the work is done and
\* return, whatever the order in which they go idle and thread 0 looks at their
\* sheets; no thread that waits to fetch starves, nor does thread 0.
Starved(t) == pc[t] = "lock_put" /\ the_q = <<>>
EndsUnlessStarved ==
  <>Done \/ ([]<>(pc[0] = "size") /\ \E t \in Worker \ {0} : <>[]Starved(t))
=============================================================================
