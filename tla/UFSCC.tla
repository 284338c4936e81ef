------------------------------- MODULE UFSCC -------------------------------
(***************************************************************************)
(* The UFSCC algorithm: every OpenMP thread runs scc_ufscc_recurse from    *)
(* each unvisited state of its chunk of the nodes, on the shared           *)
(* union-find structure (do_ufscc_all in src/src/scc_ufscc.cc).            *)
(***************************************************************************)
EXTENDS UnionFind, FiniteSets, Functions

CONSTANT Graphs   \* the graphs to run on: for each slot the sorted successors
                  \* node_idx[begin[v] .. begin[v+1]-1]; none for slot 0

ASSUME GraphsAssumption == Graphs \subseteq [Slot -> Seq(Node)]

VARIABLES
  G,       \* the graph
  tls,     \* thread-local: i, the loop counter; roots; rec, the recursion stack
           \* of frames [v_p, k, v]; v, v_p, k, w of scc_ufscc_recurse, k counted
           \* from begin[v_p]; unique, local_c->n_unique_states
  total,   \* global_c->n_unique_states
  G_SCC    \* the result, as slots

vars == <<ufVars, G, tls, total, G_SCC>>

\* #pragma omp for, static schedule: thread t runs the iterations
\* ChunkFirst(t) .. ChunkFirst(t+1)-1; the first N % NWorkers chunks have one more
LeastOf(a, b) == IF a < b THEN a ELSE b
ChunkFirst(t) == 1 + t * (N \div NWorkers) + LeastOf(t, N % NWorkers)

Init ==
  /\ UFInit
  /\ G \in Graphs
  /\ pc = [t \in Worker |-> "next"]
  /\ tls = [t \in Worker |-> [i |-> ChunkFirst(t), roots |-> <<>>, rec |-> <<>>,
                              v |-> 0, v_p |-> 0, k |-> 0, w |-> 0, unique |-> 0]]
  /\ total = 0
  /\ G_SCC = [n \in Node |-> 0]

\* uf_stack_array, the last element on top; slot 0 stands for what the code
\* reads below an empty stack
Top(s) == IF s = <<>> THEN 0 ELSE s[Len(s)]
Pop(s) == SubSeq(s, 1, Len(s) - 1)

-----------------------------------------------------------------------------
(* static void scc_ufscc_recurse (...)                                     *)

\* line 582: the k-th edge, rotated by the thread's id
Successor(t, state, k) == G[state][1 + ((k + t) % Len(G[state]))]

First(t) == IF ret[t].code = "CLAIM_FIRST" THEN 1 ELSE 0

\* Node v of the graph is v + 1 here: its entry in uf_array (line 566).

Enter(t) ==                    \* lines 562-566
  LET me == tls[t]
  IN  /\ pc[t] = "enter"
      /\ IF me.rec = <<>>
         THEN CallPick(t, me.v, <<"explore">>) /\ UNCHANGED path
         ELSE CallSameset(t, me.rec[Len(me.rec)].v, me.v, "entered")
      /\ UNCHANGED <<uf, G_Color, tls>>

Entered(t) ==                  \* lines 562-566
  /\ pc[t] = "entered"
  /\ \/ ret[t].code = "same" /\ Resume(t, "backtrack") /\ UNCHANGED loc
     \/ ret[t].code = "different" /\ CallPick(t, tls[t].v, <<"explore">>)
  /\ UNCHANGED <<uf, G_Color, path, tls>>

Explore(t) ==                  \* lines 567-575
  LET picked == ret[t].code = "PICK_SUCCESS"
  IN  /\ pc[t] = "explore"
      /\ \/ picked /\ Resume(t, "edge") /\ tls' = [tls EXCEPT ![t].v_p = ret[t].node, ![t].k = 0]
         \/ ~picked /\ Resume(t, "backtrack") /\ UNCHANGED tls
      /\ UNCHANGED <<uf, G_Color, path, loc>>

Edge(t) ==                     \* lines 575-589 and 640
  LET me   == tls[t]
      last == me.k >= Len(G[me.v_p])
      w    == Successor(t, me.v_p, me.k)
  IN  /\ pc[t] = "edge"
      /\ \/ last /\ CallRemove(t, me.v_p, "enter") /\ UNCHANGED <<path, tls>>
         \/ /\ ~last /\ w = me.v_p
            /\ tls' = [tls EXCEPT ![t].k = @ + 1]
            /\ UNCHANGED <<control, path, loc>>
         \/ /\ ~last /\ w # me.v_p
            /\ tls' = [tls EXCEPT ![t].w = w]
            /\ CallClaim(t, w, "claimed")
            /\ UNCHANGED loc
      /\ UNCHANGED <<uf, G_Color>>

NextEdge(t) == tls' = [tls EXCEPT ![t].k = @ + 1, ![t].w = 0] /\ Resume(t, "edge")

Claimed(t) ==                  \* lines 592-631
  LET me == tls[t]
  IN  /\ pc[t] = "claimed"
      /\ \/ ret[t].code = "CLAIM_DEAD" /\ NextEdge(t) /\ UNCHANGED <<path, loc>>
         \/ /\ ret[t].code \in {"CLAIM_FIRST", "CLAIM_SUCCESS"}
            /\ tls' = [tls EXCEPT ![t].unique = @ + First(t),
                                  ![t].rec = Append(@, [v_p |-> me.v_p, k |-> me.k, v |-> me.v]),
                                  ![t].roots = Append(@, me.w),
                                  ![t].v = me.w, ![t].w = 0]
            /\ Resume(t, "enter")
            /\ UNCHANGED <<path, loc>>
         \/ /\ ret[t].code = "CLAIM_FOUND"
            /\ CallSameset(t, me.w, me.v, "found")
            /\ UNCHANGED tls
      /\ UNCHANGED <<uf, G_Color>>

Found(t) ==                    \* lines 631-635
  LET rest == Pop(tls[t].roots)
  IN  /\ pc[t] = "found"
      /\ \/ ret[t].code = "same" /\ NextEdge(t) /\ UNCHANGED <<path, loc>>
         \/ /\ ret[t].code = "different"
            /\ tls' = [tls EXCEPT ![t].roots = rest]
            /\ CallUnite(t, Top(rest), Top(tls[t].roots), "united")
      /\ UNCHANGED <<uf, G_Color>>

United(t) ==                   \* line 631
  /\ pc[t] = "united"
  /\ CallSameset(t, tls[t].w, tls[t].v, "found")
  /\ UNCHANGED <<uf, G_Color, tls>>

BugRootsLeft(t) == tls[t].roots
RootsLeft(t)    == IF Top(tls[t].roots) = tls[t].v THEN Pop(tls[t].roots) ELSE tls[t].roots

Backtrack(t) ==                \* lines 644-652 and 615-620
  LET me    == tls[t]
      frame == me.rec[Len(me.rec)]
  IN  /\ pc[t] = "backtrack"
      /\ \/ /\ me.rec = <<>>
            /\ tls' = [tls EXCEPT ![t].roots = RootsLeft(t), ![t].i = @ + 1, ![t].v = 0, ![t].v_p = 0,
                                  ![t].k = 0]
            /\ Goto(t, "next")
            /\ UNCHANGED path
         \/ /\ me.rec # <<>>
            /\ tls' = [tls EXCEPT ![t].roots = RootsLeft(t), ![t].rec = Pop(@),
                                  ![t].v = frame.v, ![t].v_p = frame.v_p, ![t].k = frame.k]
            /\ CallFind(t, frame.v, <<"is_dead">>)
      /\ UNCHANGED <<uf, G_Color, loc>>

BugBreaks(f) == uf[f].uf_status # DEAD
Breaks(f)    == uf[f].uf_status = DEAD

IsDead(t) ==                   \* lines 620-621, is_dead
  LET f == ret[t].node
  IN  /\ pc[t] = "is_dead"
      /\ \/ Breaks(f) /\ CallRemove(t, tls[t].v_p, "enter") /\ UNCHANGED tls
         \/ ~Breaks(f) /\ NextEdge(t) /\ UNCHANGED loc
      /\ UNCHANGED <<uf, G_Color, path>>

-----------------------------------------------------------------------------
(* void do_ufscc_all (gm_graph& G)                                         *)

NextState(t) ==                \* lines 673-675
  LET n == tls[t].i
  IN  /\ pc[t] = "next"
      /\ \/ n = ChunkFirst(t + 1) /\ Goto(t, "join") /\ UNCHANGED <<path, tls>>
         \/ /\ n < ChunkFirst(t + 1) /\ G_Color[n] = -2
            /\ tls' = [tls EXCEPT ![t].i = n + 1]
            /\ UNCHANGED <<control, path>>
         \/ /\ n < ChunkFirst(t + 1) /\ G_Color[n] # -2
            /\ tls' = [tls EXCEPT ![t].v = n]
            /\ CallClaim(t, n, "start")
      /\ UNCHANGED <<uf, G_Color, loc>>

Start(t) ==                    \* lines 675-680 and 557
  /\ pc[t] = "start"
  /\ tls' = [tls EXCEPT ![t].unique = @ + First(t), ![t].roots = Append(@, tls[t].v)]
  /\ Resume(t, "enter")
  /\ UNCHANGED <<uf, G_Color, path, loc>>

Join(t) ==                     \* lines 684-696, and the barrier of line 701
  /\ pc[t] = "join"
  /\ total' = total + tls[t].unique
  /\ tls' = [tls EXCEPT ![t].unique = 0]
  /\ Goto(t, "done")
  /\ UNCHANGED <<uf, G_Color, path, loc, G, G_SCC>>

\* After the barrier one thread (0) continues and computes the result; the finds
\* still compress paths, and the nodes that follow read what they wrote.
Barrier ==                     \* line 701
  /\ \A t \in Worker : pc[t] = "done"
  /\ tls' = [tls EXCEPT ![0].i = 1]
  /\ Goto(0, "collect")
  /\ UNCHANGED <<uf, G_Color, path, loc, G, total, G_SCC>>

Collect ==                     \* lines 714-715
  LET n == tls[0].i
  IN  /\ pc[0] = "collect"
      /\ IF n <= N THEN CallFind(0, n, <<"collected">>)
                   ELSE Goto(0, "end") /\ UNCHANGED path
      /\ UNCHANGED <<uf, G_Color, loc, G, tls, total, G_SCC>>

Collected ==                   \* line 715
  /\ pc[0] = "collected"
  /\ G_SCC' = [G_SCC EXCEPT ![tls[0].i] = ret[0].node]
  /\ tls' = [tls EXCEPT ![0].i = @ + 1]
  /\ Resume(0, "collect")
  /\ UNCHANGED <<uf, G_Color, path, loc, G, total>>

Reported == pc[0] = "end"

Terminated == Reported /\ UNCHANGED vars   \* the program has ended

Recurse(t) ==
  \/ Enter(t) \/ Entered(t) \/ Explore(t) \/ Edge(t) \/ Claimed(t)
  \/ Found(t) \/ United(t) \/ Backtrack(t) \/ IsDead(t)

Step(t) ==
  \/ UFStep(t) /\ UNCHANGED <<G, tls, total, G_SCC>>
  \/ (Recurse(t) \/ NextState(t) \/ Start(t)) /\ UNCHANGED <<G, total, G_SCC>>
  \/ Join(t)

Report == Barrier \/ Collect \/ Collected

Next == (\E t \in Worker : Step(t)) \/ Report \/ Terminated

Spec     == Init /\ [][Next]_vars
FairSpec == Spec /\ (\A t \in Worker : WF_vars(Step(t))) /\ WF_vars(Report)

-----------------------------------------------------------------------------
(* Properties                                                              *)

Callers == {"next", "start", "enter", "entered", "explore", "edge", "claimed", "found",
            "united", "backtrack", "is_dead", "join", "done", "collect", "collected", "end"}

TypeOK ==
  /\ UFTypeOK(Callers)
  /\ G \in Graphs
  /\ tls \in [Worker -> [i : Nat, roots : Seq(Slot), v : Slot, v_p : Slot, w : Slot,
                         rec : Seq([v_p : Slot, k : Nat, v : Slot]), k : Nat, unique : Nat]]
  /\ total \in Nat
  /\ G_SCC \in [Node -> Slot]

DeadNodes == LET root == [n \in Node |-> Root[n]]
             IN  {n \in Node : uf[root[n]].uf_status = DEAD}

Successors == [g \in Graphs |-> [n \in Node |-> Range(g[n])]]

\* The nodes reachable from n: those in every successor-closed set that has n
Reach(succ, n) ==
  {m \in Node : \A S \in SUBSET Node :
                  (n \in S /\ \A x \in S : succ[x] \subseteq S) => m \in S}
SCC == [succ \in Range(Successors) |->
          LET reach == [n \in Node |-> Reach(succ, n)]
          IN  [n \in Node |-> {m \in reach[n] : n \in reach[m]}]]

\* The decomposition is the one promised by SCCPartition: sets are united only
\* inside a strongly connected component, only a whole component whose
\* successors are all completed becomes DEAD, and the reported G_SCC are the
\* components, whatever the number of workers that explored each of them.
Partition ==
  INSTANCE SCCPartition WITH
    graph    <- Successors[G],
    part     <- Parts,
    complete <- DeadNodes,
    result   <- [n \in Node |-> IF Reported THEN {m \in Node : G_SCC[m] = G_SCC[n]} ELSE {}]
Refinement == Partition!PSpec

\* Every edge out of an explored (TOMB) state stays in its set or leads to a
\* completed SCC: what entitles a worker to drop the state from the list (line
\* 640) even after it broke out of the edge loop early (line 621).
ExploredClosed ==
  LET parts == Parts
      completed == DeadNodes
  IN  \A n \in Node : uf[n].list_status = TOMB =>
        Successors[G][n] \subseteq parts[n] \cup completed

\* A completed SCC is explored entirely: pick_from_list saw one self-loop (line
\* 156) after others shortened the list, and nothing LIVE was cut off.
DeadExplored == \A n \in DeadNodes : uf[n].list_status = TOMB

\* sameset answers "same" only if the states are in one set, although neither
\* call of find is atomic and its caller at line 562 passes a state that is no
\* representative (line 272 assumes one).
SamesetSound ==
  \A t \in Worker : ret[t].code = "same" =>
    /\ pc[t] = "found" => Root[tls[t].w] = Root[tls[t].v]
    /\ pc[t] = "entered" => Root[tls[t].rec[Len(tls[t].rec)].v] = Root[tls[t].v]

\* CLAIM_FOUND means what line 213 says: "we have visited its SCC before".
\* One of its roots is in the set, so uniting the roots down to it (lines
\* 631-635) ends.
FoundOnRoots ==
  \A t \in Worker : pc[t] = "claimed" /\ ret[t].code = "CLAIM_FOUND" =>
    \E r \in Range(tls[t].roots) : Root[r] = Root[tls[t].w]

\* The stacks of lines 668-669 are used within their bounds and never below
\* empty (lines 633-635, 644), are empty again for the next initial state, and
\* node -1 (slot 0) is never written or explored.
StacksInBounds ==
  /\ uf[0] = uf_node
  /\ \A t \in Worker :
       /\ Len(tls[t].roots) <= N /\ 3 * Len(tls[t].rec) <= 3 * N
       /\ pc[t] = "found" /\ ret[t].code = "different" => Len(tls[t].roots) > 1
       /\ pc[t] = "backtrack" => tls[t].roots # <<>>
       /\ pc[t] = "next" => tls[t].roots = <<>> /\ tls[t].rec = <<>>
       /\ pc[t] = "edge" => tls[t].v_p \in Node

\* Each state is claimed first (line 241) exactly once, by one worker: the
\* counts the workers add up (line 686) are the number of claimed states.
UniqueCounted ==
  LET pending == {t \in Worker : loc[t].first \/ ret[t].code = "CLAIM_FIRST"}
  IN  Cardinality({n \in Node : uf[n].workers # {}})
        = total + FoldFunction(+, 0, [t \in Worker |-> tls[t].unique]) + Cardinality(pending)

\* All workers return and the components are reported.
Termination == <>Reported
=============================================================================
