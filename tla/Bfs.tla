-------------------------------- MODULE Bfs --------------------------------
(***************************************************************************)
(* The parallel breadth-first search of                                    *)
(* src/gm_graph/inc/gm_bfs_template.h with use_multithread, has_navigator  *)
(* and not save_child, as scc_fb_global.cc instantiates it.  The threads   *)
(* work on one level; the last to finish it takes the search to the next   *)
(* one and chooses how: from the queue of the level (QUE, Q2R), from the   *)
(* levels of all nodes (RD, R2Q), or asking every unvisited node for a     *)
(* parent (RRD, RR2Q); Q2R and RD and RRD fill no queue for the next.      *)
(***************************************************************************)
EXTENDS Integers, Sequences, FiniteSets, SequencesExt

CONSTANTS
  N,            \* G.num_nodes(): the nodes are 0 .. N - 1
  Graphs,       \* the graphs to run on: sets of edges <<v, w>>
  NThreads,     \* gm_rt_get_num_threads(): the threads are 0 .. NThreads - 1
  CHUNK,        \* nodes a thread takes at a time: schedule(dynamic,128)
  BYTE,         \* nodes of a byte of visited_bitmap: 8
  THRESHOLD2, GROWTH,   \* 1024 and 5
  HALF,         \* the levels are numbers of -HALF .. HALF - 1: 32768 for a short
  Limits        \* pairs to run with: small, THRESHOLD1 (128), and wide,
                \* G.num_nodes() * RRD_THRESHOLD

ASSUME BfsAssumption ==
  /\ N \in Nat \ {0} /\ NThreads \in Nat \ {0} /\ CHUNK \in Nat \ {0} /\ BYTE \in Nat \ {0}
  /\ THRESHOLD2 \in Nat /\ GROWTH \in Nat
  /\ \A l \in Limits : l.small \in Nat /\ l.wide \in Nat
  /\ HALF \in Nat /\ HALF > 2
  /\ CHUNK % BYTE = 0

Node    == 0 .. N - 1
Thread  == 0 .. NThreads - 1
NoNode  == -1
INVALID == -2   \* __INVALID_LEVEL

VARIABLES
  E, limits,
  G_Color,          \* per node: its colour, what check_navigator looks at
  search,           \* the search object: root, reverse edges, colours visited
  state,            \* how this level is searched
  lv,               \* curr_level, curr_count, next_count, global_curr_level_begin,
                    \* global_next_level_begin and already_expanded
  small_visited,    \* the map of levels while the search is small
  visited_bitmap, visited_level, global_vector,
  loop,             \* the first index of this level's loop not handed out
  th                \* per thread: pc, the node it is at, ..., thread_local_next_level

bfsVars == <<E, limits, search, state, lv, small_visited, visited_bitmap, visited_level,
             global_vector, loop, th>>

Neighbors(v) == {w \in Node : (IF search.reverse THEN <<w, v>> ELSE <<v, w>>) \in E}
Parents(v)   == {w \in Node : (IF search.reverse THEN <<v, w>> ELSE <<w, v>>) \in E}

check_navigator(u) == G_Color[u] \in search.colors

\* curr_level + 1 in a level_t
Next1(l) == IF l = HALF - 1 THEN -HALF ELSE l + 1

ByteOf(v) == {u \in Node : u \div BYTE = v \div BYTE}

\* copy the members of q to positions from .. of the vector
Memcpy(vec, from, q) ==
  [i \in 0 .. N - 1 |-> IF i - from \in 0 .. Len(q) - 1 THEN q[i - from + 1] ELSE vec[i]]

Resting == [pc |-> "barrier", ix |-> 0, end |-> 0, todo |-> {}, u |-> NoNode, byte |-> {},
            cnt |-> 0, q |-> <<>>]

\* prepare and the first part of do_bfs_forward: the root is the level 0
Prepared(root, reverse, colors) ==
  /\ search' = [root |-> root, reverse |-> reverse, colors |-> colors]
  /\ state' = "SMALL"
  /\ lv' = [level |-> 0, count |-> 1, next |-> 0, begin |-> 0, nbegin |-> 1,
            expanded |-> FALSE]
  /\ small_visited' = [v \in {root} |-> 0]
  /\ visited_bitmap' = {}
  /\ visited_level' = [v \in Node |-> INVALID]
  /\ global_vector' = [i \in 0 .. N - 1 |-> IF i = 0 THEN root ELSE NoNode]
  /\ loop' = 0
  /\ th' = [t \in Thread |-> Resting]

-----------------------------------------------------------------------------
(* ST_SMALL: one thread, and a map instead of the arrays.                  *)

SmallNode == global_vector[lv.begin + loop]

\* iterate_neighbor_small(t); visit_fw(t) is the caller's
IterateSmall ==
  LET new == {u \in Neighbors(SmallNode) \ DOMAIN small_visited : check_navigator(u)}
  IN  /\ state = "SMALL" /\ loop < lv.count
      /\ small_visited' = [u \in DOMAIN small_visited \cup new |->
                             IF u \in new THEN Next1(lv.level) ELSE small_visited[u]]
      /\ \E q \in SetToSeqs(new) :
           global_vector' = Memcpy(global_vector, lv.nbegin + lv.next, q)
      /\ lv' = [lv EXCEPT !.next = @ + Cardinality(new)]
      /\ loop' = loop + 1
      /\ UNCHANGED <<E, limits, search, state, visited_bitmap, visited_level, th>>

-----------------------------------------------------------------------------
(* The other states: all threads.                                          *)

FromQueue == state \in {"QUE", "Q2R"}
ToQueue   == state \in {"QUE", "R2Q", "RR2Q"}
AskParent == state \in {"RRD", "RR2Q"}

Total == IF FromQueue THEN lv.count ELSE N

BugChunkEnd(from) == from + BYTE - 1
ChunkEnd(from)    == from + CHUNK

Grab(t) ==
  /\ th[t].pc = "idle" /\ loop < Total
  /\ LET end == IF ChunkEnd(loop) < Total THEN ChunkEnd(loop) ELSE Total
     IN  /\ th' = [th EXCEPT ![t].pc = "node", ![t].ix = loop, ![t].end = end]
         /\ loop' = end
  /\ UNCHANGED <<E, limits, search, state, lv, small_visited, visited_bitmap, visited_level,
                 global_vector>>

\* the node a thread is at
NodeOf(t) == IF FromQueue THEN global_vector[lv.begin + th[t].ix] ELSE th[t].ix

\* the thread goes on to the next index of its chunk
NextIndex(r) == [r EXCEPT !.ix = @ + 1, !.pc = IF r.ix + 1 < r.end THEN "node" ELSE "idle"]

\* check_parent_rrd, its navigator first
check_parent_rrd(v) == check_navigator(v) /\ \E u \in Parents(v) : visited_level[u] = lv.level

Expands(t)  == ~AskParent /\ (FromQueue \/ visited_level[NodeOf(t)] = lv.level)
Visits(t)   == AskParent /\ visited_level[NodeOf(t)] = lv.level
HasParent(t) == AskParent /\ visited_level[NodeOf(t)] = INVALID /\ check_parent_rrd(NodeOf(t))

\* the loop's body up to the first access to shared data: the node is expanded,
\* it found a parent and the byte of its bit is read, or it is passed over
Enter(t) ==
  /\ th[t].pc = "node" /\ ~Visits(t)
  /\ th' = [th EXCEPT ![t] =
       IF Expands(t) THEN [@ EXCEPT !.pc = "edges", !.todo = Neighbors(NodeOf(t))]
       ELSE IF HasParent(t) THEN [@ EXCEPT !.pc = "byte", !.byte = visited_bitmap \cap ByteOf(NodeOf(t))]
       ELSE NextIndex(@)]
  /\ UNCHANGED <<E, limits, search, state, lv, small_visited, visited_bitmap, visited_level,
                 global_vector, loop>>

\* the state of a thread that adds u to the next level
Added(r, u) == IF ToQueue THEN [r EXCEPT !.q = Append(@, u)] ELSE [r EXCEPT !.cnt = @ + 1]

\* _gm_set_bit in RRD and RR2Q stores the byte that was read, with the bit
SetByte(t) ==
  LET v == NodeOf(t)
  IN  /\ th[t].pc = "byte"
      /\ visited_bitmap' = (visited_bitmap \ ByteOf(v)) \cup th[t].byte \cup {v}
      /\ visited_level' = [visited_level EXCEPT ![v] = Next1(lv.level)]
      /\ th' = [th EXCEPT ![t] = NextIndex(Added([@ EXCEPT !.byte = {}], v))]
      /\ UNCHANGED <<E, limits, search, state, lv, small_visited, global_vector, loop>>

\* iterate_neighbor_que and iterate_neighbor_rd: test ...
Test(t) ==
  /\ th[t].pc = "edges"
  /\ \E u \in th[t].todo :
       th' = [th EXCEPT ![t].todo = @ \ {u},
                        ![t].pc = IF u \notin visited_bitmap /\ check_navigator(u) THEN "set" ELSE @,
                        ![t].u = IF u \notin visited_bitmap /\ check_navigator(u) THEN u ELSE NoNode]
  /\ UNCHANGED <<E, limits, search, state, lv, small_visited, visited_bitmap, visited_level,
                 global_vector, loop>>

\* ... and set: _gm_set_bit_atomic tells whether this thread set the bit
Wins(u) == u \notin visited_bitmap

TestAndSet(t) ==
  LET u == th[t].u
  IN  /\ th[t].pc = "set"
      /\ visited_bitmap' = visited_bitmap \cup {u}
      /\ visited_level' = IF Wins(u) THEN [visited_level EXCEPT ![u] = Next1(lv.level)] ELSE visited_level
      /\ th' = [th EXCEPT ![t] = LET r == [@ EXCEPT !.pc = "edges", !.u = NoNode]
                                 IN  IF Wins(u) THEN Added(r, u) ELSE r]
      /\ UNCHANGED <<E, limits, search, state, lv, small_visited, global_vector, loop>>

\* the thread leaves its node: visit_fw is the caller's
Leave(t) ==
  /\ \/ th[t].pc = "edges" /\ th[t].todo = {}
     \/ th[t].pc = "node" /\ Visits(t)
  /\ th' = [th EXCEPT ![t] = NextIndex(@)]
  /\ UNCHANGED <<E, limits, search, state, lv, small_visited, visited_bitmap, visited_level,
                 global_vector, loop>>

\* finish_thread_que and finish_thread_rd, each at the place it adds its count to
FinishThread(t) ==
  /\ th[t].pc = "idle" /\ loop >= Total
  /\ lv' = [lv EXCEPT !.next = @ + Len(th[t].q) + th[t].cnt]
  /\ global_vector' = Memcpy(global_vector, lv.nbegin + lv.next, th[t].q)
  /\ th' = [th EXCEPT ![t] = Resting]
  /\ UNCHANGED <<E, limits, search, state, small_visited, visited_bitmap, visited_level, loop>>

-----------------------------------------------------------------------------
(* Between two levels: get_next_state and finish_level.                    *)

LevelDone == (\A t \in Thread : th[t].pc = "barrier") /\ (state = "SMALL" => loop = lv.count)

NextState(s) ==
  LET wider == lv.next >= limits.wide
      few   == lv.next <= 2 * lv.count
  IN  CASE s = "SMALL" -> IF lv.next >= limits.small THEN "QUE" ELSE "SMALL"
        [] s = "QUE"   -> IF lv.expanded THEN "QUE"
                          ELSE IF wider THEN "RRD"
                          ELSE IF lv.next >= THRESHOLD2 /\ lv.next >= GROWTH * lv.count THEN "Q2R"
                          ELSE "QUE"
        [] s = "Q2R"   -> IF wider THEN "RRD" ELSE "RD"
        [] s = "RD"    -> IF wider THEN "RRD" ELSE IF few THEN "R2Q" ELSE "RD"
        [] s = "RRD"   -> IF few THEN "RR2Q" ELSE "RRD"
        [] s \in {"R2Q", "RR2Q"} -> "QUE"

Finished == LevelDone /\ lv.next = 0

\* a level searched in RD or Q2R leaves the place of the next queue where it is
NextLevel ==
  /\ LevelDone /\ lv.next > 0
  /\ state' = NextState(state)
  /\ lv' = [lv EXCEPT !.level = Next1(@), !.count = lv.next, !.next = 0,
                      !.begin = IF state \in {"RD", "Q2R"} THEN @ ELSE lv.nbegin,
                      !.nbegin = IF state \in {"RD", "Q2R"} THEN @ ELSE @ + lv.next,
                      !.expanded = @ \/ (state = "QUE" /\ state' # "QUE")]
  /\ IF state = "SMALL" /\ state' = "QUE"
     THEN /\ visited_bitmap' = DOMAIN small_visited          \* prepare_que
          /\ visited_level' = [v \in Node |-> IF v \in DOMAIN small_visited
                                              THEN small_visited[v] ELSE INVALID]
     ELSE UNCHANGED <<visited_bitmap, visited_level>>
  /\ loop' = 0
  /\ th' = IF state' = "SMALL" THEN th ELSE [t \in Thread |-> [Resting EXCEPT !.pc = "idle"]]
  /\ UNCHANGED <<E, limits, search, small_visited, global_vector>>

\* a step inside a level that visits no node
SearchOf(t) == Grab(t) \/ Enter(t) \/ SetByte(t) \/ Test(t) \/ TestAndSet(t) \/ FinishThread(t)
=============================================================================
