-------------------------- MODULE FwBwTasksProofs --------------------------
(***************************************************************************)
(* The tasks of the workers, for every number of threads, every graph,     *)
(* every size of a chunk of colours and every size at which a set is       *)
(* dropped: the colours of src/src/scc_color.cc are unique; a search that  *)
(* the other threads interrupt at every node finds what its pivot reaches  *)
(* in the class of its task; the items are exact; and so the tasks split   *)
(* the classes as FwBw does, and what FwBwProofs shows of FwBw holds.      *)
(***************************************************************************)
EXTENDS FwBwTasks, FiniteSetTheorems, TLAPS

-----------------------------------------------------------------------------
(* The colours.                                                            *)

used(t) == the_colors[t].used
max(t)  == the_colors[t].max

\* What is left of a chunk lies below the_color.
InChunk ==
  /\ the_color >= -1
  /\ \A t \in Thread : -1 <= used(t) /\ used(t) <= max(t) /\ max(t) <= the_color

\* Of two chunks one lies below what the other has given out.
ChunksApart == \A t, u \in Thread : t # u => max(t) <= used(u) \/ max(u) <= used(t)

\* What a thread has given out is in no chunk's rest, and nothing above the_color.
GivenBelow == \A t, u \in Thread : \A c \in given[u] :
  /\ c <= the_color
  /\ ~(used(t) < c /\ c <= max(t))

\* No two threads have given out one colour.
GivenApart == \A t, u \in Thread : t # u => given[t] \cap given[u] = {}

ColorInv == ColorTypeOK /\ InChunk /\ ChunksApart /\ GivenBelow /\ GivenApart

-----------------------------------------------------------------------------
\* The next colour of a thread is new: of a new chunk, or of the rest of its own.
LEMMA NextIsNew ==
  ASSUME ColorInv, NEW t \in Thread
  PROVE  /\ NewColor(t) \in Int
         /\ NewColor(t) >= 0
         /\ \A u \in Thread : NewColor(t) \notin given[u]
<1>1. /\ the_color \in Int /\ used(t) \in Int /\ max(t) \in Int
  BY DEF ColorInv, ColorTypeOK, used, max
<1>2. /\ the_color >= -1 /\ -1 <= used(t) /\ used(t) <= max(t)
  BY DEF ColorInv, InChunk
<1>3. ASSUME NEW u \in Thread PROVE given[u] \subseteq Int
  BY <1>3 DEF ColorInv, ColorTypeOK
<1>4. ASSUME NEW u \in Thread, NEW c \in given[u]
      PROVE  c <= the_color /\ ~(used(t) < c /\ c <= max(t))
  BY <1>4 DEF ColorInv, GivenBelow
<1>5. CASE Exhausted(t)
  <2>1. NewColor(t) = the_color + 1
    BY <1>5 DEF NewColor
  <2> QED
    BY <2>1, <1>1, <1>2, <1>3, <1>4
<1>6. CASE ~Exhausted(t)
  <2>1. NewColor(t) = used(t) + 1
    BY <1>6 DEF NewColor, used
  <2>2. used(t) < max(t)
    BY <1>1, <1>2, <1>6 DEF Exhausted, used, max
  <2> QED
    BY <2>1, <2>2, <1>1, <1>2, <1>3, <1>4
<1> QED
  BY <1>5, <1>6

\* The colours at the start.
LEMMA ColorInit == initialize_color => ColorInv
<1> SUFFICES ASSUME initialize_color PROVE ColorInv
  OBVIOUS
<1>1. /\ the_color = -1
      /\ \A t \in Thread : the_colors[t].used = -1 /\ the_colors[t].max = -1 /\ given[t] = {}
      /\ the_colors \in [Thread -> [used : Int, max : Int]]
      /\ given \in [Thread -> SUBSET Int]
  BY DEF initialize_color
<1> QED
  BY <1>1 DEF ColorInv, ColorTypeOK, InChunk, ChunksApart, GivenBelow, GivenApart, used, max

\* get_new_color keeps the chunks and what was given out of them apart.
LEMMA ColorStep ==
  ASSUME ColorInv, NEW t \in Thread, get_new_color(t)
  PROVE  ColorInv'
<1> DEFINE n == NewColor(t)
<1> HIDE DEF n
<1>0. COLOR_CHUNK \in Nat /\ COLOR_CHUNK >= 1
  BY ColorsAssumption
<1>1. /\ n \in Int
      /\ n >= 0
      /\ \A u \in Thread : n \notin given[u]
  BY NextIsNew DEF n
<1>2. /\ the_color \in Int
      /\ the_colors \in [Thread -> [used : Int, max : Int]]
      /\ given \in [Thread -> SUBSET Int]
  BY DEF ColorInv, ColorTypeOK
<1>3. /\ given' \in [Thread -> SUBSET Int]
      /\ given'[t] = given[t] \cup {n}
      /\ \A u \in Thread : u # t => given'[u] = given[u]
  BY <1>1, <1>2 DEF get_new_color, n
\* the two branches: where the colour lies, and what is left of the chunk
<1>4. /\ the_color' \in Int /\ the_color' >= the_color
      /\ the_colors' \in [Thread -> [used : Int, max : Int]]
      /\ used(t)' = n
      /\ n <= max(t)' /\ max(t)' <= the_color'
      /\ \A u \in Thread : u # t => used(u)' = used(u) /\ max(u)' = max(u)
      /\ \/ n > the_color
         \/ /\ n = used(t) + 1
            /\ max(t)' = max(t)
  <2>1. CASE Exhausted(t)
    <3>1. /\ the_color' = the_color + COLOR_CHUNK
          /\ the_colors' = [the_colors EXCEPT ![t] = [used |-> the_color' - COLOR_CHUNK + 1,
                                                      max |-> the_color']]
      BY <2>1 DEF get_new_color
    <3>2. n = the_color + 1
      BY <2>1 DEF NewColor, n
    <3>3. the_color' \in Int /\ the_color' - COLOR_CHUNK + 1 = n
      BY <3>1, <3>2, <1>0, <1>2
    <3>4. the_colors' = [the_colors EXCEPT ![t] = [used |-> n, max |-> the_color']]
      BY <3>1, <3>3
    <3> QED
      BY <3>1, <3>2, <3>3, <3>4, <1>0, <1>1, <1>2 DEF used, max
  <2>2. CASE ~Exhausted(t)
    <3>1. /\ the_color' = the_color
          /\ the_colors' = [the_colors EXCEPT ![t].used = @ + 1]
      BY <2>2 DEF get_new_color
    <3>2. n = used(t) + 1
      BY <2>2 DEF NewColor, n, used
    <3>3. used(t) <= max(t) /\ max(t) <= the_color /\ used(t) # max(t)
      BY <2>2 DEF ColorInv, InChunk, Exhausted, used, max
    <3>4. /\ the_colors' \in [Thread -> [used : Int, max : Int]]
          /\ used(t)' = used(t) + 1 /\ max(t)' = max(t)
          /\ \A u \in Thread : u # t => used(u)' = used(u) /\ max(u)' = max(u)
      BY <3>1, <1>2 DEF used, max
    <3>5. used(t) \in Int /\ max(t) \in Int
      BY <1>2 DEF used, max
    <3> QED
      BY <3>1, <3>2, <3>3, <3>4, <3>5, <1>1, <1>2
  <2> QED
    BY <2>1, <2>2
<1>5. /\ \A u \in Thread : used(u) \in Int /\ max(u) \in Int
      /\ \A u \in Thread : -1 <= used(u) /\ used(u) <= max(u) /\ max(u) <= the_color
      /\ the_color >= -1
  BY <1>2 DEF ColorInv, InChunk, used, max
<1>6. ColorTypeOK'
  BY <1>3, <1>4 DEF ColorTypeOK
<1>7. InChunk'
  <2>1. the_color' >= -1
    BY <1>2, <1>4, <1>5
  <2>2. ASSUME NEW u \in Thread
        PROVE  -1 <= used(u)' /\ used(u)' <= max(u)' /\ max(u)' <= the_color'
    <3>1. CASE u = t
      BY <3>1, <1>1, <1>4
    <3>2. CASE u # t
      BY <3>2, <1>2, <1>4, <1>5
    <3> QED
      BY <3>1, <3>2
  <2> QED
    BY <2>1, <2>2 DEF InChunk, used, max
\* what n lies above, of the chunk of another thread
<1>8. ASSUME NEW u \in Thread, u # t
      PROVE  max(u) < n \/ (max(t)' <= used(u) /\ n <= used(u))
  <2>1. max(t) <= used(u) \/ max(u) <= used(t)
    BY <1>8 DEF ColorInv, ChunksApart
  <2>2. used(t) \in Int /\ max(t) \in Int /\ used(u) \in Int /\ max(u) \in Int /\ max(u) <= the_color
    BY <1>5
  <2> QED
    BY <2>1, <2>2, <1>1, <1>2, <1>4
<1>9. ChunksApart'
  <2>1. ASSUME NEW u \in Thread, u # t
        PROVE  max(t)' <= used(u)' \/ max(u)' <= used(t)'
    BY <2>1, <1>1, <1>4, <1>5, <1>8
  <2>2. ASSUME NEW u \in Thread, NEW v \in Thread, u # v, u # t, v # t
        PROVE  max(u)' <= used(v)' \/ max(v)' <= used(u)'
    <3>1. max(u) <= used(v) \/ max(v) <= used(u)
      BY <2>2 DEF ColorInv, ChunksApart
    <3> QED
      BY <3>1, <2>2, <1>4
  <2> QED
    BY <2>1, <2>2 DEF ChunksApart, used, max
<1>10. GivenBelow'
  <2>1. ASSUME NEW v \in Thread, NEW u \in Thread, NEW c \in given[u]
        PROVE  c \in Int /\ c <= the_color /\ ~(used(v) < c /\ c <= max(v))
    BY <2>1, <1>2 DEF ColorInv, GivenBelow
  <2>2. ASSUME NEW v \in Thread
        PROVE  n <= the_color' /\ ~(used(v)' < n /\ n <= max(v)')
    <3>1. n <= the_color'
      <4>1. max(t)' \in Int
        BY <1>4 DEF max
      <4> QED
        BY <4>1, <1>1, <1>4
    <3>2. CASE v = t
      BY <3>1, <3>2, <1>1, <1>4
    <3>3. CASE v # t
      BY <3>1, <3>3, <1>1, <1>4, <1>5, <1>8
    <3> QED
      BY <3>2, <3>3
  <2>3. ASSUME NEW v \in Thread, NEW u \in Thread, NEW c \in given[u]
        PROVE  c <= the_color' /\ ~(used(v)' < c /\ c <= max(v)')
    <3>1. c \in Int /\ c <= the_color /\ ~(used(v) < c /\ c <= max(v)) /\ ~(used(t) < c /\ c <= max(t))
      BY <2>1
    <3>2. CASE v = t
      BY <3>1, <3>2, <1>1, <1>2, <1>4, <1>5
    <3>3. CASE v # t
      BY <3>1, <3>3, <1>2, <1>4
    <3> QED
      BY <3>2, <3>3
  <2>4. ASSUME NEW v \in Thread, NEW u \in Thread, NEW c \in given'[u]
        PROVE  c <= the_color' /\ ~(used(v)' < c /\ c <= max(v)')
    <3>1. c = n \/ c \in given[u]
      BY <1>3
    <3> QED
      BY <3>1, <2>2, <2>3
  <2> QED
    BY <2>4 DEF GivenBelow, used, max
<1>11. GivenApart'
  <2>1. \A u, v \in Thread : u # v => given[u] \cap given[v] = {}
    BY DEF ColorInv, GivenApart
  <2> QED
    BY <2>1, <1>1, <1>3 DEF GivenApart
<1> QED
  BY <1>6, <1>7, <1>9, <1>10, <1>11 DEF ColorInv

-----------------------------------------------------------------------------
\* A step of a task takes one colour of its thread or leaves the colours alone.
LEMMA TasksTakeColors == [Next]_vars => [\E t \in Thread : get_new_color(t)]_colorVars
<1> SUFFICES ASSUME [Next]_vars
             PROVE  (\E t \in Thread : get_new_color(t)) \/ UNCHANGED colorVars
  OBVIOUS
<1>1. ASSUME NEW t \in Thread, FwColor(t) PROVE get_new_color(t)
  BY <1>1 DEF FwColor
<1>2. ASSUME NEW t \in Thread, BwColor(t) PROVE get_new_color(t)
  BY <1>2 DEF BwColor
<1>3. ASSUME NEW t \in Thread, Fetch(t) \/ Pivot(t) PROVE UNCHANGED colorVars
  BY <1>3 DEF Fetch, Pivot
<1>4. ASSUME NEW t \in Thread, Check(t) \/ Enter(t) PROVE UNCHANGED colorVars
  BY <1>4 DEF Check, Enter
<1>5. ASSUME NEW t \in Thread, Exit(t) \/ Leave(t) PROVE UNCHANGED colorVars
  BY <1>5 DEF Exit, Leave
<1>6. ASSUME NEW t \in Thread, Turn(t) \/ EndTask(t) PROVE UNCHANGED colorVars
  BY <1>6 DEF Turn, EndTask
<1>7. CASE \E t \in Thread : Step(t)
  BY <1>1, <1>2, <1>3, <1>4, <1>5, <1>6, <1>7 DEF Step
<1>8. CASE UNCHANGED vars
  BY <1>8 DEF vars
<1> QED
  BY <1>7, <1>8 DEF Next

\* The tasks use the colours as Colors allows, whatever they do with the nodes.
THEOREM TasksImplementColors == Spec => ColorSpec
<1>1. Init => initialize_color
  BY DEF Init
<1> QED
  BY <1>1, TasksTakeColors, PTL DEF Spec, ColorSpec

\* A step of the colours keeps their invariant.
LEMMA ColorsGoOn == ColorInv /\ [\E t \in Thread : get_new_color(t)]_colorVars => ColorInv'
<1> SUFFICES ASSUME ColorInv, [\E t \in Thread : get_new_color(t)]_colorVars
             PROVE  ColorInv'
  OBVIOUS
<1>1. CASE \E t \in Thread : get_new_color(t)
  BY <1>1, ColorStep
<1>2. CASE UNCHANGED colorVars
  BY <1>2 DEF colorVars, ColorInv, ColorTypeOK, InChunk, ChunksApart, GivenBelow, GivenApart, used, max
<1> QED
  BY <1>1, <1>2

\* The colours of the threads stay unique (get_new_color), in every order in which
\* the threads take colours and chunks: however many, and however long the chunks.
THEOREM ColorsAreUnique == Spec => []UniqueColors
<1>1. ColorInv => UniqueColors
  BY NextIsNew DEF ColorInv, GivenApart, UniqueColors
<1> QED
  BY <1>1, ColorsGoOn, ColorInit, TasksImplementColors, PTL DEF ColorSpec

-----------------------------------------------------------------------------
(* The nodes that a search of a task reaches.                              *)

\* the edges of a search, forward or backward, and the nodes next to v
Edges(e, b)         == IF b THEN FB0!Reverse(e) ELSE e
Near(e, b, v)       == {w \in Node : <<v, w>> \in Edges(e, b)}
Reached(e, b, S, p) == FB0!Reachable(Edges(e, b), S, p)

\* The successors of the model are the nodes next to a node.
LEMMA NeighborsAreNear ==
  ASSUME NEW b \in BOOLEAN, NEW v \in Node, E \subseteq Node \X Node
  PROVE  Neighbors(v, b) = Near(E, b, v)
BY DEF Neighbors, Near, Edges, FB0!Reverse

\* A search reaches its pivot, stays in the nodes of the task and follows the edges
\* between them.
LEMMA ReachedGrows ==
  ASSUME NEW e, NEW b, NEW S \in SUBSET Node, NEW p \in S
  PROVE  /\ p \in Reached(e, b, S, p)
         /\ Reached(e, b, S, p) \subseteq S
         /\ \A v \in Reached(e, b, S, p), w \in S : w \in Near(e, b, v) => w \in Reached(e, b, S, p)
BY DEF Reached, Near, FB0!Reachable, FB0!Closed

\* What holds the pivot and is closed under the edges holds what is reached.
LEMMA ReachedLeast ==
  ASSUME NEW e, NEW b, NEW S \in SUBSET Node, NEW p \in S, NEW V \in SUBSET S, p \in V,
         \A v \in V, w \in S : w \in Near(e, b, v) => w \in V
  PROVE  Reached(e, b, S, p) \subseteq V
BY DEF Reached, Near, FB0!Reachable, FB0!Closed

-----------------------------------------------------------------------------
(* The searches: M are the nodes visited and recoloured.                   *)

Frame == [node : Node \cup {NIL}, todo : SUBSET Node]

\* the stack of the depth-first search: a frame without a node at the bottom
Frames(e, b, s) ==
  /\ s.rest \in Seq(Frame) /\ s.rest # <<>>
  /\ s.curr \in s.visited /\ s.todo \subseteq Near(e, b, s.curr)
  /\ s.rest[1].node = NIL
  /\ \A i \in 2 .. Len(s.rest) : /\ s.rest[i].node \in s.visited
                                 /\ s.rest[i].todo \subseteq Near(e, b, s.rest[i].node)

Bottom(s, p) == s.rest = <<>> /\ s.curr = NIL /\ s.todo = {} /\ s.next = p

\* w waits in a frame of v
Waits(s, v, w) == \/ v = s.curr /\ w \in s.todo
                  \/ \E i \in 2 .. Len(s.rest) : v = s.rest[i].node /\ w \in s.rest[i].todo

\* enter_node is to visit s.next
Entering(e, b, s, p, S, M) ==
  /\ s.next \in Reached(e, b, S, p) /\ s.next \notin M
  /\ M = s.visited \ {s.next}
  /\ Bottom(s, p) \/ Frames(e, b, s)
  /\ \A v \in M, w \in S : w \in Near(e, b, v) => w \in s.visited \/ w = s.next \/ Waits(s, v, w)

\* the depth-first search is at the edges of s.curr
Descending(e, b, s, S, M) ==
  /\ M = s.visited /\ Frames(e, b, s)
  /\ \A v \in M, w \in S : w \in Near(e, b, v) => w \in s.visited \/ Waits(s, v, w)

\* the breadth-first search is at the edges of s.curr, which it visits last
Spreading(e, b, s, S, M) ==
  /\ s.rest \in Seq(Node)
  /\ s.curr \in s.visited /\ s.todo \subseteq Near(e, b, s.curr)
  /\ s.curr \notin M /\ \A i \in 1 .. Len(s.rest) : s.rest[i] \in s.visited \ M /\ s.rest[i] # s.curr
  /\ \A i, j \in 1 .. Len(s.rest) : i # j => s.rest[i] # s.rest[j]
  /\ M \subseteq s.visited
  /\ \A v \in s.visited : v \in M \/ v = s.curr \/ \E i \in 1 .. Len(s.rest) : v = s.rest[i]
  /\ \A v \in M, w \in S : w \in Near(e, b, v) => w \in s.visited
  /\ \A w \in S : w \in Near(e, b, s.curr) => w \in s.visited \/ w \in s.todo

Ended(e, b, s, S, M) ==
  /\ M = s.visited
  /\ \A v \in M, w \in S : w \in Near(e, b, v) => w \in s.visited

\* the search of a task: d depth first, b backward, from p in S
Within(e, b, s, p, S) == p \in s.visited /\ s.visited \subseteq Reached(e, b, S, p)

SearchOK(e, d, b, r, S, M) ==
  /\ Within(e, b, r.s, r.pivot, S)
  /\ \/ d /\ r.pc = "enter" /\ Entering(e, b, r.s, r.pivot, S, M)
     \/ d /\ r.pc = "edges" /\ Descending(e, b, r.s, S, M)
     \/ ~d /\ r.pc = "edges" /\ Spreading(e, b, r.s, S, M)
     \/ r.pc = "end" /\ Ended(e, b, r.s, S, M)

\* A search that has ended has visited what is reached.
LEMMA EndedReached ==
  ASSUME NEW e, NEW b, NEW s, NEW S \in SUBSET Node, NEW p \in S, NEW M,
         Within(e, b, s, p, S), Ended(e, b, s, S, M)
  PROVE  M = Reached(e, b, S, p)
<1>1. M = s.visited /\ p \in M /\ M \subseteq Reached(e, b, S, p)
  BY DEF Within, Ended
<1>2. Reached(e, b, S, p) \subseteq S
  BY ReachedGrows
<1>3. Reached(e, b, S, p) \subseteq M
  BY <1>1, <1>2, ReachedLeast DEF Ended
<1> QED
  BY <1>1, <1>3

\* enter_node: the next node is visited and its edges are to be followed.
LEMMA EnterDescends ==
  ASSUME NEW e, NEW b, NEW s, NEW S \in SUBSET Node, NEW p \in S, NEW M,
         Within(e, b, s, p, S), Entering(e, b, s, p, S, M),
         s.curr \in Node \cup {NIL}, s.todo \in SUBSET Node,
         NEW s2, s2.visited = s.visited \cup {s.next}, s2.curr = s.next, s2.todo = Near(e, b, s.next),
         s2.rest = Append(s.rest, [node |-> s.curr, todo |-> s.todo])
  PROVE  /\ Within(e, b, s2, p, S)
         /\ Descending(e, b, s2, S, M \cup {s.next})
<1> DEFINE f == [node |-> s.curr, todo |-> s.todo]
<1>1. f \in Frame /\ f.node = s.curr /\ f.todo = s.todo
  BY DEF Frame
<1> HIDE DEF f
<1>2. s.rest \in Seq(Frame) /\ Len(s.rest) \in Nat
  <2>1. s.rest = <<>> \/ s.rest \in Seq(Frame)
    BY DEF Entering, Bottom, Frames
  <2>2. CASE s.rest = <<>>
    <3>1. s.rest \in Seq(Frame)
      BY <2>2
    <3> QED
      BY <3>1
  <2>3. CASE s.rest \in Seq(Frame)
    BY <2>3
  <2> QED
    BY <2>1, <2>2, <2>3
<1>3. /\ s2.rest \in Seq(Frame) /\ Len(s2.rest) = Len(s.rest) + 1 /\ s2.rest # <<>>
      /\ \A i \in 1 .. Len(s.rest) : s2.rest[i] = s.rest[i]
      /\ s2.rest[Len(s2.rest)] = f
  BY <1>1, <1>2 DEF f
<1>4. Within(e, b, s2, p, S)
  BY DEF Within, Entering
<1>5. M \cup {s.next} = s2.visited
  BY DEF Entering
<1>6. CASE Bottom(s, p)
  <2>1. Len(s2.rest) = 1 /\ s2.rest[1] = f /\ s.curr = NIL
    BY <1>2, <1>3, <1>6 DEF Bottom
  <2>2. Frames(e, b, s2)
    BY <1>1, <1>3, <2>1 DEF Frames
  <2>3. ASSUME NEW v \in s2.visited, NEW w \in S, w \in Near(e, b, v)
        PROVE  w \in s2.visited \/ Waits(s2, v, w)
    <3>1. CASE v = s.next
      BY <2>3, <3>1 DEF Waits
    <3>2. CASE v # s.next
      <4>1. v \in M
        BY <1>5, <2>3, <3>2
      <4>2. ~Waits(s, v, w)
        BY <1>6 DEF Bottom, Waits
      <4> QED
        BY <2>3, <4>1, <4>2 DEF Entering
    <3> QED
      BY <3>1, <3>2
  <2> QED
    BY <1>4, <1>5, <2>2, <2>3 DEF Descending
<1>7. CASE Frames(e, b, s)
  <2>1. Len(s.rest) >= 1 /\ s2.rest[1] = s.rest[1]
    BY <1>2, <1>3, <1>7 DEF Frames
  <2>2. ASSUME NEW i \in 2 .. Len(s2.rest)
        PROVE  /\ s2.rest[i].node \in s2.visited
               /\ s2.rest[i].todo \subseteq Near(e, b, s2.rest[i].node)
    <3>1. CASE i = Len(s2.rest)
      BY <1>1, <1>3, <1>7, <3>1 DEF Frames
    <3>2. CASE i # Len(s2.rest)
      <4>1. i \in 2 .. Len(s.rest) /\ i \in 1 .. Len(s.rest)
        BY <1>2, <1>3, <3>2
      <4> QED
        BY <1>3, <1>7, <4>1 DEF Frames
    <3> QED
      BY <3>1, <3>2
  <2>3. Frames(e, b, s2)
    BY <1>3, <1>7, <2>1, <2>2 DEF Frames
  <2>4. ASSUME NEW v \in s2.visited, NEW w \in S, w \in Near(e, b, v)
        PROVE  w \in s2.visited \/ Waits(s2, v, w)
    <3>1. CASE v = s.next
      BY <2>4, <3>1 DEF Waits
    <3>2. CASE v # s.next /\ Waits(s, v, w)
      <4>1. CASE v = s.curr /\ w \in s.todo
        <5>1. Len(s2.rest) \in 2 .. Len(s2.rest)
          BY <1>2, <1>3, <2>1
        <5> QED
          BY <1>1, <1>3, <4>1, <5>1 DEF Waits
      <4>2. CASE \E i \in 2 .. Len(s.rest) : v = s.rest[i].node /\ w \in s.rest[i].todo
        <5>1. PICK i \in 2 .. Len(s.rest) : v = s.rest[i].node /\ w \in s.rest[i].todo
          BY <4>2
        <5>2. i \in 2 .. Len(s2.rest) /\ i \in 1 .. Len(s.rest)
          BY <1>2, <1>3
        <5>3. s2.rest[i] = s.rest[i]
          BY <1>3, <5>2
        <5> QED
          BY <5>1, <5>2, <5>3 DEF Waits
      <4> QED
        BY <3>2, <4>1, <4>2 DEF Waits
    <3>3. CASE v # s.next /\ ~Waits(s, v, w)
      <4>1. v \in M
        BY <1>5, <2>4, <3>3
      <4> QED
        BY <2>4, <3>3, <4>1 DEF Entering
    <3> QED
      BY <3>1, <3>2, <3>3
  <2> QED
    BY <1>4, <1>5, <2>3, <2>4 DEF Descending
<1> QED
  BY <1>6, <1>7 DEF Entering

\* A neighbour that is visited already, or not of the task, is passed over.
LEMMA SkipDescends ==
  ASSUME NEW e, NEW b, NEW s, NEW S, NEW M, Descending(e, b, s, S, M),
         NEW u, u \in s.visited \/ u \notin S,
         NEW s2, s2.visited = s.visited, s2.curr = s.curr, s2.rest = s.rest, s2.todo = s.todo \ {u}
  PROVE  Descending(e, b, s2, S, M)
<1>1. Frames(e, b, s2)
  BY DEF Descending, Frames
<1>2. ASSUME NEW v \in M, NEW w \in S, w \in Near(e, b, v)
      PROVE  w \in s2.visited \/ Waits(s2, v, w)
  BY <1>2 DEF Descending, Waits
<1> QED
  BY <1>1, <1>2 DEF Descending

\* Another one is entered next.
LEMMA NextEnters ==
  ASSUME NEW e, NEW b, NEW s, NEW S \in SUBSET Node, NEW p \in S, NEW M,
         Within(e, b, s, p, S), Descending(e, b, s, S, M),
         NEW u \in s.todo, u \in S, u \notin s.visited,
         NEW s2, s2.visited = s.visited, s2.curr = s.curr, s2.rest = s.rest, s2.todo = s.todo \ {u},
         s2.next = u
  PROVE  Entering(e, b, s2, p, S, M)
<1>1. Frames(e, b, s2)
  BY DEF Descending, Frames
<1>2. u \in Reached(e, b, S, p)
  BY ReachedGrows DEF Within, Descending, Frames
<1>3. ASSUME NEW v \in M, NEW w \in S, w \in Near(e, b, v)
      PROVE  w \in s2.visited \/ w = u \/ Waits(s2, v, w)
  BY <1>3 DEF Descending, Waits
<1>4. u \notin M /\ M = s2.visited \ {u}
  BY DEF Descending
<1> QED
  BY <1>1, <1>2, <1>3, <1>4 DEF Entering

\* exit_node: the frame below is the current one, or the search has ended.
LEMMA ExitAscends ==
  ASSUME NEW e, NEW b, NEW s, NEW S, NEW M, Descending(e, b, s, S, M), s.todo = {}, NIL \notin s.visited,
         NEW s2, s2.visited = s.visited, s2.curr = s.rest[Len(s.rest)].node,
         s2.todo = s.rest[Len(s.rest)].todo, s2.rest = SubSeq(s.rest, 1, Len(s.rest) - 1)
  PROVE  IF s.rest[Len(s.rest)].node = NIL THEN Ended(e, b, s2, S, M) ELSE Descending(e, b, s2, S, M)
<1> DEFINE n == Len(s.rest)
<1>1. /\ s.rest \in Seq(Frame) /\ n \in Nat /\ n >= 1
      /\ M = s.visited
  BY DEF Descending, Frames
<1>2. \A i \in 2 .. n : s.rest[i].node \in s.visited
  BY DEF Descending, Frames
<1>3. ASSUME NEW v \in M, NEW w \in S, w \in Near(e, b, v), w \notin s.visited
      PROVE  \E i \in 2 .. n : v = s.rest[i].node /\ w \in s.rest[i].todo
  BY <1>3 DEF Descending, Waits
<1> HIDE DEF n
<1>4. CASE s.rest[n].node = NIL
  <2>1. n = 1
    BY <1>1, <1>2, <1>4
  <2>2. \A v \in M, w \in S : w \in Near(e, b, v) => w \in s.visited
    BY <1>3, <2>1
  <2> QED
    BY <1>1, <1>4, <2>2 DEF Ended, n
<1>5. CASE s.rest[n].node # NIL
  <2>1. n >= 2
    <3>1. s.rest[1].node = NIL
      BY DEF Descending, Frames
    <3> QED
      BY <1>1, <1>5, <3>1
  <2>2. /\ s2.rest \in Seq(Frame) /\ Len(s2.rest) = n - 1 /\ s2.rest # <<>>
        /\ \A i \in 1 .. n - 1 : s2.rest[i] = s.rest[i]
    <3>1. s2.rest = SubSeq(s.rest, 1, n - 1) /\ n - 1 \in 1 .. Len(s.rest)
      BY <1>1, <2>1 DEF n
    <3>2. /\ SubSeq(s.rest, 1, n - 1) \in Seq(Frame) /\ Len(SubSeq(s.rest, 1, n - 1)) = n - 1
          /\ \A i \in 1 .. n - 1 : SubSeq(s.rest, 1, n - 1)[i] = s.rest[i]
      BY <1>1, <3>1, <2>1
    <3>3. /\ s2.rest \in Seq(Frame) /\ Len(s2.rest) = n - 1
          /\ \A i \in 1 .. n - 1 : s2.rest[i] = s.rest[i]
      BY <3>1, <3>2, Zenon
    <3>4. s2.rest # <<>>
      <4>1. Len(<<>>) = 0 /\ n - 1 # 0
        BY <2>1, <1>1
      <4> QED
        BY <3>3, <4>1, Zenon
    <3> QED
      BY <3>3, <3>4
  <2>3. n \in 2 .. n /\ \A i \in 2 .. n - 1 : i \in 2 .. n /\ i \in 1 .. n - 1
    BY <1>1, <2>1
  <2>4. /\ \A i \in 2 .. n : s.rest[i].todo \subseteq Near(e, b, s.rest[i].node)
        /\ s.rest[1].node = NIL
    BY DEF Descending, Frames, n
  <2>5. s2.curr = s.rest[n].node /\ s2.todo = s.rest[n].todo
    BY DEF n
  <2>6. 1 \in 1 .. n - 1
    BY <1>1, <2>1
  <2>7. Frames(e, b, s2)
    BY <1>2, <2>2, <2>3, <2>4, <2>5, <2>6 DEF Frames
  <2>8. ASSUME NEW v \in M, NEW w \in S, w \in Near(e, b, v), w \notin s2.visited
        PROVE  Waits(s2, v, w)
    <3>1. PICK i \in 2 .. n : v = s.rest[i].node /\ w \in s.rest[i].todo
      BY <1>3, <2>8
    <3>2. CASE i = n
      BY <2>5, <3>1, <3>2 DEF Waits
    <3>3. CASE i # n
      <4>1. i \in 2 .. Len(s2.rest) /\ s2.rest[i] = s.rest[i]
        BY <1>1, <2>2, <3>3
      <4> QED
        BY <3>1, <4>1 DEF Waits
    <3> QED
      BY <3>2, <3>3
  <2> QED
    BY <1>1, <1>5, <2>7, <2>8 DEF Descending, n
<1> QED
  BY <1>4, <1>5

\* A depth-first search begins: it is to enter the pivot.
LEMMA BeginEnters ==
  ASSUME NEW e, NEW b, NEW S \in SUBSET Node, NEW p \in S,
         NEW s, s.visited = {p}, s.curr = NIL, s.todo = {}, s.next = p, s.rest = <<>>
  PROVE  Within(e, b, s, p, S) /\ Entering(e, b, s, p, S, {})
<1>1. p \in Reached(e, b, S, p)
  BY ReachedGrows
<1> QED
  BY <1>1 DEF Within, Entering, Bottom

\* A breadth-first search begins: it is at the edges of the pivot.
LEMMA BeginSpreads ==
  ASSUME NEW e, NEW b, NEW S \in SUBSET Node, NEW p \in S,
         NEW s, s.visited = {p}, s.curr = p, s.todo = Near(e, b, p), s.rest = <<>>
  PROVE  Within(e, b, s, p, S) /\ Spreading(e, b, s, S, {})
<1>1. p \in Reached(e, b, S, p)
  BY ReachedGrows
<1>2. s.rest \in Seq(Node) /\ Len(s.rest) = 0
  OBVIOUS
<1> QED
  BY <1>1, <1>2 DEF Within, Spreading

\* A neighbour that is visited already, or not of the task, is passed over.
LEMMA SkipSpreads ==
  ASSUME NEW e, NEW b, NEW s, NEW S, NEW M, Spreading(e, b, s, S, M),
         NEW u, u \in s.visited \/ u \notin S,
         NEW s2, s2.visited = s.visited, s2.curr = s.curr, s2.rest = s.rest, s2.todo = s.todo \ {u}
  PROVE  Spreading(e, b, s2, S, M)
BY DEF Spreading

\* Another one joins the queue.
LEMMA JoinSpreads ==
  ASSUME NEW e, NEW b, NEW s, NEW S \in SUBSET Node, NEW p \in S, NEW M,
         Within(e, b, s, p, S), Spreading(e, b, s, S, M),
         NEW u \in s.todo, u \in S, u \notin s.visited,
         NEW s2, s2.visited = s.visited \cup {u}, s2.curr = s.curr, s2.rest = Append(s.rest, u),
         s2.todo = s.todo \ {u}
  PROVE  Within(e, b, s2, p, S) /\ Spreading(e, b, s2, S, M)
<1> DEFINE n == Len(s.rest)
<1>1. s.rest \in Seq(Node) /\ n \in Nat /\ u \in Node
  BY DEF Spreading
<1>2. /\ s2.rest \in Seq(Node) /\ Len(s2.rest) = n + 1 /\ s2.rest[n + 1] = u
      /\ \A i \in 1 .. n : s2.rest[i] = s.rest[i]
  BY <1>1
<1>3. /\ \A i \in 1 .. n : s.rest[i] \in s.visited \ M /\ s.rest[i] # s.curr
      /\ \A i, j \in 1 .. n : i # j => s.rest[i] # s.rest[j]
      /\ M \subseteq s.visited /\ s.curr \in s.visited /\ s.curr \notin M
  BY DEF Spreading, n
<1> HIDE DEF n
<1>4. u \in Reached(e, b, S, p)
  BY ReachedGrows DEF Within, Spreading
<1>5. Within(e, b, s2, p, S)
  BY <1>4 DEF Within
<1>6. \A i \in 1 .. n + 1 : i = n + 1 \/ i \in 1 .. n
  BY <1>1
<1>7. \A i \in 1 .. n + 1 : s2.rest[i] \in s2.visited \ M /\ s2.rest[i] # s2.curr
  BY <1>2, <1>3, <1>6
<1>8. \A i, j \in 1 .. n + 1 : i # j => s2.rest[i] # s2.rest[j]
  BY <1>2, <1>3, <1>6
<1>9. ASSUME NEW v \in s2.visited
      PROVE  v \in M \/ v = s2.curr \/ \E i \in 1 .. n + 1 : v = s2.rest[i]
  <2>1. CASE v = u
    BY <1>1, <1>2, <2>1
  <2>2. CASE v # u
    <3>1. v \in M \/ v = s.curr \/ \E i \in 1 .. n : v = s.rest[i]
      BY <1>9, <2>2 DEF Spreading, n
    <3>2. \A i \in 1 .. n : i \in 1 .. n + 1
      BY <1>1
    <3> QED
      BY <1>2, <3>1, <3>2
  <2> QED
    BY <2>1, <2>2
<1>10. /\ \A v \in M, w \in S : w \in Near(e, b, v) => w \in s2.visited
       /\ \A w \in S : w \in Near(e, b, s2.curr) => w \in s2.visited \/ w \in s2.todo
       /\ s2.todo \subseteq Near(e, b, s2.curr)
  BY DEF Spreading
<1>11. M \subseteq s2.visited /\ s2.curr \in s2.visited /\ s2.curr \notin M
  BY <1>3
<1> QED
  BY <1>2, <1>5, <1>7, <1>8, <1>9, <1>10, <1>11 DEF Spreading

\* The current node is visited after its neighbours: the next one is the first of the
\* queue, or the search has ended.
LEMMA LeaveSpreads ==
  ASSUME NEW e, NEW b, NEW s, NEW S, NEW M, Spreading(e, b, s, S, M), s.todo = {},
         NEW s2, s2.visited = s.visited,
         s.rest # <<>> => /\ s2.curr = s.rest[1] /\ s2.rest = Tail(s.rest)
                          /\ s2.todo = Near(e, b, s.rest[1])
  PROVE  IF s.rest = <<>> THEN Ended(e, b, s2, S, M \cup {s.curr}) ELSE Spreading(e, b, s2, S, M \cup {s.curr})
<1> DEFINE n == Len(s.rest)
<1>1. s.rest \in Seq(Node) /\ n \in Nat
  BY DEF Spreading
<1>2. \A v \in M \cup {s.curr}, w \in S : w \in Near(e, b, v) => w \in s2.visited
  BY DEF Spreading
<1>3. CASE s.rest = <<>>
  <2>1. Len(s.rest) = 0
    BY <1>3
  <2>2. M \cup {s.curr} = s2.visited
    BY <2>1 DEF Spreading
  <2> QED
    BY <1>2, <1>3, <2>2 DEF Ended
<1>4. CASE s.rest # <<>>
  <2>1. /\ s2.rest \in Seq(Node) /\ Len(s2.rest) = n - 1 /\ n >= 1
        /\ \A i \in 1 .. n - 1 : s2.rest[i] = s.rest[i + 1]
    <3>1. s2.rest = Tail(s.rest)
      BY <1>4
    <3>2. /\ Tail(s.rest) \in Seq(Node) /\ Len(Tail(s.rest)) = n - 1 /\ n >= 1
          /\ \A i \in 1 .. n - 1 : Tail(s.rest)[i] = s.rest[i + 1]
      BY <1>1, <1>4
    <3> QED
      BY <3>1, <3>2, Zenon
  <2>2. /\ \A i \in 1 .. n : s.rest[i] \in s.visited \ M /\ s.rest[i] # s.curr
        /\ \A i, j \in 1 .. n : i # j => s.rest[i] # s.rest[j]
        /\ M \subseteq s.visited /\ s.curr \in s.visited /\ s.curr \notin M
        /\ \A v \in s.visited : v \in M \/ v = s.curr \/ \E i \in 1 .. n : v = s.rest[i]
    BY DEF Spreading, n
  <2>3. s2.curr = s.rest[1] /\ s2.todo = Near(e, b, s.rest[1]) /\ 1 \in 1 .. n
    BY <1>1, <1>4, <2>1
  <2> HIDE DEF n
  <2>4. \A i \in 1 .. n - 1 : i + 1 \in 1 .. n /\ i + 1 # 1
    BY <1>1
  <2>5. \A i \in 1 .. n - 1 : s2.rest[i] \in s2.visited \ (M \cup {s.curr}) /\ s2.rest[i] # s2.curr
    BY <2>1, <2>2, <2>3, <2>4
  <2>6. ASSUME NEW i \in 1 .. n - 1, NEW j \in 1 .. n - 1, i # j PROVE s2.rest[i] # s2.rest[j]
    <3>1. i + 1 # j + 1 /\ i + 1 \in 1 .. n /\ j + 1 \in 1 .. n
      BY <1>1, <2>6
    <3> QED
      BY <2>1, <2>2, <3>1
  <2>7. ASSUME NEW v \in s2.visited
        PROVE  v \in M \cup {s.curr} \/ v = s2.curr \/ \E i \in 1 .. n - 1 : v = s2.rest[i]
    <3>1. CASE \E i \in 1 .. n : v = s.rest[i]
      <4>1. PICK i \in 1 .. n : v = s.rest[i]
        BY <3>1
      <4>2. CASE i = 1
        BY <2>3, <4>1, <4>2
      <4>3. CASE i # 1
        <5>1. i - 1 \in 1 .. n - 1 /\ (i - 1) + 1 = i
          BY <1>1, <4>3
        <5> QED
          BY <2>1, <4>1, <5>1
      <4> QED
        BY <4>2, <4>3
    <3>2. CASE ~\E i \in 1 .. n : v = s.rest[i]
      BY <2>2, <3>2, <2>7
    <3> QED
      BY <3>1, <3>2
  <2>8. /\ s2.curr \in s2.visited /\ s2.curr \notin M \cup {s.curr} /\ M \cup {s.curr} \subseteq s2.visited
        /\ s2.todo \subseteq Near(e, b, s2.curr)
        /\ \A w \in S : w \in Near(e, b, s2.curr) => w \in s2.visited \/ w \in s2.todo
    BY <2>2, <2>3
  <2> QED
    BY <1>2, <1>4, <2>1, <2>5, <2>6, <2>7, <2>8 DEF Spreading
<1> QED
  BY <1>3, <1>4

-----------------------------------------------------------------------------
(* The tasks: K, F, B and Z are the nodes of the base colour, the forward  *)
(* colour and the backward colour, and the SCC found so far.               *)

Sets == {NULL} \cup SUBSET Node

Searches == [visited : SUBSET Node, curr : Node \cup {NIL}, todo : SUBSET Node,
             next : Node \cup {NIL}, rest : Seq(Node) \cup Seq(Frame)]

Task == [pc : {"fetch", "pivot", "fw_color", "bw_color", "enter", "edges", "end"},
         color : Int, count : Nat, set : Sets, pivot : Node \cup {NIL}, fw : Int, bw : Int,
         fw_set : Sets, bw_set : Sets, fw_count : Nat, bw_count : Nat, scc_count : Nat,
         s : Searches]

Disjoint4(K, F, B, Z) ==
  /\ K \cap F = {} /\ K \cap B = {} /\ K \cap Z = {}
  /\ F \cap B = {} /\ F \cap Z = {} /\ B \cap Z = {}

\* what a task has counted in a forward search, and in a backward one
ForwardTally(r, F, B, Z) ==
  /\ B = {} /\ Z = {}
  /\ r.fw_count = Cardinality(F) /\ r.fw_set \in {NULL, F}

BackwardTally(e, r, S, F, B, Z) ==
  /\ F \cup Z = Reached(e, FALSE, S, r.pivot)
  /\ r.fw_count = Cardinality(F \cup Z) /\ r.fw_set \in {NULL, F}
  /\ r.bw_count = Cardinality(B) /\ r.bw_set \in {NULL, B}
  /\ r.scc_count = Cardinality(Z)

Tally(e, r, S, K, F, B, Z) ==
  /\ S = K \cup F \cup B \cup Z /\ S \subseteq Node /\ Disjoint4(K, F, B, Z)
  /\ r.count = Cardinality(S) /\ r.set \in {NULL, K}
  /\ IF Backward(r) THEN BackwardTally(e, r, S, F, B, Z) ELSE ForwardTally(r, F, B, Z)

\* a task that has not begun to search
Begins(r, K, F) ==
  /\ r.pc \in {"pivot", "fw_color", "bw_color"} /\ ~Backward(r)
  /\ r.pivot \in IF r.pc = "pivot" THEN {NIL} ELSE K
  /\ IF r.pc = "bw_color" THEN r.fw # -1 ELSE r.fw = -1
  /\ r.bw = -1 /\ F = {} /\ K # {}

\* the nodes that the search has recoloured
Recolored(r, F, B, Z) == IF Backward(r) THEN B \cup Z ELSE F

Seeks(e, d, r, S, F, B, Z) ==
  /\ r.pc \in {"enter", "edges", "end"} /\ r.pivot \in S /\ r.fw # -1 /\ r.bw # -1
  /\ SearchOK(e, d, Backward(r), r, S, Recolored(r, F, B, Z))

TaskOK(e, d, r, K, F, B, Z) ==
  LET S == K \cup F \cup B \cup Z
  IN  /\ Tally(e, r, S, K, F, B, Z)
      /\ Begins(r, K, F) \/ Seeks(e, d, r, S, F, B, Z)

\* A task with one more node in a part of it, and a node less in another.
LEMMA FiniteParts ==
  ASSUME NEW K \in SUBSET Node, NEW k
  PROVE  /\ IsFiniteSet(K) /\ Cardinality(K) \in Nat
         /\ k \in K => Cardinality(K \ {k}) = Cardinality(K) - 1
         /\ k \notin K => Cardinality(K \cup {k}) = Cardinality(K) + 1
         /\ Cardinality(K) = 0 <=> K = {}
<1>1. IsFiniteSet(K)
  BY FS_Subset, TasksAssumption
<1> QED
  BY <1>1, FS_CardinalityType, FS_AddElement, FS_RemoveElement, FS_EmptySet

\* A forward visit moves the node from the base colour to the forward one.
LEMMA ForwardVisit ==
  ASSUME NEW e, NEW r \in Task, NEW S, NEW K, NEW F, NEW B, NEW Z, Tally(e, r, S, K, F, B, Z),
         ~Backward(r), NEW k \in K
  PROVE  Tally(e, VisitedFw(r, k), S, K \ {k}, F \cup {k}, B, Z) /\ ~Backward(VisitedFw(r, k))
<1> DEFINE q == VisitedFw(r, k)
<1>1. /\ q.count = r.count /\ q.bw_set = r.bw_set /\ q.bw_count = r.bw_count
      /\ q.scc_count = r.scc_count /\ q.fw_count = r.fw_count + 1
      /\ q.set = Without(r.set, k) /\ q.fw_set = With(r.fw_set, k)
  BY DEF VisitedFw, Task
<1> HIDE DEF q
<1>2. /\ S = K \cup F \cup B \cup Z /\ S \subseteq Node /\ Disjoint4(K, F, B, Z)
      /\ r.count = Cardinality(S) /\ r.set \in {NULL, K}
      /\ B = {} /\ Z = {} /\ r.fw_count = Cardinality(F) /\ r.fw_set \in {NULL, F}
  BY DEF Tally, ForwardTally
<1>3. ~Backward(q)
  BY <1>1 DEF Backward
<1>4. q.set \in {NULL, K \ {k}} /\ q.fw_set \in {NULL, F \cup {k}}
  BY <1>1, <1>2 DEF With, Without
<1>5. Cardinality(F \cup {k}) = Cardinality(F) + 1
  <2>1. k \notin F /\ F \subseteq Node
    BY <1>2 DEF Disjoint4
  <2> QED
    BY <2>1, FiniteParts
<1>6. Disjoint4(K \ {k}, F \cup {k}, B, Z) /\ S = (K \ {k}) \cup (F \cup {k}) \cup B \cup Z
  BY <1>2 DEF Disjoint4
<1> QED
  BY <1>1, <1>2, <1>3, <1>4, <1>5, <1>6 DEF Tally, ForwardTally, q

\* A backward visit of a node of the base colour moves it to the backward one.
LEMMA BackwardVisit ==
  ASSUME NEW e, NEW r \in Task, NEW S, NEW K, NEW F, NEW B, NEW Z, Tally(e, r, S, K, F, B, Z),
         Backward(r), NEW k \in K, G_Color[k] # r.fw
  PROVE  Tally(e, VisitedBw(r, k), S, K \ {k}, F, B \cup {k}, Z) /\ Backward(VisitedBw(r, k))
<1> DEFINE q == VisitedBw(r, k)
<1>1. /\ q.count = r.count /\ q.fw_set = r.fw_set /\ q.fw_count = r.fw_count
      /\ q.scc_count = r.scc_count /\ q.bw_count = r.bw_count + 1 /\ q.pivot = r.pivot
      /\ q.set = Without(r.set, k) /\ q.bw_set = With(r.bw_set, k)
      /\ r.bw_count \in Nat /\ r.scc_count \in Nat
  BY DEF VisitedBw, Task
<1> HIDE DEF q
<1>2. /\ S = K \cup F \cup B \cup Z /\ S \subseteq Node /\ Disjoint4(K, F, B, Z)
      /\ r.count = Cardinality(S) /\ r.set \in {NULL, K}
      /\ BackwardTally(e, r, S, F, B, Z)
  BY DEF Tally
<1>3. Backward(q)
  BY <1>1 DEF Backward
<1>4. q.set \in {NULL, K \ {k}} /\ q.bw_set \in {NULL, B \cup {k}}
  BY <1>1, <1>2 DEF With, Without, BackwardTally
<1>5. Cardinality(B \cup {k}) = Cardinality(B) + 1
  <2>1. k \notin B /\ B \subseteq Node
    BY <1>2 DEF Disjoint4
  <2> QED
    BY <2>1, FiniteParts
<1>6. Disjoint4(K \ {k}, F, B \cup {k}, Z) /\ S = (K \ {k}) \cup F \cup (B \cup {k}) \cup Z
  BY <1>2 DEF Disjoint4
<1>7. BackwardTally(e, q, S, F, B \cup {k}, Z)
  BY <1>1, <1>2, <1>4, <1>5 DEF BackwardTally
<1> QED
  BY <1>1, <1>2, <1>3, <1>4, <1>6, <1>7 DEF Tally, q

\* A backward visit of a node of the forward colour adds it to the SCC.
LEMMA SharedVisit ==
  ASSUME NEW e, NEW r \in Task, NEW S, NEW K, NEW F, NEW B, NEW Z, Tally(e, r, S, K, F, B, Z),
         Backward(r), NEW k \in F, G_Color[k] = r.fw
  PROVE  Tally(e, VisitedBw(r, k), S, K, F \ {k}, B, Z \cup {k}) /\ Backward(VisitedBw(r, k))
<1> DEFINE q == VisitedBw(r, k)
<1>1. /\ q.count = r.count /\ q.set = r.set /\ q.fw_count = r.fw_count /\ q.bw_set = r.bw_set
      /\ q.bw_count = r.bw_count /\ q.pivot = r.pivot
      /\ q.fw_set = Without(r.fw_set, k) /\ q.scc_count = r.scc_count + 1
      /\ r.bw_count \in Nat /\ r.scc_count \in Nat
  BY DEF VisitedBw, Task
<1> HIDE DEF q
<1>2. /\ S = K \cup F \cup B \cup Z /\ S \subseteq Node /\ Disjoint4(K, F, B, Z)
      /\ r.count = Cardinality(S) /\ r.set \in {NULL, K}
      /\ BackwardTally(e, r, S, F, B, Z)
  BY DEF Tally
<1>3. Backward(q)
  BY <1>1 DEF Backward
<1>4. q.fw_set \in {NULL, F \ {k}}
  BY <1>1, <1>2 DEF Without, BackwardTally
<1>5. Cardinality(Z \cup {k}) = Cardinality(Z) + 1
  <2>1. k \notin Z /\ Z \subseteq Node
    BY <1>2 DEF Disjoint4
  <2> QED
    BY <2>1, FiniteParts
<1>6. Disjoint4(K, F \ {k}, B, Z \cup {k}) /\ S = K \cup (F \ {k}) \cup B \cup (Z \cup {k})
  BY <1>2 DEF Disjoint4
<1>7. F \cup Z = (F \ {k}) \cup (Z \cup {k})
  OBVIOUS
<1>8. BackwardTally(e, q, S, F \ {k}, B, Z \cup {k})
  BY <1>1, <1>2, <1>4, <1>5, <1>7 DEF BackwardTally
<1> QED
  BY <1>1, <1>2, <1>3, <1>6, <1>8 DEF Tally, q

-----------------------------------------------------------------------------
(* The inductive invariant.                                                *)

Item0 == [color : Int, count : Nat, set : Sets]

TasksTyped ==
  /\ E \in Graphs /\ dfs \in BOOLEAN
  /\ G_Color \in [Node -> Int] /\ G_SCC \in [Node -> Node \cup {NIL}]
  /\ works \subseteq Item0
  /\ th \in [Thread -> Task]

Colored(c) == IF c = -1 THEN {} ELSE OfColor(c)
Found(p)   == IF p = NIL THEN {} ELSE {v \in Node : G_SCC[v] = p}

TaskHolds(t) ==
  LET r == th[t]
  IN  IF Running(t)
      THEN TaskOK(E, dfs, r, OfColor(r.color), Colored(r.fw), Colored(r.bw), Found(r.pivot))
      ELSE r = Idle

\* the colours of a task, and of the items
Mine(r)   == {r.color} \cup ({r.fw, r.bw} \ {-1})
Owns(t)   == IF Running(t) THEN Mine(th[t]) ELSE {}
ItemColors == {w.color : w \in works}

\* the colours of one task differ
OwnApart == \A t \in Thread :
  /\ th[t].fw # -1 => th[t].fw >= 0 /\ th[t].fw # th[t].color /\ th[t].fw # th[t].bw
  /\ th[t].bw # -1 => th[t].bw >= 0 /\ th[t].bw # th[t].color

\* no two items or tasks share a colour
ColorsApart ==
  /\ \A w, x \in works : w.color = x.color => w = x
  /\ \A t \in Thread : Owns(t) \cap ItemColors = {}
  /\ \A t, u \in Thread : t # u => Owns(t) \cap Owns(u) = {}

\* a colour in use is one of the start or has been given out; -2 is not
Used(c) == c # -2 /\ (c >= 0 => \E u \in Thread : c \in given[u])
ColorsUsed ==
  /\ \A c \in ItemColors : Used(c)
  /\ \A t \in Thread : \A c \in Owns(t) : Used(c)

\* a node without an SCC has a colour of an item or of a task
ColorsOwned == \A v \in Node : G_Color[v] # -2 =>
  G_Color[v] \in ItemColors \/ \E t \in Thread : G_Color[v] \in Owns(t)

\* the nodes with an SCC; its representative has one, or its task is running
Marks ==
  /\ \A v \in Node : G_Color[v] = -2 <=> G_SCC[v] # NIL
  /\ \A v \in Node : G_SCC[v] # NIL =>
       \/ G_Color[G_SCC[v]] = -2
       \/ \E t \in Thread : Running(t) /\ th[t].pivot = G_SCC[v]

\* no two tasks have one pivot
PivotsApart == \A t, u \in Thread : t # u /\ th[t].pivot # NIL => th[t].pivot # th[u].pivot

ItemsOK == \A w \in works :
  /\ OfColor(w.color) # {}
  /\ w.count = Cardinality(OfColor(w.color)) /\ w.set \in {NULL, OfColor(w.color)}

TasksInv ==
  /\ TasksTyped
  /\ \A t \in Thread : TaskHolds(t)
  /\ OwnApart /\ ColorsApart /\ ColorsUsed /\ ColorsOwned /\ Marks /\ PivotsApart /\ ItemsOK

\* The nodes of a task are its four parts.
LEMMA PartsOfTask ==
  ASSUME NEW t \in Thread
  PROVE  LET r == th[t]
         IN  TaskNodes(t) = OfColor(r.color) \cup Colored(r.fw) \cup Colored(r.bw) \cup Found(r.pivot)
BY DEF TaskNodes, OfColor, Colored, Found

\* What is known of a running task.
LEMMA RunningTask ==
  ASSUME TasksInv, NEW t \in Thread, Running(t)
  PROVE  LET r == th[t]
         IN  /\ r \in Task
             /\ TaskOK(E, dfs, r, OfColor(r.color), Colored(r.fw), Colored(r.bw), Found(r.pivot))
             /\ Tally(E, r, TaskNodes(t), OfColor(r.color), Colored(r.fw), Colored(r.bw), Found(r.pivot))
             /\ \/ Begins(r, OfColor(r.color), Colored(r.fw))
                \/ Seeks(E, dfs, r, TaskNodes(t), Colored(r.fw), Colored(r.bw), Found(r.pivot))
             /\ r.pivot # NIL => r.pivot \in TaskNodes(t)
<1> DEFINE r == th[t]
           K == OfColor(r.color)
           F == Colored(r.fw)
           B == Colored(r.bw)
           Z == Found(r.pivot)
<1>1. r \in Task
  BY DEF TasksInv, TasksTyped
<1>2. TaskOK(E, dfs, r, K, F, B, Z)
  BY DEF TasksInv, TaskHolds
<1>3. TaskNodes(t) = K \cup F \cup B \cup Z
  BY PartsOfTask
<1> HIDE DEF r, K, F, B, Z
<1>4. Tally(E, r, TaskNodes(t), K, F, B, Z) /\ (Begins(r, K, F) \/ Seeks(E, dfs, r, TaskNodes(t), F, B, Z))
  BY <1>2, <1>3 DEF TaskOK
<1>5. r.pivot # NIL => r.pivot \in TaskNodes(t)
  <2>1. CASE Begins(r, K, F)
    BY <1>3, <2>1 DEF Begins
  <2>2. CASE Seeks(E, dfs, r, TaskNodes(t), F, B, Z)
    BY <2>2 DEF Seeks
  <2> QED
    BY <1>4, <2>1, <2>2
<1> QED
  BY <1>1, <1>2, <1>4, <1>5 DEF r, K, F, B, Z

\* A node of a task has one of its colours, or an SCC.
LEMMA ColorsOfTask ==
  ASSUME TasksInv, NEW t \in Thread, Running(t), NEW v \in Node
  PROVE  /\ G_Color[v] \in Owns(t) => v \in TaskNodes(t)
         /\ v \in TaskNodes(t) => G_Color[v] \in Owns(t) \/ G_Color[v] = -2
         /\ -2 \notin Owns(t)
<1>1. th[t] \in Task
  BY DEF TasksInv, TasksTyped
<1>2. G_Color[v] \in Owns(t) => v \in TaskNodes(t)
  BY DEF Owns, Mine, TaskNodes
<1>3. v \in TaskNodes(t) => G_Color[v] \in Owns(t) \/ G_Color[v] = -2
  BY DEF Owns, Mine, TaskNodes, TasksInv, Marks
<1>4. -2 \notin Owns(t)
  BY DEF TasksInv, ColorsUsed, Used
<1> QED
  BY <1>2, <1>3, <1>4

\* Two tasks have no node in common, and no node of an item.
LEMMA NodesApart ==
  ASSUME TasksInv
  PROVE  /\ \A t, u \in Thread : t # u /\ Running(t) /\ Running(u) => TaskNodes(t) \cap TaskNodes(u) = {}
         /\ \A t \in Thread, w \in works : Running(t) => TaskNodes(t) \cap OfColor(w.color) = {}
         /\ \A w, x \in works : w # x => OfColor(w.color) \cap OfColor(x.color) = {}
<1>1. \A t, u \in Thread : t # u => Owns(t) \cap Owns(u) = {}
  BY DEF TasksInv, ColorsApart
<1>2. \A t \in Thread, w \in works : w.color \notin Owns(t) /\ w.color # -2
  BY DEF TasksInv, ColorsApart, ColorsUsed, Used, ItemColors
<1>3. \A w, x \in works : w # x => w.color # x.color
  BY DEF TasksInv, ColorsApart
<1>4. \A t \in Thread : TaskNodes(t) \subseteq Node
  BY DEF TaskNodes
<1>5. \A t \in Thread, v \in Node : Running(t) =>
        /\ G_Color[v] \in Owns(t) => v \in TaskNodes(t)
        /\ v \in TaskNodes(t) => G_Color[v] \in Owns(t) \/ G_Color[v] = -2
        /\ -2 \notin Owns(t)
  BY ColorsOfTask
\* a node with an SCC is of the task whose pivot it has
<1>6. \A t \in Thread, v \in Node : Running(t) /\ v \in TaskNodes(t) /\ G_Color[v] = -2
                                      => th[t].pivot # NIL /\ G_SCC[v] = th[t].pivot
  <2> SUFFICES ASSUME NEW t \in Thread, NEW v \in Node, Running(t), v \in TaskNodes(t), G_Color[v] = -2
               PROVE  th[t].pivot # NIL /\ G_SCC[v] = th[t].pivot
    OBVIOUS
  <2>1. -2 \notin Mine(th[t])
    BY <1>5 DEF Owns
  <2> QED
    BY <2>1 DEF TaskNodes, Mine
<1>7. ASSUME NEW t \in Thread, NEW u \in Thread, t # u, Running(t), Running(u), NEW v \in Node,
             v \in TaskNodes(t), v \in TaskNodes(u)
      PROVE  FALSE
  <2>1. CASE G_Color[v] = -2
    <3>1. G_SCC[v] = th[t].pivot /\ G_SCC[v] = th[u].pivot /\ th[t].pivot # NIL
      BY <1>6, <1>7, <2>1
    <3> QED
      BY <1>7, <3>1 DEF TasksInv, PivotsApart
  <2>2. CASE G_Color[v] # -2
    BY <1>1, <1>5, <1>7, <2>2
  <2> QED
    BY <2>1, <2>2
<1>8. ASSUME NEW t \in Thread, NEW w \in works, Running(t)
      PROVE  TaskNodes(t) \cap OfColor(w.color) = {}
  BY <1>2, <1>4, <1>5, <1>8 DEF OfColor
<1>9. ASSUME NEW w \in works, NEW x \in works, w # x
      PROVE  OfColor(w.color) \cap OfColor(x.color) = {}
  BY <1>3, <1>9 DEF OfColor
<1>10. ASSUME NEW t \in Thread, NEW u \in Thread, t # u, Running(t), Running(u)
       PROVE  TaskNodes(t) \cap TaskNodes(u) = {}
  BY <1>4, <1>7, <1>10
<1> QED
  BY <1>8, <1>9, <1>10

\* the nodes of a colour, and of an SCC, after a step
NextOf(c)    == {v \in Node : G_Color'[v] = c}
NextFound(p) == {v \in Node : G_SCC'[v] = p}

\* A step of t recolours and identifies nodes of its task only.
Recolors(t) ==
  /\ \A v \in Node : G_Color'[v] = G_Color[v] \/ (G_Color[v] \in Owns(t) /\ G_Color'[v] \in Owns(t) \cup {-2})
  /\ \A v \in Node : G_SCC'[v] = G_SCC[v] \/ (G_Color[v] \in Owns(t) /\ G_SCC'[v] \in TaskNodes(t))

\* The nodes of the other colours keep them.
LEMMA ColorsKept ==
  ASSUME TasksInv, NEW t \in Thread, Recolors(t), NEW c, c \notin Owns(t), c # -2
  PROVE  NextOf(c) = OfColor(c)
BY DEF Recolors, NextOf, NextFound, OfColor

\* The task that a thread has after a step, from its record.
LEMMA HoldsAfter ==
  ASSUME NEW u \in Thread, NEW r, th'[u] = r, r.pc # "fetch",
         TaskOK(E', dfs', r, NextOf(r.color),
                IF r.fw = -1 THEN {} ELSE NextOf(r.fw),
                IF r.bw = -1 THEN {} ELSE NextOf(r.bw),
                IF r.pivot = NIL THEN {} ELSE NextFound(r.pivot))
  PROVE  TaskHolds(u)' /\ Running(u)'
BY DEF TaskHolds, Running, OfColor, Colored, NextOf, NextFound, Found

\* Tasks that a step leaves alone hold after it.
LEMMA OthersKeep ==
  ASSUME TasksInv, NEW t \in Thread, Recolors(t), E' = E, dfs' = dfs,
         NEW u \in Thread, u # t, th'[u] = th[u]
  PROVE  /\ TaskHolds(u)'
         /\ Running(u)' = Running(u)
         /\ Running(u) => TaskNodes(u)' = TaskNodes(u)
<1>1. CASE ~Running(u)
  <2>1. th[u] = Idle /\ th[u].pc = "fetch"
    BY <1>1 DEF TasksInv, TaskHolds, Running
  <2> QED
    BY <1>1, <2>1 DEF TaskHolds, Running
<1>2. CASE Running(u)
  <2>1. PICK r \in Task : r = th[u]
    BY <1>2, RunningTask
  <2>2. TaskOK(E, dfs, r, OfColor(r.color), Colored(r.fw), Colored(r.bw), Found(r.pivot))
    BY <1>2, <2>1, RunningTask
  <2>3. \A c \in Owns(u) : c \notin Owns(t) /\ c # -2
    BY DEF TasksInv, ColorsApart, ColorsUsed, Used
  <2>4. r.color \in Owns(u) /\ (r.fw # -1 => r.fw \in Owns(u)) /\ (r.bw # -1 => r.bw \in Owns(u))
    BY <1>2, <2>1 DEF Owns, Mine
  <2>5. /\ NextOf(r.color) = OfColor(r.color)
        /\ r.fw # -1 => NextOf(r.fw) = OfColor(r.fw)
        /\ r.bw # -1 => NextOf(r.bw) = OfColor(r.bw)
    BY <2>3, <2>4, ColorsKept
  <2>6. r.pivot # NIL => NextFound(r.pivot) = Found(r.pivot)
    <3> SUFFICES ASSUME r.pivot # NIL, NEW v \in Node
                 PROVE  G_SCC'[v] = r.pivot <=> G_SCC[v] = r.pivot
      BY DEF NextOf, NextFound, Found
    <3>1. CASE G_SCC'[v] = G_SCC[v]
      BY <3>1
    <3>2. CASE G_SCC'[v] # G_SCC[v]
      <4>1. G_Color[v] \in Owns(t) /\ G_SCC'[v] \in TaskNodes(t)
        BY <3>2 DEF Recolors
      <4>2. Running(t)
        BY <4>1 DEF Owns
      <4>3. r.pivot \in TaskNodes(u)
        BY <1>2, <2>1, RunningTask
      <4>4. G_SCC'[v] # r.pivot
        BY <1>2, <4>1, <4>2, <4>3, NodesApart
      <4>5. G_Color[v] # -2
        BY <4>1 DEF TasksInv, ColorsUsed, Used
      <4>6. G_SCC[v] = NIL
        BY <4>5 DEF TasksInv, Marks
      <4> QED
        BY <4>4, <4>6
    <3> QED
      BY <3>1, <3>2
  <2>7. r.pc # "fetch" /\ th'[u] = r
    BY <1>2, <2>1 DEF Running
  <2>8. TaskHolds(u)' /\ Running(u)'
    <3>1. /\ OfColor(r.color) = NextOf(r.color)
          /\ Colored(r.fw) = IF r.fw = -1 THEN {} ELSE NextOf(r.fw)
          /\ Colored(r.bw) = IF r.bw = -1 THEN {} ELSE NextOf(r.bw)
          /\ Found(r.pivot) = IF r.pivot = NIL THEN {} ELSE NextFound(r.pivot)
      BY <2>5, <2>6 DEF Colored, NextOf, NextFound, Found
    <3> QED
      BY <2>2, <2>7, <3>1, HoldsAfter
  <2>9. TaskNodes(u)' = TaskNodes(u)
    <3>1. \A v \in Node : /\ G_Color'[v] = r.color <=> G_Color[v] = r.color
                          /\ r.fw # -1 => (G_Color'[v] = r.fw <=> G_Color[v] = r.fw)
                          /\ r.bw # -1 => (G_Color'[v] = r.bw <=> G_Color[v] = r.bw)
                          /\ r.pivot # NIL => (G_SCC'[v] = r.pivot <=> G_SCC[v] = r.pivot)
      BY <2>5, <2>6 DEF OfColor, NextOf, NextFound, Found
    <3> QED
      BY <2>1, <2>7, <3>1 DEF TaskNodes
  <2> QED
    BY <1>2, <2>8, <2>9
<1> QED
  BY <1>1, <1>2

\* An item that a step leaves alone keeps its nodes.
LEMMA ItemsKeep ==
  ASSUME TasksInv, NEW t \in Thread, Recolors(t), NEW w \in works
  PROVE  NextOf(w.color) = OfColor(w.color)
<1>1. w.color \notin Owns(t) /\ w.color # -2
  BY DEF TasksInv, ColorsApart, ColorsUsed, Used, ItemColors
<1> QED
  BY <1>1, ColorsKept

\* Two records of a task that differ in the search only.
SameTask(r, q) ==
  /\ q.color = r.color /\ q.count = r.count /\ q.set = r.set /\ q.pivot = r.pivot
  /\ q.fw = r.fw /\ q.bw = r.bw /\ q.fw_set = r.fw_set /\ q.bw_set = r.bw_set
  /\ q.fw_count = r.fw_count /\ q.bw_count = r.bw_count /\ q.scc_count = r.scc_count

\* They have counted the same.
LEMMA SameTally ==
  ASSUME NEW r, NEW q, SameTask(r, q), NEW e, NEW S, NEW K, NEW F, NEW B, NEW Z, Tally(e, r, S, K, F, B, Z)
  PROVE  Tally(e, q, S, K, F, B, Z) /\ Backward(q) = Backward(r)
<1>1. Backward(q) = Backward(r)
  BY DEF SameTask, Backward
<1> QED
  BY <1>1 DEF SameTask, Tally, ForwardTally, BackwardTally

\* A search goes on where it may: at the nodes of the task that it has not recoloured.
LEMMA NavigatorStays ==
  ASSUME TasksInv, NEW t \in Thread, Running(t), NEW u \in Node,
         Seeks(E, dfs, th[t], TaskNodes(t), Colored(th[t].fw), Colored(th[t].bw), Found(th[t].pivot)),
         u \notin Recolored(th[t], Colored(th[t].fw), Colored(th[t].bw), Found(th[t].pivot))
  PROVE  check_navigator(th[t], u) <=> u \in TaskNodes(t)
<1> DEFINE r == th[t]
<1>1. r.fw # -1 /\ r.bw # -1
  BY DEF Seeks
<1>2. TaskNodes(t) = OfColor(r.color) \cup OfColor(r.fw) \cup Colored(r.bw) \cup Found(r.pivot)
  BY <1>1, PartsOfTask DEF Colored
<1>3. Tally(E, r, TaskNodes(t), OfColor(r.color), Colored(r.fw), Colored(r.bw), Found(r.pivot))
  BY RunningTask
<1>4. CASE Backward(r)
  BY <1>1, <1>2, <1>4 DEF Recolored, check_navigator, NextOf, NextFound, OfColor, Colored
<1>5. CASE ~Backward(r)
  <2>1. Colored(r.bw) = {} /\ Found(r.pivot) = {}
    BY <1>3, <1>5 DEF Tally, ForwardTally
  <2> QED
    BY <1>1, <1>2, <1>5, <2>1 DEF Recolored, check_navigator, NextOf, NextFound, OfColor, Colored
<1> QED
  BY <1>4, <1>5

\* What a step of a search leaves of the task.
LEMMA SearchGoesOn ==
  ASSUME TasksInv, NEW t \in Thread, Running(t), UNCHANGED <<E, dfs, G_Color, G_SCC>>,
         NEW q \in Task, th'[t] = q, SameTask(th[t], q),
         Seeks(E, dfs, q, TaskNodes(t), Colored(th[t].fw), Colored(th[t].bw), Found(th[t].pivot))
  PROVE  TaskHolds(t)' /\ Running(t)'
<1> DEFINE S == TaskNodes(t)
           K == OfColor(th[t].color)
           F == Colored(th[t].fw)
           B == Colored(th[t].bw)
           Z == Found(th[t].pivot)
<1>1. /\ NextOf(q.color) = K
      /\ (IF q.fw = -1 THEN {} ELSE NextOf(q.fw)) = F
      /\ (IF q.bw = -1 THEN {} ELSE NextOf(q.bw)) = B
      /\ (IF q.pivot = NIL THEN {} ELSE NextFound(q.pivot)) = Z
  BY DEF OfColor, Colored, NextOf, NextFound, Found, SameTask
<1>2. Tally(E, th[t], S, K, F, B, Z)
  BY RunningTask
<1>3. S = K \cup F \cup B \cup Z
  BY PartsOfTask
<1>4. Seeks(E, dfs, q, S, F, B, Z)
  OBVIOUS
<1>5. q.pc # "fetch"
  BY DEF Seeks
<1> HIDE DEF S, K, F, B, Z
<1>6. Tally(E, q, S, K, F, B, Z)
  BY <1>2, SameTally
<1>7. TaskOK(E', dfs', q, K, F, B, Z)
  BY <1>3, <1>4, <1>6 DEF TaskOK
<1> QED
  BY <1>1, <1>5, <1>7, HoldsAfter

\* A thread at the edges of a node is searching.
LEMMA AtEdges ==
  ASSUME TasksInv, NEW t \in Thread, th[t].pc \in {"enter", "edges", "end"}
  PROVE  /\ Running(t) /\ th[t] \in Task
         /\ Seeks(E, dfs, th[t], TaskNodes(t), Colored(th[t].fw), Colored(th[t].bw), Found(th[t].pivot))
         /\ TaskNodes(t) \subseteq Node /\ th[t].pivot \in TaskNodes(t)
<1>1. Running(t) /\ TaskNodes(t) \subseteq Node
  BY DEF Running, TaskNodes
<1>2. ~Begins(th[t], OfColor(th[t].color), Colored(th[t].fw))
  BY DEF Begins
<1> QED
  BY <1>1, <1>2, RunningTask DEF Seeks

\* A search at the edges of a node passes one over.
LEMMA SkipGoesOn ==
  ASSUME TasksInv, NEW t \in Thread, th[t].pc = "edges", UNCHANGED <<E, dfs, G_Color, G_SCC>>,
         NEW u \in th[t].s.todo, u \in th[t].s.visited \/ ~check_navigator(th[t], u),
         th' = [th EXCEPT ![t].s.todo = @ \ {u}]
  PROVE  th'[t] \in Task /\ SameTask(th[t], th'[t]) /\ TaskHolds(t)' /\ Running(t)'
<1> DEFINE S == TaskNodes(t)
           F == Colored(th[t].fw)
           B == Colored(th[t].bw)
           Z == Found(th[t].pivot)
           M == Recolored(th[t], F, B, Z)
<1>1. /\ Running(t) /\ th[t] \in Task /\ Seeks(E, dfs, th[t], S, F, B, Z) /\ S \subseteq Node
  BY AtEdges
<1>2. PICK r \in Task : r = th[t]
  BY <1>1
<1>3. PICK s \in Searches : s = r.s
  BY <1>2 DEF Task
<1>4. PICK q \in Task : q = th'[t] /\ SameTask(r, q) /\ q.pc = r.pc
                        /\ q.s \in Searches /\ q.s.visited = s.visited /\ q.s.curr = s.curr /\ q.s.rest = s.rest
                        /\ q.s.next = s.next /\ q.s.todo = s.todo \ {u}
  <2> DEFINE s2 == [s EXCEPT !.todo = @ \ {u}]
             q2 == [r EXCEPT !.s = s2]
  <2>1. th'[t] = q2
    BY <1>1, <1>2, <1>3 DEF TasksInv, TasksTyped
  <2>2. /\ s2 \in Searches /\ s2.visited = s.visited /\ s2.curr = s.curr /\ s2.rest = s.rest
        /\ s2.next = s.next /\ s2.todo = s.todo \ {u}
    BY <1>3 DEF Searches
  <2> HIDE DEF s2
  <2>3. q2 \in Task /\ q2.pc = r.pc /\ q2.s = s2
    BY <1>2, <2>2 DEF Task
  <2>4. SameTask(r, q2)
    BY <1>2 DEF Task, SameTask
  <2> HIDE DEF q2
  <2> QED
    BY <2>1, <2>2, <2>3, <2>4
<1>5. u \in Node
  BY <1>2, <1>3 DEF Searches
<1>6. /\ r.pc = "edges" /\ r.pivot \in S /\ r.fw # -1 /\ r.bw # -1 /\ SearchOK(E, dfs, Backward(r), r, S, M)
  BY <1>1, <1>2 DEF Seeks
<1>7. u \in s.visited \/ u \notin S
  <2> SUFFICES ASSUME u \notin s.visited PROVE u \notin S
    OBVIOUS
  <2>1. u \notin M
    BY <1>2, <1>3, <1>6 DEF SearchOK, Descending, Spreading
  <2>2. ~check_navigator(th[t], u)
    BY <1>2, <1>3
  <2> QED
    BY <1>1, <1>5, <2>1, <2>2, NavigatorStays
<1> HIDE DEF S, F, B, Z, M
<1>8. SearchOK(E, dfs, Backward(q), q, S, M)
  <2>1. Backward(q) = Backward(r) /\ q.pivot = r.pivot
    BY <1>4 DEF SameTask, Backward
  <2>2. Within(E, Backward(r), s, r.pivot, S)
    BY <1>3, <1>6 DEF SearchOK
  <2>3. Within(E, Backward(q), q.s, q.pivot, S)
    BY <1>4, <2>1, <2>2 DEF Within
  <2>4. CASE dfs
    <3>1. Descending(E, Backward(r), s, S, M)
      BY <1>3, <1>6, <2>4 DEF SearchOK
    <3>2. Descending(E, Backward(r), q.s, S, M)
      BY <1>4, <1>7, <3>1, SkipDescends
    <3> QED
      BY <1>4, <1>6, <2>1, <2>3, <2>4, <3>2 DEF SearchOK
  <2>5. CASE ~dfs
    <3>1. Spreading(E, Backward(r), s, S, M)
      BY <1>3, <1>6, <2>5 DEF SearchOK
    <3>2. Spreading(E, Backward(r), q.s, S, M)
      BY <1>4, <1>7, <3>1, SkipSpreads
    <3> QED
      BY <1>4, <1>6, <2>1, <2>3, <2>5, <3>2 DEF SearchOK
  <2> QED
    BY <2>4, <2>5
<1>9. M = Recolored(q, F, B, Z)
  BY <1>2, <1>4 DEF M, Recolored, SameTask, Backward
<1>10. Seeks(E, dfs, q, S, F, B, Z)
  BY <1>4, <1>6, <1>8, <1>9 DEF Seeks, SameTask
<1>11. SameTask(th[t], q) /\ th'[t] = q
  BY <1>2, <1>4
<1> QED
  BY <1>1, <1>10, <1>11, SearchGoesOn DEF S, F, B, Z

\* The record of a thread after a step that changes it alone.
LEMMA ThreadStep ==
  ASSUME TasksInv, NEW t \in Thread, NEW r, th' = [th EXCEPT ![t] = r]
  PROVE  th'[t] = r /\ \A u \in Thread : u # t => th'[u] = th[u]
BY DEF TasksInv, TasksTyped

\* A depth-first search finds the node to enter next.
LEMMA NextGoesOn ==
  ASSUME TasksInv, NEW t \in Thread, th[t].pc = "edges", dfs, UNCHANGED <<E, dfs, G_Color, G_SCC>>,
         NEW u \in th[t].s.todo, u \notin th[t].s.visited, check_navigator(th[t], u),
         Goto(t, [th[t] EXCEPT !.s.todo = @ \ {u}, !.s.next = u], "enter")
  PROVE  th'[t] \in Task /\ SameTask(th[t], th'[t]) /\ TaskHolds(t)' /\ Running(t)'
<1> DEFINE S == TaskNodes(t)
           F == Colored(th[t].fw)
           B == Colored(th[t].bw)
           Z == Found(th[t].pivot)
           M == Recolored(th[t], F, B, Z)
<1>1. /\ Running(t) /\ th[t] \in Task /\ Seeks(E, dfs, th[t], S, F, B, Z) /\ S \subseteq Node
  BY AtEdges
<1>2. PICK r \in Task : r = th[t]
  BY <1>1
<1>3. PICK s \in Searches : s = r.s
  BY <1>2 DEF Task
<1>5. u \in Node
  BY <1>2, <1>3 DEF Searches
<1>4. PICK q \in Task : q = th'[t] /\ SameTask(r, q) /\ q.pc = "enter"
                        /\ q.s \in Searches /\ q.s.visited = s.visited /\ q.s.curr = s.curr /\ q.s.rest = s.rest
                        /\ q.s.next = u /\ q.s.todo = s.todo \ {u}
  <2> DEFINE s2 == [[s EXCEPT !.todo = @ \ {u}] EXCEPT !.next = u]
             q2 == [[r EXCEPT !.s = s2] EXCEPT !.pc = "enter"]
  <2>1. th'[t] = q2
    BY <1>1, <1>2, <1>3 DEF TasksInv, TasksTyped, Goto, Task, Searches
  <2>2. /\ s2 \in Searches /\ s2.visited = s.visited /\ s2.curr = s.curr /\ s2.rest = s.rest
        /\ s2.next = u /\ s2.todo = s.todo \ {u}
    BY <1>3, <1>5 DEF Searches
  <2> HIDE DEF s2
  <2>3. q2 \in Task /\ q2.pc = "enter" /\ q2.s = s2
    BY <1>2, <2>2 DEF Task
  <2>4. SameTask(r, q2)
    BY <1>2 DEF Task, SameTask
  <2> HIDE DEF q2
  <2> QED
    BY <2>1, <2>2, <2>3, <2>4
<1>6. /\ r.pc = "edges" /\ r.pivot \in S /\ r.fw # -1 /\ r.bw # -1 /\ SearchOK(E, dfs, Backward(r), r, S, M)
  BY <1>1, <1>2 DEF Seeks
<1>7. u \in S /\ u \notin s.visited /\ u \in s.todo
  <2>1. u \notin M
    BY <1>2, <1>3, <1>6 DEF SearchOK, Descending
  <2> QED
    BY <1>1, <1>2, <1>3, <1>5, <2>1, NavigatorStays
<1> HIDE DEF S, F, B, Z, M
<1>8. SearchOK(E, dfs, Backward(q), q, S, M)
  <2>1. Backward(q) = Backward(r) /\ q.pivot = r.pivot
    BY <1>4 DEF SameTask, Backward
  <2>2. Within(E, Backward(r), s, r.pivot, S)
    BY <1>3, <1>6 DEF SearchOK
  <2>3. Within(E, Backward(q), q.s, q.pivot, S)
    BY <1>4, <2>1, <2>2 DEF Within
  <2>4. Descending(E, Backward(r), s, S, M)
    BY <1>3, <1>6 DEF SearchOK
  <2>5. Entering(E, Backward(r), q.s, r.pivot, S, M)
    BY <1>1, <1>4, <1>6, <1>7, <2>2, <2>4, NextEnters DEF S
  <2> QED
    BY <1>4, <2>1, <2>3, <2>5 DEF SearchOK
<1>9. M = Recolored(q, F, B, Z)
  BY <1>2, <1>4 DEF M, Recolored, SameTask, Backward
<1>10. Seeks(E, dfs, q, S, F, B, Z)
  BY <1>4, <1>6, <1>8, <1>9 DEF Seeks, SameTask
<1>11. SameTask(th[t], q) /\ th'[t] = q
  BY <1>2, <1>4
<1> QED
  BY <1>1, <1>10, <1>11, SearchGoesOn DEF S, F, B, Z

\* A breadth-first search adds a node to its queue.
LEMMA JoinGoesOn ==
  ASSUME TasksInv, NEW t \in Thread, th[t].pc = "edges", ~dfs, UNCHANGED <<E, dfs, G_Color, G_SCC>>,
         NEW u \in th[t].s.todo, u \notin th[t].s.visited, check_navigator(th[t], u),
         th' = [th EXCEPT ![t].s.todo = @ \ {u}, ![t].s.visited = @ \cup {u}, ![t].s.rest = Append(@, u)]
  PROVE  th'[t] \in Task /\ SameTask(th[t], th'[t]) /\ TaskHolds(t)' /\ Running(t)'
<1> DEFINE S == TaskNodes(t)
           F == Colored(th[t].fw)
           B == Colored(th[t].bw)
           Z == Found(th[t].pivot)
           M == Recolored(th[t], F, B, Z)
<1>1. /\ Running(t) /\ th[t] \in Task /\ Seeks(E, dfs, th[t], S, F, B, Z) /\ S \subseteq Node
  BY AtEdges
<1>2. PICK r \in Task : r = th[t]
  BY <1>1
<1>3. PICK s \in Searches : s = r.s
  BY <1>2 DEF Task
<1>5. u \in Node
  BY <1>2, <1>3 DEF Searches
<1>6. /\ r.pc = "edges" /\ r.pivot \in S /\ r.fw # -1 /\ r.bw # -1 /\ SearchOK(E, dfs, Backward(r), r, S, M)
  BY <1>1, <1>2 DEF Seeks
<1>7. Spreading(E, Backward(r), s, S, M) /\ Within(E, Backward(r), s, r.pivot, S)
  BY <1>3, <1>6 DEF SearchOK
<1>4. PICK q \in Task : q = th'[t] /\ SameTask(r, q) /\ q.pc = r.pc
                        /\ q.s \in Searches /\ q.s.visited = s.visited \cup {u} /\ q.s.curr = s.curr
                        /\ q.s.rest = Append(s.rest, u) /\ q.s.todo = s.todo \ {u}
  <2> DEFINE s2 == [s EXCEPT !.todo = @ \ {u}, !.visited = @ \cup {u}, !.rest = Append(@, u)]
             q2 == [r EXCEPT !.s = s2]
  <2>1. th'[t] = q2
    BY <1>1, <1>2, <1>3 DEF TasksInv, TasksTyped
  <2>2. /\ s2 \in Searches /\ s2.visited = s.visited \cup {u} /\ s2.curr = s.curr
        /\ s2.rest = Append(s.rest, u) /\ s2.todo = s.todo \ {u}
    <3>1. Append(s.rest, u) \in Seq(Node)
      BY <1>5, <1>7 DEF Spreading
    <3> QED
      BY <1>3, <1>5, <3>1 DEF Searches
  <2> HIDE DEF s2
  <2>3. q2 \in Task /\ q2.pc = r.pc /\ q2.s = s2
    BY <1>2, <2>2 DEF Task
  <2>4. SameTask(r, q2)
    BY <1>2 DEF Task, SameTask
  <2> HIDE DEF q2
  <2> QED
    BY <2>1, <2>2, <2>3, <2>4
<1>12. u \in S /\ u \notin s.visited /\ u \in s.todo
  <2>1. u \notin M
    BY <1>2, <1>3, <1>7 DEF Spreading
  <2> QED
    BY <1>1, <1>2, <1>3, <1>5, <2>1, NavigatorStays
<1> HIDE DEF S, F, B, Z, M
<1>8. SearchOK(E, dfs, Backward(q), q, S, M)
  <2>1. Backward(q) = Backward(r) /\ q.pivot = r.pivot
    BY <1>4 DEF SameTask, Backward
  <2>2. Within(E, Backward(r), q.s, r.pivot, S) /\ Spreading(E, Backward(r), q.s, S, M)
    BY <1>1, <1>4, <1>6, <1>7, <1>12, JoinSpreads DEF S
  <2> QED
    BY <1>4, <1>6, <2>1, <2>2 DEF SearchOK
<1>9. M = Recolored(q, F, B, Z)
  BY <1>2, <1>4 DEF M, Recolored, SameTask, Backward
<1>10. Seeks(E, dfs, q, S, F, B, Z)
  BY <1>4, <1>6, <1>8, <1>9 DEF Seeks, SameTask
<1>11. SameTask(th[t], q) /\ th'[t] = q
  BY <1>2, <1>4
<1> QED
  BY <1>1, <1>10, <1>11, SearchGoesOn DEF S, F, B, Z

\* A depth-first search goes back to the frame below, or it ends.
LEMMA ExitGoesOn ==
  ASSUME TasksInv, NEW t \in Thread, Exit(t)
  PROVE  th'[t] \in Task /\ SameTask(th[t], th'[t]) /\ TaskHolds(t)' /\ Running(t)'
<1>0. th[t].pc = "edges" /\ dfs /\ th[t].s.todo = {} /\ UNCHANGED <<E, dfs, G_Color, G_SCC>>
  BY DEF Exit
<1> DEFINE S == TaskNodes(t)
           F == Colored(th[t].fw)
           B == Colored(th[t].bw)
           Z == Found(th[t].pivot)
           M == Recolored(th[t], F, B, Z)
<1>1. /\ Running(t) /\ th[t] \in Task /\ Seeks(E, dfs, th[t], S, F, B, Z) /\ S \subseteq Node
  BY <1>0, AtEdges
<1>2. PICK r \in Task : r = th[t]
  BY <1>1
<1>3. PICK s \in Searches : s = r.s
  BY <1>2 DEF Task
<1>6. /\ r.pc = "edges" /\ r.pivot \in S /\ r.fw # -1 /\ r.bw # -1 /\ SearchOK(E, dfs, Backward(r), r, S, M)
  BY <1>0, <1>1, <1>2 DEF Seeks
<1>7. Descending(E, Backward(r), s, S, M) /\ Within(E, Backward(r), s, r.pivot, S)
  BY <1>0, <1>3, <1>6 DEF SearchOK
<1>5. PICK f \in Frame : f = s.rest[Len(s.rest)]
  <2>1. s.rest \in Seq(Frame) /\ s.rest # <<>>
    BY <1>7 DEF Descending, Frames
  <2>2. Len(s.rest) \in 1 .. Len(s.rest)
    BY <2>1
  <2> QED
    BY <2>1, <2>2
<1>4. PICK q \in Task : q = th'[t] /\ SameTask(r, q) /\ q.pc = (IF f.node = NIL THEN "end" ELSE "edges")
                        /\ q.s \in Searches /\ q.s.visited = s.visited /\ q.s.curr = f.node
                        /\ q.s.rest = SubSeq(s.rest, 1, Len(s.rest) - 1) /\ q.s.todo = f.todo
  <2> DEFINE pc == IF f.node = NIL THEN "end" ELSE "edges"
             s2 == [s EXCEPT !.curr = f.node, !.todo = f.todo, !.rest = SubSeq(@, 1, Len(@) - 1)]
             q2 == [[r EXCEPT !.s = s2] EXCEPT !.pc = pc]
  <2>1. th'[t] = q2
    <3>1. th' = [th EXCEPT ![t] = [[th[t] EXCEPT !.s.curr = f.node, !.s.todo = f.todo,
                                      !.s.rest = SubSeq(@, 1, Len(@) - 1)] EXCEPT !.pc = pc]]
      BY <1>2, <1>3, <1>5 DEF Exit, Goto
    <3> HIDE DEF pc
    <3> QED
      BY <1>1, <1>2, <1>3, <3>1 DEF TasksInv, TasksTyped
  <2>2. /\ s2 \in Searches /\ s2.visited = s.visited /\ s2.curr = f.node
        /\ s2.rest = SubSeq(s.rest, 1, Len(s.rest) - 1) /\ s2.todo = f.todo
    <3>1. SubSeq(s.rest, 1, Len(s.rest) - 1) \in Seq(Frame)
      <4>1. s.rest \in Seq(Frame)
        BY <1>7 DEF Descending, Frames
      <4> QED
        BY <4>1
    <3>2. f.node \in Node \cup {NIL} /\ f.todo \in SUBSET Node
      BY <1>5 DEF Frame
    <3> QED
      BY <1>3, <3>1, <3>2 DEF Searches
  <2> HIDE DEF s2
  <2>5. pc \in {"end", "edges"}
    OBVIOUS
  <2>6. pc = IF f.node = NIL THEN "end" ELSE "edges"
    OBVIOUS
  <2> HIDE DEF pc
  <2>3. q2 \in Task /\ q2.pc = pc /\ q2.s = s2
    BY <1>2, <2>2, <2>5 DEF Task
  <2>4. SameTask(r, q2)
    BY <1>2 DEF Task, SameTask
  <2> HIDE DEF q2
  <2> QED
    BY <2>1, <2>2, <2>3, <2>4, <2>6
<1>12. NIL \notin s.visited
  BY <1>3, TasksAssumption DEF Searches
<1> HIDE DEF S, F, B, Z, M
<1>8. SearchOK(E, dfs, Backward(q), q, S, M)
  <2>1. Backward(q) = Backward(r) /\ q.pivot = r.pivot
    BY <1>4 DEF SameTask, Backward
  <2>2. Within(E, Backward(r), q.s, r.pivot, S)
    BY <1>4, <1>7 DEF Within
  <2>3. IF f.node = NIL THEN Ended(E, Backward(r), q.s, S, M) ELSE Descending(E, Backward(r), q.s, S, M)
    <3>1. s.todo = {}
      BY <1>0, <1>2, <1>3
    <3> QED
      BY <1>4, <1>5, <1>7, <1>12, <3>1, ExitAscends
  <2>4. CASE f.node = NIL
    BY <1>4, <1>6, <2>1, <2>2, <2>3, <2>4 DEF SearchOK
  <2>5. CASE f.node # NIL
    BY <1>0, <1>4, <1>6, <2>1, <2>2, <2>3, <2>5 DEF SearchOK
  <2> QED
    BY <2>4, <2>5
<1>9. M = Recolored(q, F, B, Z)
  BY <1>2, <1>4 DEF M, Recolored, SameTask, Backward
<1>10. Seeks(E, dfs, q, S, F, B, Z)
  BY <1>4, <1>6, <1>8, <1>9 DEF Seeks, SameTask
<1>11. SameTask(th[t], q) /\ th'[t] = q
  BY <1>2, <1>4
<1> QED
  BY <1>0, <1>1, <1>10, <1>11, SearchGoesOn DEF S, F, B, Z

\* One neighbour of the current node.
LEMMA CheckGoesOn ==
  ASSUME TasksInv, NEW t \in Thread, Check(t)
  PROVE  th'[t] \in Task /\ SameTask(th[t], th'[t]) /\ TaskHolds(t)' /\ Running(t)'
<1>1. th[t].pc = "edges" /\ UNCHANGED <<E, dfs, G_Color, G_SCC>>
  BY DEF Check
<1>2. PICK u \in th[t].s.todo :
        IF u \in th[t].s.visited \/ ~check_navigator(th[t], u)
        THEN th' = [th EXCEPT ![t].s.todo = @ \ {u}]
        ELSE IF dfs
        THEN Goto(t, [th[t] EXCEPT !.s.todo = @ \ {u}, !.s.next = u], "enter")
        ELSE th' = [th EXCEPT ![t].s.todo = @ \ {u}, ![t].s.visited = @ \cup {u},
                              ![t].s.rest = Append(@, u)]
  BY DEF Check
<1>3. CASE u \in th[t].s.visited \/ ~check_navigator(th[t], u)
  BY <1>1, <1>2, <1>3, SkipGoesOn
<1>4. CASE ~(u \in th[t].s.visited \/ ~check_navigator(th[t], u)) /\ dfs
  BY <1>1, <1>2, <1>4, NextGoesOn
<1>5. CASE ~(u \in th[t].s.visited \/ ~check_navigator(th[t], u)) /\ ~dfs
  BY <1>1, <1>2, <1>5, JoinGoesOn
<1> QED
  BY <1>3, <1>4, <1>5

\* The colour that get_new_color returns is of no node, no item and no task.
LEMMA NewColorFree ==
  ASSUME TasksInv, ColorInv, NEW t \in Thread
  PROVE  /\ NewColor(t) \in Int /\ NewColor(t) >= 0
         /\ \A v \in Node : G_Color[v] # NewColor(t)
         /\ NewColor(t) \notin ItemColors
         /\ \A u \in Thread : NewColor(t) \notin Owns(u)
<1> DEFINE n == NewColor(t)
<1>1. n \in Int /\ n >= 0 /\ \A u \in Thread : n \notin given[u]
  BY NextIsNew
<1> HIDE DEF n
<1>2. ~Used(n)
  BY <1>1 DEF Used
<1>3. n \notin ItemColors /\ \A u \in Thread : n \notin Owns(u)
  BY <1>2 DEF TasksInv, ColorsUsed
<1>4. n # -2
  BY <1>1
<1>5. \A v \in Node : G_Color[v] # n
  BY <1>3, <1>4 DEF TasksInv, ColorsOwned
<1> QED
  BY <1>1, <1>3, <1>5 DEF n

\* An idle thread has no search and no sets.
LEMMA IdleTyped == Idle \in Task /\ NoSearch \in Searches /\ ~Backward(Idle)
<1>1. <<>> \in Seq(Node)
  OBVIOUS
<1>2. NoSearch \in Searches
  BY <1>1 DEF NoSearch, Searches
<1>3. Idle \in Task
  BY <1>2 DEF Idle, Task, Sets
<1> QED
  BY <1>2, <1>3 DEF Idle, Backward

\* An item is taken: a task begins.
LEMMA FetchBegins ==
  ASSUME TasksInv, NEW t \in Thread, NEW w \in works, UNCHANGED <<E, dfs, G_Color, G_SCC>>,
         Goto(t, [Idle EXCEPT !.color = w.color, !.count = w.count,
                    !.set = IF w.set = NULL /\ Small(w.count) THEN OfColor(w.color) ELSE w.set],
              "pivot")
  PROVE  /\ th'[t] \in Task /\ TaskHolds(t)' /\ Running(t)'
         /\ th'[t].color = w.color /\ th'[t].fw = -1 /\ th'[t].bw = -1 /\ th'[t].pivot = NIL
<1> DEFINE set == IF w.set = NULL /\ Small(w.count) THEN OfColor(w.color) ELSE w.set
           K == OfColor(w.color)
<1>1. K # {} /\ w.count = Cardinality(K) /\ w.set \in {NULL, K} /\ w \in Item0
  BY DEF TasksInv, ItemsOK, TasksTyped
<1>2. set \in {NULL, K} /\ set \in Sets
  BY <1>1 DEF Sets, NextOf, NextFound, OfColor
<1> HIDE DEF set
<1>3. PICK q \in Task : /\ q = th'[t] /\ q.color = w.color /\ q.count = w.count /\ q.set = set /\ q.pc = "pivot"
                        /\ q.pivot = NIL /\ q.fw = -1 /\ q.bw = -1 /\ q.fw_set = NULL /\ q.bw_set = NULL
                        /\ q.fw_count = 0 /\ q.bw_count = 0 /\ q.scc_count = 0
  <2> DEFINE q2 == [[Idle EXCEPT !.color = w.color, !.count = w.count, !.set = set] EXCEPT !.pc = "pivot"]
  <2>1. th'[t] = q2
    BY DEF Goto, TasksInv, TasksTyped, set
  <2>2. w.color \in Int /\ w.count \in Nat
    BY <1>1 DEF Item0
  <2>3. q2 \in Task
    BY <1>2, <2>2, IdleTyped DEF Task
  <2>4. /\ q2.color = w.color /\ q2.count = w.count /\ q2.set = set /\ q2.pc = "pivot"
        /\ q2.pivot = NIL /\ q2.fw = -1 /\ q2.bw = -1 /\ q2.fw_set = NULL /\ q2.bw_set = NULL
        /\ q2.fw_count = 0 /\ q2.bw_count = 0 /\ q2.scc_count = 0
    BY DEF Idle
  <2> HIDE DEF q2
  <2> QED
    BY <2>1, <2>3, <2>4
<1>4. ~Backward(q)
  BY <1>3 DEF Backward
<1>5. K \subseteq Node /\ Cardinality({}) = 0
  BY FS_EmptySet DEF NextOf, NextFound, OfColor
<1> HIDE DEF K
<1>6. Tally(E, q, K, K, {}, {}, {})
  BY <1>1, <1>2, <1>3, <1>4, <1>5 DEF Tally, ForwardTally, Disjoint4
<1>7. Begins(q, K, {})
  BY <1>1, <1>3, <1>4 DEF Begins
<1>8. TaskOK(E', dfs', q, K, {}, {}, {})
  <2>1. K \cup {} \cup {} \cup {} = K
    OBVIOUS
  <2> QED
    BY <1>6, <1>7, <2>1 DEF TaskOK
<1>9. NextOf(q.color) = K
  BY <1>3 DEF K, NextOf, NextFound, OfColor
<1> QED
  BY <1>3, <1>8, <1>9, HoldsAfter

\* What is known of a task that has not begun to search.
LEMMA AtBeginning ==
  ASSUME TasksInv, NEW t \in Thread, th[t].pc \in {"pivot", "fw_color", "bw_color"}
  PROVE  LET r == th[t]
             K == OfColor(r.color)
         IN  /\ Running(t) /\ r \in Task
             /\ TaskNodes(t) = K /\ K # {} /\ K \subseteq Node
             /\ r.count = Cardinality(K) /\ r.set \in {NULL, K}
             /\ r.pivot \in IF r.pc = "pivot" THEN {NIL} ELSE K
             /\ IF r.pc = "bw_color" THEN r.fw # -1 ELSE r.fw = -1
             /\ r.bw = -1 /\ ~Backward(r)
             /\ r.fw_count = 0 /\ r.bw_count = 0 /\ r.scc_count = 0 /\ r.bw_set = NULL
             /\ Colored(r.fw) = {} /\ Found(r.pivot) = {}
             /\ r.fw_set \in {NULL, {}}
<1> DEFINE r == th[t]
           K == OfColor(r.color)
           F == Colored(r.fw)
           B == Colored(r.bw)
           Z == Found(r.pivot)
           S == TaskNodes(t)
<1>1. Running(t)
  BY DEF Running
<1>2. r \in Task /\ Tally(E, r, S, K, F, B, Z)
  BY <1>1, RunningTask
<1>3. ~Seeks(E, dfs, r, S, F, B, Z)
  BY DEF Seeks
<1>4. Begins(r, K, F)
  BY <1>1, <1>3, RunningTask
<1> HIDE DEF K, F, B, Z, S
<1>5. /\ ~Backward(r) /\ K # {} /\ F = {} /\ r.bw = -1
      /\ r.pivot \in IF r.pc = "pivot" THEN {NIL} ELSE K
      /\ IF r.pc = "bw_color" THEN r.fw # -1 ELSE r.fw = -1
  BY <1>4 DEF Begins
<1>6. /\ S = K \cup F \cup B \cup Z /\ S \subseteq Node /\ r.count = Cardinality(S) /\ r.set \in {NULL, K}
      /\ B = {} /\ Z = {} /\ r.fw_count = Cardinality(F) /\ r.fw_set \in {NULL, F}
  BY <1>2, <1>5 DEF Tally, ForwardTally
<1>7. r.bw_set = NULL /\ r.bw_count = 0 /\ r.scc_count = 0
  <2>1. r.bw_count \in Nat /\ r.scc_count \in Nat
    BY <1>2 DEF Task
  <2> QED
    BY <1>5, <2>1 DEF Backward
<1>8. S = K
  BY <1>5, <1>6
<1>9. r.fw_count = 0
  BY <1>5, <1>6, FS_EmptySet
<1> QED
  BY <1>1, <1>2, <1>5, <1>6, <1>7, <1>8, <1>9 DEF K, F, Z, S

\* A task that is at its beginning after a step.
LEMMA BeginsAfter ==
  ASSUME NEW t \in Thread, NEW q \in Task, th'[t] = q, q.pc \in {"pivot", "fw_color", "bw_color"},
         NEW K \in SUBSET Node, NextOf(q.color) = K, K # {},
         q.count = Cardinality(K), q.set \in {NULL, K},
         q.pivot \in IF q.pc = "pivot" THEN {NIL} ELSE K,
         IF q.pc = "bw_color" THEN q.fw # -1 ELSE q.fw = -1,
         q.bw = -1, ~Backward(q), q.fw_count = 0, q.fw_set \in {NULL, {}},
         q.fw # -1 => NextOf(q.fw) = {},
         q.pivot # NIL => NextFound(q.pivot) = {}
  PROVE  TaskHolds(t)' /\ Running(t)'
<1>1. K = K \cup {} \cup {} \cup {} /\ Cardinality({}) = 0
  BY FS_EmptySet
<1>2. Tally(E', q, K, K, {}, {}, {})
  BY <1>1 DEF Tally, ForwardTally, Disjoint4
<1>3. Begins(q, K, {})
  BY DEF Begins
<1>4. TaskOK(E', dfs', q, K, {}, {}, {})
  BY <1>1, <1>2, <1>3 DEF TaskOK
<1>5. /\ (IF q.fw = -1 THEN {} ELSE NextOf(q.fw)) = {}
      /\ (IF q.bw = -1 THEN {} ELSE NextOf(q.bw)) = {}
      /\ (IF q.pivot = NIL THEN {} ELSE NextFound(q.pivot)) = {}
      /\ q.pc # "fetch"
  OBVIOUS
<1>6. TaskOK(E', dfs', q, NextOf(q.color),
             IF q.fw = -1 THEN {} ELSE NextOf(q.fw),
             IF q.bw = -1 THEN {} ELSE NextOf(q.bw),
             IF q.pivot = NIL THEN {} ELSE NextFound(q.pivot))
  BY <1>4, <1>5, Zenon
<1> QED
  BY <1>5, <1>6, HoldsAfter

\* A node of a task that has not begun is the representative of no SCC.
LEMMA PivotNew ==
  ASSUME TasksInv, NEW t \in Thread, th[t].pc = "pivot", NEW p \in OfColor(th[t].color)
  PROVE  /\ \A v \in Node : G_SCC[v] # p
         /\ \A u \in Thread : u # t => th[u].pivot # p
         /\ p \in Node /\ p # NIL /\ G_Color[p] = th[t].color /\ G_Color[p] # -2 /\ G_SCC[p] = NIL
<1>1. Running(t) /\ th[t].pivot = NIL /\ p \in TaskNodes(t) /\ p \in Node
  BY AtBeginning
<1>2. p # NIL
  BY <1>1, TasksAssumption
<1>3. G_Color[p] = th[t].color /\ G_Color[p] # -2
  BY <1>1 DEF NextOf, NextFound, OfColor, Owns, Mine, TasksInv, ColorsUsed, Used
<1>4. ASSUME NEW u \in Thread, u # t PROVE th[u].pivot # p
  <2>1. CASE Running(u)
    BY <1>1, <1>2, <1>4, <2>1, RunningTask, NodesApart
  <2>2. CASE ~Running(u)
    BY <1>2, <2>2 DEF TasksInv, TaskHolds, Idle
  <2> QED
    BY <2>1, <2>2
<1>5. ASSUME NEW v \in Node PROVE G_SCC[v] # p
  BY <1>1, <1>2, <1>3, <1>4 DEF TasksInv, Marks
<1> QED
  BY <1>1, <1>2, <1>3, <1>4, <1>5 DEF TasksInv, Marks

\* The first node of the set or of the colour is a node of the task.
LEMMA PivotOfTask ==
  ASSUME TasksInv, NEW t \in Thread, th[t].pc = "pivot",
         NEW p \in IF th[t].set = NULL THEN OfColor(th[t].color) ELSE th[t].set
  PROVE  p \in OfColor(th[t].color)
BY AtBeginning

\* A task has its pivot.
LEMMA PivotBegins ==
  ASSUME TasksInv, NEW t \in Thread, th[t].pc = "pivot", NEW p \in OfColor(th[t].color),
         UNCHANGED <<E, dfs, G_Color, G_SCC>>, Goto(t, [th[t] EXCEPT !.pivot = p], "fw_color")
  PROVE  /\ th'[t] \in Task /\ TaskHolds(t)' /\ Running(t)'
         /\ th'[t].color = th[t].color /\ th'[t].fw = th[t].fw /\ th'[t].bw = th[t].bw /\ th'[t].pivot = p
<1>1. PICK r \in Task : r = th[t] /\ r.pc = "pivot"
  BY AtBeginning
<1>2. PICK q \in Task : /\ q = th'[t] /\ SameTask([r EXCEPT !.pivot = p], q) /\ q.pc = "fw_color" /\ q.pivot = p
  <2> DEFINE q2 == [[r EXCEPT !.pivot = p] EXCEPT !.pc = "fw_color"]
  <2>1. th'[t] = q2
    BY <1>1 DEF Goto, TasksInv, TasksTyped
  <2>2. q2 \in Task /\ q2.pc = "fw_color" /\ q2.pivot = p /\ SameTask([r EXCEPT !.pivot = p], q2)
    BY <1>1 DEF Task, NextOf, NextFound, OfColor, SameTask
  <2> QED
    BY <2>1, <2>2
<1>3. /\ q.color = r.color /\ q.count = r.count /\ q.set = r.set /\ q.fw = r.fw /\ q.bw = r.bw
      /\ q.fw_set = r.fw_set /\ q.bw_set = r.bw_set /\ q.fw_count = r.fw_count
      /\ q.bw_count = r.bw_count /\ q.scc_count = r.scc_count
  BY <1>1, <1>2 DEF SameTask, Task
<1> DEFINE K == OfColor(r.color)
<1>4. /\ K # {} /\ K \subseteq Node /\ r.count = Cardinality(K) /\ r.set \in {NULL, K}
      /\ r.fw = -1 /\ r.bw = -1 /\ ~Backward(r) /\ r.fw_count = 0 /\ r.fw_set \in {NULL, {}}
  BY <1>1, AtBeginning
<1>5. ~Backward(q)
  BY <1>3, <1>4 DEF Backward
<1>6. NextOf(q.color) = K
  BY <1>3 DEF NextOf, NextFound, OfColor
<1>7. NextFound(q.pivot) = {}
  BY <1>2, PivotNew DEF NextFound
<1>8. p \in K
  BY <1>1
<1> HIDE DEF K
<1>9. TaskHolds(t)' /\ Running(t)'
  BY <1>2, <1>3, <1>4, <1>5, <1>6, <1>7, <1>8, BeginsAfter
<1> QED
  BY <1>1, <1>2, <1>3, <1>9

\* A task has its forward colour.
LEMMA FwColorBegins ==
  ASSUME TasksInv, ColorInv, NEW t \in Thread, FwColor(t)
  PROVE  /\ th'[t] \in Task /\ TaskHolds(t)' /\ Running(t)'
         /\ th'[t].color = th[t].color /\ th'[t].fw = NewColor(t) /\ th'[t].bw = th[t].bw
         /\ th'[t].pivot = th[t].pivot /\ th[t].bw = -1
<1> DEFINE n == NewColor(t)
<1>0. /\ th[t].pc = "fw_color" /\ Goto(t, [th[t] EXCEPT !.fw = n], "bw_color")
      /\ UNCHANGED <<E, dfs, G_Color, G_SCC>>
  BY DEF FwColor
<1>1. n \in Int /\ n >= 0 /\ \A v \in Node : G_Color[v] # n
  BY NewColorFree
<1> HIDE DEF n
<1>2. PICK r \in Task : r = th[t] /\ r.pc = "fw_color"
  BY <1>0, AtBeginning
<1>3. PICK q \in Task : /\ q = th'[t] /\ SameTask([r EXCEPT !.fw = n], q) /\ q.pc = "bw_color" /\ q.fw = n
  <2> DEFINE q2 == [[r EXCEPT !.fw = n] EXCEPT !.pc = "bw_color"]
  <2>1. th'[t] = q2
    BY <1>0, <1>2 DEF Goto, TasksInv, TasksTyped
  <2>2. q2 \in Task /\ q2.pc = "bw_color" /\ q2.fw = n /\ SameTask([r EXCEPT !.fw = n], q2)
    BY <1>1, <1>2 DEF Task, SameTask
  <2> QED
    BY <2>1, <2>2
<1>4. /\ q.color = r.color /\ q.count = r.count /\ q.set = r.set /\ q.pivot = r.pivot /\ q.bw = r.bw
      /\ q.fw_set = r.fw_set /\ q.bw_set = r.bw_set /\ q.fw_count = r.fw_count
      /\ q.bw_count = r.bw_count /\ q.scc_count = r.scc_count
  BY <1>2, <1>3 DEF SameTask, Task
<1> DEFINE K == OfColor(r.color)
<1>5. /\ K # {} /\ K \subseteq Node /\ r.count = Cardinality(K) /\ r.set \in {NULL, K} /\ r.pivot \in K
      /\ r.bw = -1 /\ ~Backward(r) /\ r.fw_count = 0 /\ r.fw_set \in {NULL, {}}
      /\ Found(r.pivot) = {}
  BY <1>2, AtBeginning
<1>6. ~Backward(q)
  BY <1>4, <1>5 DEF Backward
<1>7. NextOf(q.color) = K
  BY <1>0, <1>4 DEF NextOf, NextFound, OfColor
<1>8. q.pivot # NIL => NextFound(q.pivot) = {}
  BY <1>0, <1>4, <1>5 DEF NextOf, NextFound, Found
<1>9. NextOf(q.fw) = {} /\ q.fw # -1
  BY <1>0, <1>1, <1>3 DEF NextOf
<1> HIDE DEF K
<1>10. TaskHolds(t)' /\ Running(t)'
  BY <1>3, <1>4, <1>5, <1>6, <1>7, <1>8, <1>9, BeginsAfter
<1> QED
  BY <1>2, <1>3, <1>4, <1>5, <1>10 DEF n

\* A task that searches after a step.
LEMMA SeeksAfter ==
  ASSUME NEW t \in Thread, NEW q \in Task, th'[t] = q, NEW S, NEW K, NEW F, NEW B, NEW Z,
         NextOf(q.color) = K,
         NextOf(q.fw) = F, NextOf(q.bw) = B,
         q.pivot # NIL, NextFound(q.pivot) = Z,
         S = K \cup F \cup B \cup Z,
         Tally(E', q, S, K, F, B, Z), Seeks(E', dfs', q, S, F, B, Z)
  PROVE  TaskHolds(t)' /\ Running(t)' /\ TaskNodes(t)' = S
<1>1. q.pc # "fetch" /\ q.fw # -1 /\ q.bw # -1
  BY DEF Seeks
<1>2. TaskOK(E', dfs', q, K, F, B, Z)
  BY DEF TaskOK
<1>3. TaskNodes(t)' = S
  BY <1>1 DEF TaskNodes, NextOf, NextFound
<1> QED
  BY <1>1, <1>2, <1>3, HoldsAfter

\* A search begins at the pivot, forward or backward.
LEMMA BegunSeeks ==
  ASSUME NEW r \in Task, NEW b \in BOOLEAN, NEW S \in SUBSET Node, r.pivot \in S, E \subseteq Node \X Node,
         Backward(r) = b
  PROVE  LET q == Begun(r, b)
         IN  /\ q \in Task /\ SameTask(r, q) /\ q.pc \in {"enter", "edges"}
             /\ SearchOK(E, dfs, b, q, S, {})
<1>0. PICK p \in Node : p = r.pivot
  OBVIOUS
<1>1. Neighbors(p, b) = Near(E, b, p) /\ Near(E, b, p) \subseteq Node
  BY NeighborsAreNear DEF Near
<1>2. CASE dfs
  <2> DEFINE s2 == [[NoSearch EXCEPT !.visited = {p}] EXCEPT !.next = p]
             q2 == [r EXCEPT !.s = s2, !.pc = "enter"]
  <2>1. Begun(r, b) = q2
    BY <1>0, <1>2 DEF Begun
  <2>2. /\ s2 \in Searches /\ s2.visited = {p} /\ s2.curr = NIL /\ s2.todo = {} /\ s2.next = p /\ s2.rest = <<>>
    <3>1. <<>> \in Seq(Node)
      OBVIOUS
    <3> QED
      BY <3>1 DEF NoSearch, Searches
  <2> HIDE DEF s2
  <2>3. q2 \in Task /\ SameTask(r, q2) /\ q2.pc = "enter" /\ q2.s = s2 /\ q2.pivot = p
    BY <1>0, <2>2 DEF Task, SameTask
  <2>4. Within(E, b, s2, p, S) /\ Entering(E, b, s2, p, S, {})
    BY <1>0, <2>2, BeginEnters
  <2> HIDE DEF q2
  <2>5. SearchOK(E, dfs, b, q2, S, {})
    BY <1>2, <2>3, <2>4 DEF SearchOK
  <2> QED
    BY <2>1, <2>3, <2>5
<1>3. CASE ~dfs
  <2> DEFINE s2 == [[NoSearch EXCEPT !.visited = {p}] EXCEPT !.curr = p, !.todo = Near(E, b, p)]
             q2 == [r EXCEPT !.s = s2, !.pc = "edges"]
  <2>1. Begun(r, b) = q2
    BY <1>0, <1>1, <1>3 DEF Begun
  <2>2. /\ s2 \in Searches /\ s2.visited = {p} /\ s2.curr = p /\ s2.todo = Near(E, b, p) /\ s2.rest = <<>>
    <3>1. <<>> \in Seq(Node)
      OBVIOUS
    <3> QED
      BY <1>1, <3>1 DEF NoSearch, Searches
  <2> HIDE DEF s2
  <2>3. q2 \in Task /\ SameTask(r, q2) /\ q2.pc = "edges" /\ q2.s = s2 /\ q2.pivot = p
    BY <1>0, <2>2 DEF Task, SameTask
  <2>4. Within(E, b, s2, p, S) /\ Spreading(E, b, s2, S, {})
    BY <1>0, <2>2, BeginSpreads
  <2> HIDE DEF q2
  <2>5. SearchOK(E, dfs, b, q2, S, {})
    BY <1>3, <2>3, <2>4 DEF SearchOK
  <2> QED
    BY <2>1, <2>3, <2>5
<1> QED
  BY <1>2, <1>3

\* The forward search begins.
LEMMA BwColorSeeks ==
  ASSUME TasksInv, ColorInv, NEW t \in Thread, BwColor(t)
  PROVE  /\ th'[t] \in Task /\ TaskHolds(t)' /\ Running(t)' /\ TaskNodes(t)' = TaskNodes(t)
         /\ th'[t].color = th[t].color /\ th'[t].fw = th[t].fw /\ th'[t].bw = NewColor(t)
         /\ th'[t].pivot = th[t].pivot /\ th[t].bw = -1 /\ th[t].fw # -1
<1> DEFINE n == NewColor(t)
<1>0. /\ th[t].pc = "bw_color" /\ th' = [th EXCEPT ![t] = Begun([th[t] EXCEPT !.bw = n, !.fw_set = {}], FALSE)]
      /\ UNCHANGED <<E, dfs, G_Color, G_SCC>>
  BY DEF BwColor
<1>1. n \in Int /\ n >= 0 /\ \A v \in Node : G_Color[v] # n
  BY NewColorFree
<1> HIDE DEF n
<1>2. PICK r \in Task : r = th[t] /\ r.pc = "bw_color"
  BY <1>0, AtBeginning
<1>3. PICK r2 \in Task : /\ r2 = [r EXCEPT !.bw = n, !.fw_set = {}]
                         /\ r2.color = r.color /\ r2.count = r.count /\ r2.set = r.set /\ r2.pivot = r.pivot
                         /\ r2.fw = r.fw /\ r2.bw = n /\ r2.fw_set = {} /\ r2.bw_set = r.bw_set
                         /\ r2.fw_count = r.fw_count /\ r2.bw_count = r.bw_count /\ r2.scc_count = r.scc_count
  <2>1. {} \in Sets
    BY DEF Sets
  <2> DEFINE x == [r EXCEPT !.bw = n, !.fw_set = {}]
  <2>2. x \in Task
    BY <1>1, <1>2, <2>1 DEF Task
  <2>3. /\ x.color = r.color /\ x.count = r.count /\ x.set = r.set /\ x.pivot = r.pivot
        /\ x.fw = r.fw /\ x.bw = n /\ x.fw_set = {} /\ x.bw_set = r.bw_set
        /\ x.fw_count = r.fw_count /\ x.bw_count = r.bw_count /\ x.scc_count = r.scc_count
    BY <1>2 DEF Task
  <2> QED
    BY <2>2, <2>3
<1> DEFINE K == OfColor(r.color)
<1>4. /\ K # {} /\ K \subseteq Node /\ r.count = Cardinality(K) /\ r.set \in {NULL, K} /\ r.pivot \in K
      /\ r.bw = -1 /\ ~Backward(r) /\ r.fw_count = 0 /\ r.fw # -1
      /\ Colored(r.fw) = {} /\ Found(r.pivot) = {} /\ TaskNodes(t) = K
  BY <1>2, AtBeginning
<1>5. E \subseteq Node \X Node
  BY TasksAssumption DEF TasksInv, TasksTyped
<1>6. Backward(r2) = FALSE
  BY <1>3, <1>4 DEF Backward
<1>7. NextOf(r2.color) = K
  BY <1>0, <1>3 DEF NextOf, NextFound, OfColor
<1>8. NextOf(r2.fw) = {} /\ NextOf(r2.bw) = {}
  BY <1>0, <1>1, <1>3, <1>4 DEF Colored, NextOf, NextFound, OfColor
<1>9. r2.pivot # NIL /\ NextFound(r2.pivot) = {}
  BY <1>0, <1>3, <1>4, TasksAssumption DEF NextOf, NextFound, Found
<1> HIDE DEF K
<1>10. PICK q \in Task : q = Begun(r2, FALSE) /\ SameTask(r2, q) /\ q.pc \in {"enter", "edges"}
                         /\ SearchOK(E, dfs, FALSE, q, K, {})
  BY <1>3, <1>4, <1>5, <1>6, BegunSeeks
<1>11. th'[t] = q
  BY <1>0, <1>2, <1>3, <1>10 DEF TasksInv, TasksTyped
<1>12. K = K \cup {} \cup {} \cup {} /\ Cardinality({}) = 0
  BY FS_EmptySet
<1>13. Tally(E, r2, K, K, {}, {}, {})
  BY <1>3, <1>4, <1>6, <1>12 DEF Tally, ForwardTally, Disjoint4
<1>14. Tally(E, q, K, K, {}, {}, {}) /\ Backward(q) = FALSE
  BY <1>6, <1>10, <1>13, SameTally
<1>15. q.color = r2.color /\ q.fw = r2.fw /\ q.bw = r2.bw /\ q.pivot = r2.pivot
  BY <1>10 DEF SameTask
<1>16. n # -1
  BY <1>1
<1>17. Seeks(E, dfs, q, K, {}, {}, {})
  BY <1>3, <1>4, <1>10, <1>14, <1>15, <1>16 DEF Seeks, Recolored
<1>18. E' = E /\ dfs' = dfs
  BY <1>0
<1>20. /\ NextOf(q.color) = K
       /\ NextOf(q.fw) = {} /\ NextOf(q.bw) = {}
       /\ q.pivot # NIL /\ NextFound(q.pivot) = {}
  BY <1>7, <1>8, <1>9, <1>15
<1>21. Tally(E', q, K, K, {}, {}, {}) /\ Seeks(E', dfs', q, K, {}, {}, {})
  BY <1>14, <1>17, <1>18
<1>19. TaskHolds(t)' /\ Running(t)' /\ TaskNodes(t)' = K
  BY <1>11, <1>12, <1>20, <1>21, SeeksAfter
<1> QED
  BY <1>2, <1>3, <1>4, <1>11, <1>15, <1>19 DEF n

\* The backward search begins: what the forward one found is what the pivot reaches.
LEMMA TurnSeeks ==
  ASSUME TasksInv, NEW t \in Thread, Turn(t)
  PROVE  /\ th'[t] \in Task /\ TaskHolds(t)' /\ Running(t)' /\ TaskNodes(t)' = TaskNodes(t)
         /\ th'[t].color = th[t].color /\ th'[t].fw = th[t].fw /\ th'[t].bw = th[t].bw
         /\ th'[t].pivot = th[t].pivot
<1> DEFINE K == OfColor(th[t].color)
           F == Colored(th[t].fw)
           B == Colored(th[t].bw)
           Z == Found(th[t].pivot)
           S == TaskNodes(t)
<1>0. /\ th[t].pc = "end" /\ ~Backward(th[t])
      /\ th' = [th EXCEPT ![t] = Begun([th[t] EXCEPT !.bw_set = {}, !.fw_set = NonEmpty(@)], TRUE)]
      /\ UNCHANGED <<E, dfs, G_Color, G_SCC>>
  BY DEF Turn
<1>1. PICK r \in Task : r = th[t] /\ r.pc = "end" /\ ~Backward(r) /\ Backward(r) = FALSE
  BY <1>0, AtEdges DEF Backward
<1>2. Seeks(E, dfs, r, S, F, B, Z) /\ S \subseteq Node /\ r.pivot \in S /\ S = K \cup F \cup B \cup Z
  BY <1>0, <1>1, AtEdges, PartsOfTask
<1>3. Tally(E, r, S, K, F, B, Z)
  BY <1>0, <1>1, AtEdges, RunningTask
<1>4. PICK r2 \in Task : /\ r2 = [r EXCEPT !.bw_set = {}, !.fw_set = NonEmpty(@)]
                         /\ r2.color = r.color /\ r2.count = r.count /\ r2.set = r.set /\ r2.pivot = r.pivot
                         /\ r2.fw = r.fw /\ r2.bw = r.bw /\ r2.fw_set = NonEmpty(r.fw_set) /\ r2.bw_set = {}
                         /\ r2.fw_count = r.fw_count /\ r2.bw_count = r.bw_count /\ r2.scc_count = r.scc_count
  <2>1. {} \in Sets /\ NonEmpty(r.fw_set) \in Sets
    BY <1>1 DEF Sets, NonEmpty, Task
  <2> DEFINE y == NonEmpty(r.fw_set)
             x == [r EXCEPT !.bw_set = {}, !.fw_set = y]
  <2>2. [r EXCEPT !.bw_set = {}, !.fw_set = NonEmpty(@)] = x
    BY <1>1 DEF Task
  <2> HIDE DEF y
  <2>3. x \in Task
    BY <1>1, <2>1 DEF Task, y
  <2>4. /\ x.color = r.color /\ x.count = r.count /\ x.set = r.set /\ x.pivot = r.pivot
        /\ x.fw = r.fw /\ x.bw = r.bw /\ x.fw_set = y /\ x.bw_set = {}
        /\ x.fw_count = r.fw_count /\ x.bw_count = r.bw_count /\ x.scc_count = r.scc_count
    BY <1>1 DEF Task
  <2> QED
    BY <2>2, <2>3, <2>4 DEF y
<1>5. E \subseteq Node \X Node
  BY TasksAssumption DEF TasksInv, TasksTyped
<1>6. Backward(r2) = TRUE
  BY <1>4, TasksAssumption DEF Backward
<1>7. /\ NextOf(r2.color) = K /\ r2.fw # -1 /\ r2.bw # -1
      /\ NextOf(r2.fw) = F
      /\ NextOf(r2.bw) = B
      /\ r2.pivot # NIL /\ NextFound(r2.pivot) = Z
  <2>1. r.fw # -1 /\ r.bw # -1 /\ r.pivot # NIL
    BY <1>2, TasksAssumption DEF Seeks
  <2> QED
    BY <1>0, <1>1, <1>4, <2>1 DEF OfColor, Colored, NextOf, NextFound, Found
<1>20. th' = [th EXCEPT ![t] = Begun(r2, TRUE)]
  BY <1>0, <1>1, <1>4
<1> HIDE DEF K, F, B, Z, S
<1>8. /\ S = K \cup F \cup B \cup Z /\ S \subseteq Node /\ Disjoint4(K, F, B, Z)
      /\ r.count = Cardinality(S) /\ r.set \in {NULL, K}
      /\ B = {} /\ Z = {} /\ r.fw_count = Cardinality(F) /\ r.fw_set \in {NULL, F}
  BY <1>1, <1>3 DEF Tally, ForwardTally
<1>9. F = Reached(E, FALSE, S, r.pivot)
  <2>1. SearchOK(E, dfs, FALSE, r, S, F)
    BY <1>1, <1>2 DEF Seeks, Recolored
  <2>2. Within(E, FALSE, r.s, r.pivot, S) /\ Ended(E, FALSE, r.s, S, F)
    BY <1>1, <2>1 DEF SearchOK
  <2> QED
    BY <1>2, <2>2, EndedReached
<1>10. r.bw_count = 0 /\ r.scc_count = 0 /\ Cardinality({}) = 0 /\ F \cup {} = F
  <2>1. r.bw_count \in Nat /\ r.scc_count \in Nat
    BY <1>1 DEF Task
  <2> QED
    BY <1>1, <2>1, FS_EmptySet DEF Backward
<1>11. r2.fw_set \in {NULL, F}
  BY <1>4, <1>8 DEF NonEmpty
<1>12. BackwardTally(E, r2, S, F, B, Z)
  BY <1>4, <1>8, <1>9, <1>10, <1>11 DEF BackwardTally
<1>13. Tally(E, r2, S, K, F, B, Z)
  BY <1>4, <1>6, <1>8, <1>12 DEF Tally
<1>14. PICK q \in Task : q = Begun(r2, TRUE) /\ SameTask(r2, q) /\ q.pc \in {"enter", "edges"}
                         /\ SearchOK(E, dfs, TRUE, q, S, {})
  BY <1>2, <1>4, <1>5, <1>6, BegunSeeks
<1>15. th'[t] = q
  BY <1>14, <1>20 DEF TasksInv, TasksTyped
<1>16. Tally(E, q, S, K, F, B, Z) /\ Backward(q)
  BY <1>6, <1>13, <1>14, SameTally
<1>17. q.color = r2.color /\ q.fw = r2.fw /\ q.bw = r2.bw /\ q.pivot = r2.pivot
  BY <1>14 DEF SameTask
<1>18. Recolored(q, F, B, Z) = {} /\ Backward(q) = TRUE
  BY <1>8, <1>16 DEF Recolored, Backward
<1>19. Seeks(E, dfs, q, S, F, B, Z)
  BY <1>2, <1>4, <1>7, <1>14, <1>17, <1>18 DEF Seeks
<1>21. E' = E /\ dfs' = dfs
  BY <1>0
<1>23. /\ NextOf(q.color) = K
       /\ NextOf(q.fw) = F /\ NextOf(q.bw) = B
       /\ q.pivot # NIL /\ NextFound(q.pivot) = Z
  BY <1>7, <1>17
<1>24. Tally(E', q, S, K, F, B, Z) /\ Seeks(E', dfs', q, S, F, B, Z)
  BY <1>16, <1>19, <1>21
<1>22. TaskHolds(t)' /\ Running(t)' /\ TaskNodes(t)' = S
  BY <1>8, <1>15, <1>23, <1>24, SeeksAfter
<1> QED
  BY <1>1, <1>4, <1>15, <1>17, <1>22 DEF S

\* The record after a visit.
LEMMA VisitedFields ==
  ASSUME NEW r \in Task, NEW k \in Node
  PROVE  LET q == Visited(r, k)
         IN  /\ q \in Task /\ q.color = r.color /\ q.pivot = r.pivot /\ q.fw = r.fw /\ q.bw = r.bw
             /\ q.s = r.s /\ q.pc = r.pc
<1>1. Without(r.set, k) \in Sets /\ With(r.fw_set, k) \in Sets /\ With(r.bw_set, k) \in Sets /\ Without(r.fw_set, k) \in Sets
  BY DEF With, Without, Sets, Task
<1>2. r.fw_count + 1 \in Nat /\ r.bw_count + 1 \in Nat /\ r.scc_count + 1 \in Nat
  BY DEF Task
<1> DEFINE a == Without(r.set, k)
           b == With(r.fw_set, k)
           c == With(r.bw_set, k)
           d == Without(r.fw_set, k)
           q1 == [r EXCEPT !.fw_count = @ + 1, !.set = a, !.fw_set = b]
           q2 == [r EXCEPT !.scc_count = @ + 1, !.fw_set = d]
           q3 == [r EXCEPT !.bw_count = @ + 1, !.set = a, !.bw_set = c]
<1>3. VisitedFw(r, k) = q1 /\ VisitedBw(r, k) = IF G_Color[k] = r.fw THEN q2 ELSE q3
  BY DEF VisitedFw, VisitedBw, Task
<1> HIDE DEF a, b, c, d
<1>4. /\ q1 \in Task /\ q1.color = r.color /\ q1.pivot = r.pivot /\ q1.fw = r.fw /\ q1.bw = r.bw
      /\ q1.s = r.s /\ q1.pc = r.pc
  BY <1>1, <1>2 DEF Task, a, b, c, d
<1>5. /\ q2 \in Task /\ q2.color = r.color /\ q2.pivot = r.pivot /\ q2.fw = r.fw /\ q2.bw = r.bw
      /\ q2.s = r.s /\ q2.pc = r.pc
  BY <1>1, <1>2 DEF Task, a, b, c, d
<1>6. /\ q3 \in Task /\ q3.color = r.color /\ q3.pivot = r.pivot /\ q3.fw = r.fw /\ q3.bw = r.bw
      /\ q3.s = r.s /\ q3.pc = r.pc
  BY <1>1, <1>2 DEF Task, a, b, c, d
<1> HIDE DEF q1, q2, q3
<1> QED
  BY <1>3, <1>4, <1>5, <1>6 DEF Visited

\* What a visit does to the nodes of the task and to the counts.
LEMMA VisitMoves ==
  ASSUME TasksInv, NEW t \in Thread, Running(t), NEW r \in Task, r = th[t],
         Seeks(E, dfs, r, TaskNodes(t), Colored(r.fw), Colored(r.bw), Found(r.pivot)),
         NEW k \in TaskNodes(t), k \notin Recolored(r, Colored(r.fw), Colored(r.bw), Found(r.pivot)),
         Visit(r, k)
  PROVE  /\ \E K2, F2, B2, Z2 \in SUBSET Node :
              /\ NextOf(r.color) = K2 /\ NextOf(r.fw) = F2 /\ NextOf(r.bw) = B2 /\ NextFound(r.pivot) = Z2
              /\ TaskNodes(t) = K2 \cup F2 \cup B2 \cup Z2
              /\ Tally(E, Visited(r, k), TaskNodes(t), K2, F2, B2, Z2)
              /\ Backward(Visited(r, k)) = Backward(r)
              /\ Recolored(r, F2, B2, Z2) = Recolored(r, Colored(r.fw), Colored(r.bw), Found(r.pivot)) \cup {k}
         /\ Recolors(t)
         /\ G_Color' \in [Node -> Int] /\ G_SCC' \in [Node -> Node \cup {NIL}]
         /\ \A v \in Node : G_Color'[v] = -2 <=> G_SCC'[v] # NIL
         /\ \A v \in Node : G_SCC'[v] = G_SCC[v] \/ G_SCC'[v] = r.pivot
<1> DEFINE S == TaskNodes(t)
           K == OfColor(r.color)
           F == Colored(r.fw)
           B == Colored(r.bw)
           Z == Found(r.pivot)
<1>1. Tally(E, r, S, K, F, B, Z)
  BY RunningTask
<1>2. /\ r.fw # -1 /\ r.bw # -1 /\ r.fw >= 0 /\ r.bw >= 0
      /\ r.fw # r.color /\ r.bw # r.color /\ r.fw # r.bw /\ r.color # -2 /\ r.fw # -2 /\ r.bw # -2
      /\ r.fw \in Int /\ r.bw \in Int /\ r.color \in Int
  <2>1. r.fw # -1 /\ r.bw # -1
    BY DEF Seeks
  <2>2. r.color \in Owns(t) /\ r.fw \in Owns(t) /\ r.bw \in Owns(t)
    BY <2>1 DEF Owns, Mine
  <2>3. -2 \notin Owns(t)
    BY DEF TasksInv, ColorsUsed, Used
  <2>4. /\ r.fw >= 0 /\ r.fw # r.color /\ r.fw # r.bw /\ r.bw >= 0 /\ r.bw # r.color
    BY <2>1 DEF TasksInv, OwnApart
  <2> QED
    BY <2>1, <2>2, <2>3, <2>4 DEF Task
<1>3. r.color \in Owns(t) /\ r.fw \in Owns(t) /\ r.bw \in Owns(t)
  BY <1>2 DEF Owns, Mine
<1>4. /\ G_Color \in [Node -> Int] /\ G_SCC \in [Node -> Node \cup {NIL}]
      /\ \A v \in Node : G_Color[v] = -2 <=> G_SCC[v] # NIL
  BY DEF TasksInv, TasksTyped, Marks
<1>5. r.pivot \in S /\ r.pivot # NIL /\ S \subseteq Node /\ r.pivot \in Node /\ k \in Node
  <2>1. r.pivot \in S /\ S \subseteq Node
    BY DEF Seeks, TaskNodes
  <2> QED
    BY <2>1, TasksAssumption
<1>6. /\ S = K \cup F \cup B \cup Z /\ Disjoint4(K, F, B, Z)
  BY <1>1 DEF Tally
<1>7. /\ K = {v \in Node : G_Color[v] = r.color} /\ F = {v \in Node : G_Color[v] = r.fw}
      /\ B = {v \in Node : G_Color[v] = r.bw} /\ Z = {v \in Node : G_SCC[v] = r.pivot}
  BY <1>2, <1>5 DEF OfColor, Colored, Found
<1>8. CASE ~Backward(r)
  <2>1. B = {} /\ Z = {} /\ Recolored(r, F, B, Z) = F
    BY <1>1, <1>8 DEF Tally, ForwardTally, Recolored
  <2>2. k \in K
    BY <1>6, <2>1
  <2>3. G_Color' = [G_Color EXCEPT ![k] = r.fw] /\ G_SCC' = G_SCC
    BY <1>8 DEF Visit, VisitFw
  <2>4. G_Color[k] = r.color
    BY <1>7, <2>2
  <2>5. NextOf(r.color) = K \ {k} /\ NextOf(r.fw) = F \cup {k} /\ NextOf(r.bw) = B /\ NextFound(r.pivot) = Z
    BY <1>2, <1>4, <1>5, <1>7, <2>3, <2>4 DEF NextOf, NextFound
  <2>6. Tally(E, Visited(r, k), S, K \ {k}, F \cup {k}, B, Z) /\ Backward(Visited(r, k)) = Backward(r)
    <3> HIDE DEF S, K, F, B, Z
    <3>1. Tally(E, VisitedFw(r, k), S, K \ {k}, F \cup {k}, B, Z) /\ ~Backward(VisitedFw(r, k))
      BY <1>1, <1>8, <2>2, ForwardVisit
    <3> QED
      BY <1>8, <3>1 DEF Visited, Backward
  <2>7. Recolored(r, F \cup {k}, B, Z) = Recolored(r, F, B, Z) \cup {k}
    BY <1>8 DEF Recolored
  <2>8. K \ {k} \in SUBSET Node /\ F \cup {k} \in SUBSET Node /\ B \in SUBSET Node /\ Z \in SUBSET Node
    BY <1>5, <1>7
  <2>9. S = (K \ {k}) \cup (F \cup {k}) \cup B \cup Z
    BY <1>6, <2>2
  <2>10. Recolors(t)
    BY <1>3, <1>4, <2>3, <2>4 DEF Recolors
  <2>11. /\ G_Color' \in [Node -> Int] /\ G_SCC' \in [Node -> Node \cup {NIL}]
         /\ \A v \in Node : G_Color'[v] = -2 <=> G_SCC'[v] # NIL
    BY <1>2, <1>4, <2>3, <2>4
  <2> HIDE DEF S, K, F, B, Z
  <2>12. \E K2, F2, B2, Z2 \in SUBSET Node :
              /\ NextOf(r.color) = K2 /\ NextOf(r.fw) = F2 /\ NextOf(r.bw) = B2 /\ NextFound(r.pivot) = Z2
              /\ S = K2 \cup F2 \cup B2 \cup Z2
              /\ Tally(E, Visited(r, k), S, K2, F2, B2, Z2)
              /\ Backward(Visited(r, k)) = Backward(r)
              /\ Recolored(r, F2, B2, Z2) = Recolored(r, F, B, Z) \cup {k}
    <3> DEFINE P(K2, F2, B2, Z2) ==
              /\ NextOf(r.color) = K2 /\ NextOf(r.fw) = F2 /\ NextOf(r.bw) = B2 /\ NextFound(r.pivot) = Z2
              /\ S = K2 \cup F2 \cup B2 \cup Z2
              /\ Tally(E, Visited(r, k), S, K2, F2, B2, Z2)
              /\ Backward(Visited(r, k)) = Backward(r)
              /\ Recolored(r, F2, B2, Z2) = Recolored(r, F, B, Z) \cup {k}
    <3>1. P(K \ {k}, F \cup {k}, B, Z)
      BY <2>5, <2>6, <2>7, <2>9
    <3> HIDE DEF P
    <3>2. \E K2, F2, B2, Z2 \in SUBSET Node : P(K2, F2, B2, Z2)
      BY <3>1, <2>8
    <3> QED
      BY <3>2 DEF P
  <2> QED
    BY <2>3, <2>10, <2>11, <2>12 DEF S, F, B, Z
<1>9. CASE Backward(r) /\ G_Color[k] = r.fw
  <2>2. k \in F
    BY <1>5, <1>7, <1>9
  <2>3. G_Color' = [G_Color EXCEPT ![k] = -2] /\ G_SCC' = [G_SCC EXCEPT ![k] = r.pivot]
    BY <1>9 DEF Visit, VisitBw
  <2>5. NextOf(r.color) = K /\ NextOf(r.fw) = F \ {k} /\ NextOf(r.bw) = B /\ NextFound(r.pivot) = Z \cup {k}
    BY <1>2, <1>4, <1>5, <1>7, <1>9, <2>3 DEF NextOf, NextFound
  <2>6. Tally(E, Visited(r, k), S, K, F \ {k}, B, Z \cup {k}) /\ Backward(Visited(r, k)) = Backward(r)
    <3> HIDE DEF S, K, F, B, Z
    <3>1. Tally(E, VisitedBw(r, k), S, K, F \ {k}, B, Z \cup {k}) /\ Backward(VisitedBw(r, k))
      BY <1>1, <1>9, <2>2, SharedVisit
    <3> QED
      BY <1>9, <3>1 DEF Visited, Backward
  <2>7. Recolored(r, F \ {k}, B, Z \cup {k}) = Recolored(r, F, B, Z) \cup {k}
    BY <1>9 DEF Recolored
  <2>8. K \in SUBSET Node /\ F \ {k} \in SUBSET Node /\ B \in SUBSET Node /\ Z \cup {k} \in SUBSET Node
    BY <1>5, <1>7
  <2>9. S = K \cup (F \ {k}) \cup B \cup (Z \cup {k})
    BY <1>6, <2>2
  <2>10. Recolors(t)
    BY <1>3, <1>4, <1>5, <1>9, <2>3 DEF Recolors
  <2>11. /\ G_Color' \in [Node -> Int] /\ G_SCC' \in [Node -> Node \cup {NIL}]
         /\ \A v \in Node : G_Color'[v] = -2 <=> G_SCC'[v] # NIL
         /\ \A v \in Node : G_SCC'[v] = G_SCC[v] \/ G_SCC'[v] = r.pivot
    BY <1>4, <1>5, <2>3
  <2> HIDE DEF S, K, F, B, Z
  <2>12. \E K2, F2, B2, Z2 \in SUBSET Node :
              /\ NextOf(r.color) = K2 /\ NextOf(r.fw) = F2 /\ NextOf(r.bw) = B2 /\ NextFound(r.pivot) = Z2
              /\ S = K2 \cup F2 \cup B2 \cup Z2
              /\ Tally(E, Visited(r, k), S, K2, F2, B2, Z2)
              /\ Backward(Visited(r, k)) = Backward(r)
              /\ Recolored(r, F2, B2, Z2) = Recolored(r, F, B, Z) \cup {k}
    <3> DEFINE P(K2, F2, B2, Z2) ==
              /\ NextOf(r.color) = K2 /\ NextOf(r.fw) = F2 /\ NextOf(r.bw) = B2 /\ NextFound(r.pivot) = Z2
              /\ S = K2 \cup F2 \cup B2 \cup Z2
              /\ Tally(E, Visited(r, k), S, K2, F2, B2, Z2)
              /\ Backward(Visited(r, k)) = Backward(r)
              /\ Recolored(r, F2, B2, Z2) = Recolored(r, F, B, Z) \cup {k}
    <3>1. P(K, F \ {k}, B, Z \cup {k})
      BY <2>5, <2>6, <2>7, <2>9
    <3> HIDE DEF P
    <3>2. \E K2, F2, B2, Z2 \in SUBSET Node : P(K2, F2, B2, Z2)
      BY <3>1, <2>8
    <3> QED
      BY <3>2 DEF P
  <2> QED
    BY <2>10, <2>11, <2>12 DEF S, F, B, Z
<1>10. CASE Backward(r) /\ G_Color[k] # r.fw
  <2>1. Recolored(r, F, B, Z) = B \cup Z
    BY <1>10 DEF Recolored
  <2>2. k \in K
    BY <1>6, <1>7, <1>10, <2>1
  <2>3. G_Color' = [G_Color EXCEPT ![k] = r.bw] /\ G_SCC' = G_SCC
    BY <1>10 DEF Visit, VisitBw
  <2>4. G_Color[k] = r.color
    BY <1>7, <2>2
  <2>5. NextOf(r.color) = K \ {k} /\ NextOf(r.fw) = F /\ NextOf(r.bw) = B \cup {k} /\ NextFound(r.pivot) = Z
    BY <1>2, <1>4, <1>5, <1>7, <2>3, <2>4 DEF NextOf, NextFound
  <2>6. Tally(E, Visited(r, k), S, K \ {k}, F, B \cup {k}, Z) /\ Backward(Visited(r, k)) = Backward(r)
    <3> HIDE DEF S, K, F, B, Z
    <3>1. Tally(E, VisitedBw(r, k), S, K \ {k}, F, B \cup {k}, Z) /\ Backward(VisitedBw(r, k))
      BY <1>1, <1>10, <2>2, BackwardVisit
    <3> QED
      BY <1>10, <3>1 DEF Visited, Backward
  <2>7. Recolored(r, F, B \cup {k}, Z) = Recolored(r, F, B, Z) \cup {k}
    BY <1>10 DEF Recolored
  <2>8. K \ {k} \in SUBSET Node /\ F \in SUBSET Node /\ B \cup {k} \in SUBSET Node /\ Z \in SUBSET Node
    BY <1>5, <1>7
  <2>9. S = (K \ {k}) \cup F \cup (B \cup {k}) \cup Z
    BY <1>6, <2>2
  <2>10. Recolors(t)
    BY <1>3, <1>4, <2>3, <2>4 DEF Recolors
  <2>11. /\ G_Color' \in [Node -> Int] /\ G_SCC' \in [Node -> Node \cup {NIL}]
         /\ \A v \in Node : G_Color'[v] = -2 <=> G_SCC'[v] # NIL
    BY <1>2, <1>4, <2>3, <2>4
  <2> HIDE DEF S, K, F, B, Z
  <2>12. \E K2, F2, B2, Z2 \in SUBSET Node :
              /\ NextOf(r.color) = K2 /\ NextOf(r.fw) = F2 /\ NextOf(r.bw) = B2 /\ NextFound(r.pivot) = Z2
              /\ S = K2 \cup F2 \cup B2 \cup Z2
              /\ Tally(E, Visited(r, k), S, K2, F2, B2, Z2)
              /\ Backward(Visited(r, k)) = Backward(r)
              /\ Recolored(r, F2, B2, Z2) = Recolored(r, F, B, Z) \cup {k}
    <3> DEFINE P(K2, F2, B2, Z2) ==
              /\ NextOf(r.color) = K2 /\ NextOf(r.fw) = F2 /\ NextOf(r.bw) = B2 /\ NextFound(r.pivot) = Z2
              /\ S = K2 \cup F2 \cup B2 \cup Z2
              /\ Tally(E, Visited(r, k), S, K2, F2, B2, Z2)
              /\ Backward(Visited(r, k)) = Backward(r)
              /\ Recolored(r, F2, B2, Z2) = Recolored(r, F, B, Z) \cup {k}
    <3>1. P(K \ {k}, F, B \cup {k}, Z)
      BY <2>5, <2>6, <2>7, <2>9
    <3> HIDE DEF P
    <3>2. \E K2, F2, B2, Z2 \in SUBSET Node : P(K2, F2, B2, Z2)
      BY <3>1, <2>8
    <3> QED
      BY <3>2 DEF P
  <2> QED
    BY <2>3, <2>10, <2>11, <2>12 DEF S, F, B, Z
<1> QED
  BY <1>8, <1>9, <1>10

\* the colours and the pivot of a thread stay
SameColors(t) ==
  /\ th'[t].color = th[t].color /\ th'[t].fw = th[t].fw /\ th'[t].bw = th[t].bw
  /\ th'[t].pivot = th[t].pivot
\* a visit of t keeps the marks
Marked(t) ==
  /\ G_Color' \in [Node -> Int] /\ G_SCC' \in [Node -> Node \cup {NIL}]
  /\ \A v \in Node : G_Color'[v] = -2 <=> G_SCC'[v] # NIL
  /\ \A v \in Node : G_SCC'[v] = G_SCC[v] \/ G_SCC'[v] = th[t].pivot

\* A search goes on after a visit.
LEMMA VisitGoesOn ==
  ASSUME TasksInv, NEW t \in Thread, th[t].pc \in {"enter", "edges"}, NEW r \in Task, r = th[t],
         UNCHANGED <<E, dfs>>,
         NEW k \in TaskNodes(t), k \notin Recolored(r, Colored(r.fw), Colored(r.bw), Found(r.pivot)),
         Visit(r, k),
         NEW q \in Task, th'[t] = q, SameTask(Visited(r, k), q),
         q.pc \in {"enter", "edges", "end"},
         SearchOK(E, dfs, Backward(r), q, TaskNodes(t),
                  Recolored(r, Colored(r.fw), Colored(r.bw), Found(r.pivot)) \cup {k})
  PROVE  /\ TaskHolds(t)' /\ Running(t)' /\ TaskNodes(t)' = TaskNodes(t)
         /\ SameColors(t) /\ Recolors(t) /\ Marked(t)
<1> DEFINE S == TaskNodes(t)
           M == Recolored(r, Colored(r.fw), Colored(r.bw), Found(r.pivot))
<1>1. Running(t) /\ Seeks(E, dfs, r, S, Colored(r.fw), Colored(r.bw), Found(r.pivot))
      /\ S \subseteq Node /\ r.pivot \in S
  BY AtEdges
<1>2. /\ \E K2, F2, B2, Z2 \in SUBSET Node :
              /\ NextOf(r.color) = K2 /\ NextOf(r.fw) = F2 /\ NextOf(r.bw) = B2 /\ NextFound(r.pivot) = Z2
              /\ S = K2 \cup F2 \cup B2 \cup Z2
              /\ Tally(E, Visited(r, k), S, K2, F2, B2, Z2)
              /\ Backward(Visited(r, k)) = Backward(r)
              /\ Recolored(r, F2, B2, Z2) = M \cup {k}
      /\ Recolors(t) /\ Marked(t)
  BY <1>1, VisitMoves DEF Marked
<1>3. PICK K, F, B, Z \in SUBSET Node :
              /\ NextOf(r.color) = K /\ NextOf(r.fw) = F /\ NextOf(r.bw) = B /\ NextFound(r.pivot) = Z
              /\ S = K \cup F \cup B \cup Z
              /\ Tally(E, Visited(r, k), S, K, F, B, Z)
              /\ Backward(Visited(r, k)) = Backward(r)
              /\ Recolored(r, F, B, Z) = M \cup {k}
  BY <1>2
<1>4. /\ Visited(r, k).color = r.color /\ Visited(r, k).pivot = r.pivot
      /\ Visited(r, k).fw = r.fw /\ Visited(r, k).bw = r.bw
  BY <1>1, VisitedFields
<1>5. q.color = r.color /\ q.fw = r.fw /\ q.bw = r.bw /\ q.pivot = r.pivot
  BY <1>4 DEF SameTask
<1>6. Tally(E, q, S, K, F, B, Z) /\ Backward(q) = Backward(r)
  <2>1. Tally(E, Visited(r, k), S, K, F, B, Z) /\ SameTask(Visited(r, k), q)
    BY <1>3
  <2> HIDE DEF S
  <2> QED
    BY <1>3, <2>1, SameTally
<1>7. Recolored(q, F, B, Z) = M \cup {k}
  BY <1>3, <1>6 DEF Recolored
<1>8. r.fw # -1 /\ r.bw # -1 /\ r.pivot # NIL
  BY <1>1, TasksAssumption DEF Seeks
<1>9. SearchOK(E, dfs, Backward(q), q, S, M \cup {k})
  BY <1>6
<1> HIDE DEF S, M
<1>10. Seeks(E, dfs, q, S, F, B, Z)
  BY <1>1, <1>5, <1>7, <1>8, <1>9 DEF Seeks
<1>11. E' = E /\ dfs' = dfs
  OBVIOUS
<1>12. Tally(E', q, S, K, F, B, Z) /\ Seeks(E', dfs', q, S, F, B, Z)
  BY <1>6, <1>10, <1>11
<1>13. /\ NextOf(q.color) = K
       /\ NextOf(q.fw) = F /\ NextOf(q.bw) = B
       /\ q.pivot # NIL /\ NextFound(q.pivot) = Z
  BY <1>3, <1>5, <1>8
<1>14. TaskHolds(t)' /\ Running(t)' /\ TaskNodes(t)' = S
  BY <1>3, <1>12, <1>13, SeeksAfter
<1>15. SameColors(t)
  BY <1>5 DEF SameColors
<1> QED
  BY <1>2, <1>14, <1>15 DEF S

\* enter_node: the node is visited, and its neighbours are next.
LEMMA EnterGoesOn ==
  ASSUME TasksInv, NEW t \in Thread, Enter(t)
  PROVE  /\ th'[t] \in Task /\ TaskHolds(t)' /\ Running(t)' /\ TaskNodes(t)' = TaskNodes(t)
         /\ SameColors(t) /\ Recolors(t) /\ Marked(t)
<1>1. PICK r \in Task : r = th[t] /\ r.pc = "enter" /\ Running(t)
  BY AtEdges DEF Enter
<1> DEFINE S == TaskNodes(t)
           M == Recolored(r, Colored(r.fw), Colored(r.bw), Found(r.pivot))
           k == r.s.next
           b == Backward(r)
           s2 == [visited |-> r.s.visited \cup {k}, curr |-> k, next |-> NIL,
                  todo |-> Neighbors(k, b),
                  rest |-> Append(r.s.rest, [node |-> r.s.curr, todo |-> r.s.todo])]
           q == [[Visited(r, k) EXCEPT !.s = s2] EXCEPT !.pc = "edges"]
<1>2. Seeks(E, dfs, r, S, Colored(r.fw), Colored(r.bw), Found(r.pivot)) /\ S \subseteq Node /\ r.pivot \in S
  BY <1>1, AtEdges
<1>3. Visit(r, k) /\ th' = [th EXCEPT ![t] = q] /\ UNCHANGED <<E, dfs>>
  BY <1>1 DEF Enter, Goto
<1>4. SearchOK(E, dfs, b, r, S, M)
  BY <1>2 DEF Seeks
<1>5. dfs /\ Within(E, b, r.s, r.pivot, S) /\ Entering(E, b, r.s, r.pivot, S, M)
  BY <1>1, <1>4 DEF SearchOK
<1>6. b \in BOOLEAN /\ E \subseteq Node \X Node
  BY TasksAssumption DEF TasksInv, TasksTyped, Backward
<1>7. k \in S /\ k \notin M
  <2>1. k \in Reached(E, b, S, r.pivot) /\ k \notin M
    BY <1>5 DEF Entering
  <2> QED
    BY <1>2, <2>1, ReachedGrows
<1>8. r.s \in Searches /\ r.s.curr \in Node \cup {NIL} /\ r.s.todo \in SUBSET Node
  BY <1>1 DEF Task, Searches
<1>9. Neighbors(k, b) = Near(E, b, k)
  BY <1>2, <1>6, <1>7, NeighborsAreNear
<1>10. /\ s2.visited = r.s.visited \cup {k} /\ s2.curr = k /\ s2.todo = Near(E, b, k)
       /\ s2.rest = Append(r.s.rest, [node |-> r.s.curr, todo |-> r.s.todo])
  BY <1>9
<1>11. s2 \in Searches
  <2>1. [node |-> r.s.curr, todo |-> r.s.todo] \in Frame
    BY <1>8 DEF Frame
  <2>2. r.s.rest \in Seq(Frame)
    <3>1. CASE Bottom(r.s, r.pivot)
      BY <3>1 DEF Bottom
    <3>2. CASE Frames(E, b, r.s)
      BY <3>2 DEF Frames
    <3> QED
      BY <1>5, <3>1, <3>2 DEF Entering
  <2>3. s2.rest \in Seq(Frame)
    BY <1>10, <2>1, <2>2
  <2>4. s2.visited \in SUBSET Node /\ s2.curr \in Node /\ s2.todo \in SUBSET Node /\ s2.next = NIL
    BY <1>2, <1>7, <1>8 DEF Searches, Neighbors
  <2> QED
    BY <2>3, <2>4 DEF Searches
<1>12. Within(E, b, s2, r.pivot, S) /\ Descending(E, b, s2, S, M \cup {k})
  <2> HIDE DEF s2, S, M, b
  <2>1. k = r.s.next
    OBVIOUS
  <2> HIDE DEF k
  <2> QED
    BY <1>2, <1>5, <1>8, <1>10, <2>1, EnterDescends
<1>13. /\ Visited(r, k) \in Task /\ Visited(r, k).color = r.color /\ Visited(r, k).pivot = r.pivot
       /\ Visited(r, k).fw = r.fw /\ Visited(r, k).bw = r.bw
  BY <1>2, <1>7, VisitedFields
<1> DEFINE x == Visited(r, k)
<1> HIDE DEF s2, x, S, M, k, b
<1>14. q = [[x EXCEPT !.s = s2] EXCEPT !.pc = "edges"]
  BY DEF x
<1> HIDE DEF q
<1>15. q \in Task /\ SameTask(x, q) /\ q.s = s2 /\ q.pc = "edges" /\ q.pivot = x.pivot
  BY <1>11, <1>13, <1>14 DEF Task, SameTask, x
<1>16. th'[t] = q
  BY <1>3 DEF TasksInv, TasksTyped
<1>17. SearchOK(E, dfs, b, q, S, M \cup {k})
  BY <1>5, <1>12, <1>13, <1>15 DEF SearchOK, x
<1> QED
  BY <1>1, <1>3, <1>7, <1>15, <1>16, <1>17, VisitGoesOn DEF S, M, x, b

\* visit_fw after the neighbours: the current node is visited, and the next of the
\* queue is current.
LEMMA LeaveGoesOn ==
  ASSUME TasksInv, NEW t \in Thread, Leave(t)
  PROVE  /\ th'[t] \in Task /\ TaskHolds(t)' /\ Running(t)' /\ TaskNodes(t)' = TaskNodes(t)
         /\ SameColors(t) /\ Recolors(t) /\ Marked(t)
<1>1. PICK r \in Task : r = th[t] /\ r.pc = "edges" /\ Running(t)
  BY AtEdges DEF Leave
<1> DEFINE S == TaskNodes(t)
           M == Recolored(r, Colored(r.fw), Colored(r.bw), Found(r.pivot))
           k == r.s.curr
           b == Backward(r)
           x == Visited(r, k)
<1>2. Seeks(E, dfs, r, S, Colored(r.fw), Colored(r.bw), Found(r.pivot)) /\ S \subseteq Node /\ r.pivot \in S
  BY <1>1, AtEdges
<1>3. /\ ~dfs /\ r.s.todo = {} /\ Visit(r, k) /\ UNCHANGED <<E, dfs>>
      /\ IF r.s.rest = <<>>
         THEN Goto(t, [x EXCEPT !.s.curr = NIL], "end")
         ELSE Goto(t, [x EXCEPT !.s.curr = r.s.rest[1], !.s.rest = Tail(@),
                                !.s.todo = Neighbors(r.s.rest[1], b)], "edges")
  BY <1>1 DEF Leave
<1>4. SearchOK(E, dfs, b, r, S, M)
  BY <1>2 DEF Seeks
<1>5. Within(E, b, r.s, r.pivot, S) /\ Spreading(E, b, r.s, S, M)
  BY <1>1, <1>3, <1>4 DEF SearchOK
<1>6. b \in BOOLEAN /\ E \subseteq Node \X Node
  BY TasksAssumption DEF TasksInv, TasksTyped, Backward
<1>7. k \in S /\ k \notin M /\ k \in Node
  <2>1. k \in Reached(E, b, S, r.pivot) /\ k \notin M
    BY <1>5 DEF Within, Spreading
  <2> QED
    BY <1>2, <2>1, ReachedGrows
<1>13. /\ x \in Task /\ x.color = r.color /\ x.pivot = r.pivot
       /\ x.fw = r.fw /\ x.bw = r.bw /\ x.s = r.s
  BY <1>2, <1>7, VisitedFields
<1>8. r.s \in Searches /\ r.s.visited \in SUBSET Node /\ r.s.rest \in Seq(Node)
  BY <1>1, <1>5 DEF Task, Searches, Spreading
<1> HIDE DEF x, S, M, k, b
<1>9. CASE r.s.rest = <<>>
  <2> DEFINE s2 == [r.s EXCEPT !.curr = NIL]
             q == [[x EXCEPT !.s = s2] EXCEPT !.pc = "end"]
  <2>1. [x EXCEPT !.s.curr = NIL] = [x EXCEPT !.s = s2]
    BY <1>13 DEF Task
  <2>2. th' = [th EXCEPT ![t] = q]
    BY <1>3, <1>9, <2>1 DEF Goto
  <2>3. s2 \in Searches /\ s2.visited = r.s.visited
    BY <1>8 DEF Searches
  <2> HIDE DEF s2
  <2>4. Within(E, b, s2, r.pivot, S) /\ Ended(E, b, s2, S, M \cup {k})
    <3>1. Ended(E, b, s2, S, M \cup {k})
      BY <1>3, <1>5, <1>9, <2>3, LeaveSpreads DEF k
    <3> QED
      BY <1>5, <2>3, <3>1 DEF Within
  <2>5. q \in Task /\ SameTask(x, q) /\ q.s = s2 /\ q.pc = "end" /\ q.pivot = x.pivot
    BY <1>13, <2>3 DEF Task, SameTask
  <2> HIDE DEF q
  <2>6. th'[t] = q
    BY <2>2 DEF TasksInv, TasksTyped
  <2>7. SearchOK(E, dfs, b, q, S, M \cup {k})
    BY <1>13, <2>4, <2>5 DEF SearchOK
  <2> QED
    BY <1>1, <1>3, <1>7, <2>5, <2>6, <2>7, VisitGoesOn DEF S, M, x, b
<1>10. CASE r.s.rest # <<>>
  <2> DEFINE w == r.s.rest[1]
             s2 == [r.s EXCEPT !.curr = w, !.rest = Tail(r.s.rest), !.todo = Neighbors(w, b)]
             q == [[x EXCEPT !.s = s2] EXCEPT !.pc = "edges"]
  <2>1. w \in Node
    BY <1>8, <1>10
  <2>2. Neighbors(w, b) = Near(E, b, w) /\ Neighbors(w, b) \in SUBSET Node
    BY <1>6, <2>1, NeighborsAreNear DEF Neighbors
  <2>3. th' = [th EXCEPT ![t] = q]
    <3>1. [x EXCEPT !.s.curr = w, !.s.rest = Tail(@), !.s.todo = Neighbors(w, b)] = [x EXCEPT !.s = s2]
      BY <1>8, <1>13 DEF Task, Searches
    <3>2. Goto(t, [x EXCEPT !.s.curr = w, !.s.rest = Tail(@), !.s.todo = Neighbors(w, b)], "edges")
      BY <1>3, <1>10
    <3>3. Goto(t, [x EXCEPT !.s = s2], "edges")
      BY <3>1, <3>2
    <3> QED
      BY <3>3 DEF Goto
  <2>4. /\ s2 \in Searches /\ s2.visited = r.s.visited /\ s2.curr = w /\ s2.rest = Tail(r.s.rest)
        /\ s2.todo = Near(E, b, w)
    <3>1. Tail(r.s.rest) \in Seq(Node)
      BY <1>8, <1>10
    <3> QED
      BY <1>8, <2>1, <2>2, <3>1 DEF Searches
  <2> HIDE DEF s2
  <2>5. Within(E, b, s2, r.pivot, S) /\ Spreading(E, b, s2, S, M \cup {k})
    <3>1. Spreading(E, b, s2, S, M \cup {k})
      BY <1>3, <1>5, <1>10, <2>4, LeaveSpreads DEF k
    <3> QED
      BY <1>5, <2>4, <3>1 DEF Within
  <2>6. q \in Task /\ SameTask(x, q) /\ q.s = s2 /\ q.pc = "edges" /\ q.pivot = x.pivot
    BY <1>13, <2>4 DEF Task, SameTask
  <2> HIDE DEF q
  <2>7. th'[t] = q
    BY <2>3 DEF TasksInv, TasksTyped
  <2>8. SearchOK(E, dfs, b, q, S, M \cup {k})
    BY <1>3, <1>13, <2>5, <2>6 DEF SearchOK
  <2> QED
    BY <1>1, <1>3, <1>7, <2>6, <2>7, <2>8, VisitGoesOn DEF S, M, x, b
<1> QED
  BY <1>9, <1>10

\* A step of t changes its own record only.
Moves(t) == th' = [th EXCEPT ![t] = th'[t]]

\* So does every step of a task.
LEMMA OnlyItsTask ==
  ASSUME TasksInv, NEW t \in Thread, Step(t)
  PROVE  Moves(t)
<1>0. th \in [Thread -> Task]
  BY DEF TasksInv, TasksTyped
<1>1. ASSUME NEW r, NEW pc, Goto(t, r, pc) PROVE Moves(t)
  BY <1>0, <1>1 DEF Goto, Moves
<1>2. CASE Fetch(t)
  BY <1>1, <1>2 DEF Fetch
<1>3. CASE Pivot(t)
  BY <1>0, <1>1, <1>3 DEF Pivot, Moves
<1>4. CASE FwColor(t) \/ Enter(t)
  BY <1>1, <1>4 DEF FwColor, Enter
<1>5. CASE BwColor(t)
  BY <1>0, <1>5 DEF BwColor, Moves
<1>6. CASE Check(t)
  <2>1. PICK u \in th[t].s.todo :
           IF u \in th[t].s.visited \/ ~check_navigator(th[t], u)
           THEN th' = [th EXCEPT ![t].s.todo = @ \ {u}]
           ELSE IF dfs
           THEN Goto(t, [th[t] EXCEPT !.s.todo = @ \ {u}, !.s.next = u], "enter")
           ELSE th' = [th EXCEPT ![t].s.todo = @ \ {u}, ![t].s.visited = @ \cup {u},
                                 ![t].s.rest = Append(@, u)]
    BY <1>6 DEF Check
  <2>2. CASE th' = [th EXCEPT ![t].s.todo = @ \ {u}]
    BY <1>0, <2>2 DEF Moves
  <2>3. CASE th' = [th EXCEPT ![t].s.todo = @ \ {u}, ![t].s.visited = @ \cup {u},
                              ![t].s.rest = Append(@, u)]
    BY <1>0, <2>3 DEF Moves
  <2> QED
    BY <1>1, <2>1, <2>2, <2>3
<1>7. CASE Exit(t) \/ Leave(t)
  BY <1>1, <1>7 DEF Exit, Leave
<1>8. CASE Turn(t) \/ EndTask(t)
  BY <1>0, <1>8 DEF Turn, EndTask, Moves
<1> QED
  BY <1>2, <1>3, <1>4, <1>5, <1>6, <1>7, <1>8 DEF Step

\* What is known of the other threads after a step.
LEMMA OthersAfter ==
  ASSUME TasksInv, NEW t \in Thread, Moves(t), th'[t] \in Task, E' = E, dfs' = dfs, Recolors(t),
         G_Color' \in [Node -> Int], G_SCC' \in [Node -> Node \cup {NIL}], works' \subseteq Item0
  PROVE  /\ TasksTyped'
         /\ \A u \in Thread : u # t => /\ th'[u] = th[u] /\ TaskHolds(u)'
                                       /\ Running(u)' = Running(u) /\ Owns(u)' = Owns(u)
<1>1. th \in [Thread -> Task] /\ E \in Graphs /\ dfs \in BOOLEAN
  BY DEF TasksInv, TasksTyped
<1>2. th' \in [Thread -> Task] /\ \A u \in Thread : u # t => th'[u] = th[u]
  BY <1>1 DEF Moves
<1>3. TasksTyped'
  BY <1>1, <1>2 DEF TasksTyped
<1>4. ASSUME NEW u \in Thread, u # t
      PROVE  TaskHolds(u)' /\ Running(u)' = Running(u) /\ Owns(u)' = Owns(u)
  <2>1. th'[u] = th[u]
    BY <1>2, <1>4
  <2>2. TaskHolds(u)' /\ Running(u)' = Running(u)
    BY <1>4, <2>1, OthersKeep
  <2> QED
    BY <2>1, <2>2 DEF Owns
<1> QED
  BY <1>2, <1>3, <1>4

\* The colours of a task differ.
Differ(r) ==
  /\ r.fw # -1 => r.fw >= 0 /\ r.fw # r.color /\ r.fw # r.bw
  /\ r.bw # -1 => r.bw >= 0 /\ r.bw # r.color
\* nobody has c, and somebody has been given it
Fresh(c) == /\ c \notin ItemColors /\ c # -2 /\ \A u \in Thread : c \notin Owns(u)
            /\ \E u \in Thread : c \in given'[u]

\* A step of a task that goes on.
LEMMA TaskGoesOn ==
  ASSUME TasksInv, NEW t \in Thread, Running(t), Moves(t), th'[t] \in Task, UNCHANGED <<E, dfs, works>>,
         TaskHolds(t)', Running(t)', Recolors(t),
         G_Color' \in [Node -> Int], G_SCC' \in [Node -> Node \cup {NIL}],
         \A v \in Node : G_Color'[v] = -2 <=> G_SCC'[v] # NIL,
         \A v \in Node : G_SCC'[v] = G_SCC[v] \/ G_SCC'[v] = th'[t].pivot,
         th[t].pivot # NIL => th'[t].pivot = th[t].pivot,
         th'[t].pivot # NIL => \A u \in Thread : u # t => th[u].pivot # th'[t].pivot,
         \A u \in Thread : given[u] \subseteq given'[u],
         Mine(th[t]) \subseteq Mine(th'[t]), Differ(th'[t]),
         \A c \in Mine(th'[t]) : c \in Mine(th[t]) \/ Fresh(c)
  PROVE  TasksInv'
<1>0. works' = works /\ works \subseteq Item0 /\ ItemColors' = ItemColors
  BY DEF TasksInv, TasksTyped, ItemColors
<1>1. /\ TasksTyped'
      /\ \A u \in Thread : u # t => /\ th'[u] = th[u] /\ TaskHolds(u)'
                                    /\ Running(u)' = Running(u) /\ Owns(u)' = Owns(u)
  BY <1>0, OthersAfter
<1>2. Owns(t) = Mine(th[t]) /\ Owns(t)' = Mine(th'[t])
  BY DEF Owns, Mine
<1>3. \A u \in Thread : TaskHolds(u)'
  BY <1>1
<1>4. OwnApart'
  BY <1>1 DEF TasksInv, OwnApart, Differ
<1>5. ColorsApart'
  <2>1. \A w, x \in works' : w.color = x.color => w = x
    BY <1>0 DEF TasksInv, ColorsApart
  <2>2. \A u \in Thread : Owns(u)' \cap ItemColors' = {}
    BY <1>0, <1>1, <1>2 DEF TasksInv, ColorsApart, Fresh
  <2>3. \A u \in Thread : u # t => Owns(u)' \cap Owns(t)' = {}
    BY <1>1, <1>2 DEF TasksInv, ColorsApart, Fresh
  <2>4. \A u, v \in Thread : u # v => Owns(u)' \cap Owns(v)' = {}
    BY <1>1, <2>3 DEF TasksInv, ColorsApart
  <2> QED
    BY <2>1, <2>2, <2>4 DEF ColorsApart
<1>6. ColorsUsed'
  <2>1. ASSUME NEW c, Used(c) PROVE Used(c)'
    BY <2>1 DEF Used
  <2>2. ASSUME NEW c, Fresh(c) PROVE Used(c)'
    BY <2>2 DEF Used, Fresh
  <2>3. \A c \in ItemColors' : Used(c)'
    BY <1>0, <2>1 DEF TasksInv, ColorsUsed
  <2>4. \A c \in Owns(t)' : Used(c)'
    BY <1>2, <2>1, <2>2 DEF TasksInv, ColorsUsed
  <2>5. \A u \in Thread : \A c \in Owns(u)' : Used(c)'
    BY <1>1, <2>1, <2>4 DEF TasksInv, ColorsUsed
  <2> QED
    BY <2>3, <2>5 DEF ColorsUsed
<1>7. ColorsOwned'
  <2> SUFFICES ASSUME NEW v \in Node, G_Color'[v] # -2
               PROVE  G_Color'[v] \in ItemColors' \/ \E u \in Thread : G_Color'[v] \in Owns(u)'
    BY DEF ColorsOwned
  <2>1. CASE G_Color'[v] = G_Color[v]
    <3>1. G_Color[v] \in ItemColors \/ \E u \in Thread : G_Color[v] \in Owns(u)
      BY <2>1 DEF TasksInv, ColorsOwned
    <3> QED
      BY <1>0, <1>1, <1>2, <2>1, <3>1
  <2>2. CASE G_Color'[v] # G_Color[v]
    BY <1>2, <2>2 DEF Recolors
  <2> QED
    BY <2>1, <2>2
<1>8. Marks'
  <2>1. -2 \notin Owns(t)
    BY DEF TasksInv, ColorsUsed, Used
  <2>2. \A v \in Node : G_Color[v] = -2 => G_Color'[v] = -2
    BY <2>1 DEF Recolors
  <2>3. ASSUME NEW v \in Node, G_SCC'[v] # NIL
        PROVE  G_Color'[G_SCC'[v]] = -2 \/ \E u \in Thread : Running(u)' /\ th'[u].pivot = G_SCC'[v]
    <3>1. CASE G_SCC'[v] = th'[t].pivot
      BY <3>1
    <3>2. CASE G_SCC'[v] = G_SCC[v]
      <4>1. G_SCC[v] \in Node
        BY <2>3, <3>2
      <4>2. CASE G_Color[G_SCC[v]] = -2
        BY <2>2, <3>2, <4>1, <4>2
      <4>3. ASSUME NEW u \in Thread, Running(u), th[u].pivot = G_SCC[v]
            PROVE  \E x \in Thread : Running(x)' /\ th'[x].pivot = G_SCC'[v]
        <5>1. th'[u].pivot = th[u].pivot /\ Running(u)'
          BY <1>1, <2>3, <3>2, <4>3
        <5> QED
          BY <3>2, <4>3, <5>1
      <4>4. G_Color[G_SCC[v]] = -2 \/ \E u \in Thread : Running(u) /\ th[u].pivot = G_SCC[v]
        BY <2>3, <3>2 DEF TasksInv, Marks
      <4> QED
        BY <4>2, <4>3, <4>4
    <3> QED
      BY <3>1, <3>2
  <2> QED
    BY <2>3 DEF Marks
<1>9. PivotsApart'
  BY <1>1 DEF TasksInv, PivotsApart
<1>10. ItemsOK'
  <2>1. ASSUME NEW w \in works PROVE OfColor(w.color)' = OfColor(w.color)
    BY ItemsKeep DEF OfColor, NextOf
  <2> QED
    BY <1>0, <2>1 DEF TasksInv, ItemsOK
<1> QED
  BY <1>1, <1>3, <1>4, <1>5, <1>6, <1>7, <1>8, <1>9, <1>10 DEF TasksInv

\* The colours of a thread differ, and its pivot is no other's.
LEMMA OwnColors ==
  ASSUME TasksInv, NEW t \in Thread
  PROVE  /\ Differ(th[t])
         /\ th[t].pivot # NIL => \A u \in Thread : u # t => th[u].pivot # th[t].pivot
         /\ G_Color \in [Node -> Int] /\ G_SCC \in [Node -> Node \cup {NIL}]
         /\ \A v \in Node : G_Color[v] = -2 <=> G_SCC[v] # NIL
BY DEF TasksInv, OwnApart, Differ, PivotsApart, TasksTyped, Marks

\* A step that keeps the colours of the task and marks at most nodes of it.
LEMMA SameColorsKeep ==
  ASSUME TasksInv, NEW t \in Thread, Running(t), Moves(t), th'[t] \in Task, UNCHANGED <<E, dfs, works, given>>,
         TaskHolds(t)', Running(t)', Recolors(t), Marked(t), SameColors(t)
  PROVE  TasksInv'
<1>1. Mine(th'[t]) = Mine(th[t]) /\ Differ(th'[t])
  BY OwnColors DEF SameColors, Mine, Differ
<1>2. /\ G_Color' \in [Node -> Int] /\ G_SCC' \in [Node -> Node \cup {NIL}]
      /\ \A v \in Node : G_Color'[v] = -2 <=> G_SCC'[v] # NIL
      /\ \A v \in Node : G_SCC'[v] = G_SCC[v] \/ G_SCC'[v] = th'[t].pivot
  BY DEF Marked, SameColors
<1>3. /\ th'[t].pivot = th[t].pivot
      /\ th[t].pivot # NIL => \A u \in Thread : u # t => th[u].pivot # th[t].pivot
  BY OwnColors DEF SameColors
<1> QED
  BY <1>1, <1>2, <1>3, TaskGoesOn

\* The steps that only search.
LEMMA QuietStep ==
  ASSUME TasksInv, NEW t \in Thread, Check(t) \/ Exit(t) \/ Turn(t)
  PROVE  TasksInv' /\ Running(t) /\ Running(t)' /\ TaskNodes(t)' = TaskNodes(t)
         /\ UNCHANGED <<E, G_Color, G_SCC, works>>
<1>1. UNCHANGED <<E, dfs, works, given, G_Color, G_SCC>>
  BY DEF Check, Exit, Turn, colorVars
<1>2. th'[t] \in Task /\ SameColors(t) /\ TaskHolds(t)' /\ Running(t)'
  <2>1. CASE Check(t) \/ Exit(t)
    BY <2>1, CheckGoesOn, ExitGoesOn DEF SameTask, SameColors
  <2>2. CASE Turn(t)
    BY <2>2, TurnSeeks DEF SameColors
  <2> QED
    BY <2>1, <2>2
<1>3. Running(t)
  BY DEF Check, Exit, Turn, Running
<1>4. Recolors(t) /\ Marked(t)
  BY <1>1, OwnColors DEF Recolors, Marked
<1>5. Moves(t)
  BY OnlyItsTask DEF Step
<1>6. TaskNodes(t)' = TaskNodes(t)
  BY <1>1, <1>2 DEF TaskNodes, SameColors
<1> QED
  BY <1>1, <1>2, <1>3, <1>4, <1>5, <1>6, SameColorsKeep

\* The steps that visit.
LEMMA VisitStep ==
  ASSUME TasksInv, NEW t \in Thread, Enter(t) \/ Leave(t)
  PROVE  TasksInv' /\ Running(t) /\ Running(t)' /\ TaskNodes(t)' = TaskNodes(t) /\ Recolors(t)
         /\ UNCHANGED <<E, dfs, works>>
<1>1. UNCHANGED <<E, dfs, works, given>>
  BY DEF Enter, Leave, colorVars
<1>2. /\ th'[t] \in Task /\ TaskHolds(t)' /\ Running(t)' /\ TaskNodes(t)' = TaskNodes(t)
      /\ SameColors(t) /\ Recolors(t) /\ Marked(t)
  BY EnterGoesOn, LeaveGoesOn
<1>3. Running(t)
  BY DEF Enter, Leave, Running
<1>5. Moves(t)
  BY OnlyItsTask DEF Step
<1> QED
  BY <1>1, <1>2, <1>3, <1>5, SameColorsKeep

\* A task takes its pivot.
LEMMA PivotStep ==
  ASSUME TasksInv, NEW t \in Thread, Pivot(t), th[t].count # 1
  PROVE  TasksInv' /\ Running(t) /\ Running(t)' /\ TaskNodes(t)' = TaskNodes(t)
         /\ UNCHANGED <<E, G_Color, G_SCC, works>>
<1>1. UNCHANGED <<E, dfs, works, given, G_Color, G_SCC>> /\ th[t].pc = "pivot" /\ Running(t)
  BY DEF Pivot, colorVars, Running
<1>2. PICK p \in IF th[t].set = NULL THEN OfColor(th[t].color) ELSE th[t].set :
        Goto(t, [th[t] EXCEPT !.pivot = p], "fw_color")
  BY DEF Pivot
<1>3. p \in OfColor(th[t].color)
  BY <1>1, PivotOfTask
<1>4. /\ th'[t] \in Task /\ TaskHolds(t)' /\ Running(t)'
      /\ th'[t].color = th[t].color /\ th'[t].fw = th[t].fw /\ th'[t].bw = th[t].bw /\ th'[t].pivot = p
  BY <1>1, <1>2, <1>3, PivotBegins
<1>5. /\ \A u \in Thread : u # t => th[u].pivot # p
      /\ \A v \in Node : G_SCC[v] # p
  BY <1>1, <1>3, PivotNew
<1>6. Recolors(t)
  BY <1>1 DEF Recolors
<1>7. Moves(t)
  BY OnlyItsTask DEF Step
<1>8. Mine(th'[t]) = Mine(th[t]) /\ Differ(th'[t])
  BY <1>4, OwnColors DEF Mine, Differ
<1>9. th[t].pivot = NIL
  BY <1>1, AtBeginning
<1>10. TasksInv'
  BY <1>1, <1>4, <1>5, <1>6, <1>7, <1>8, <1>9, OwnColors, TaskGoesOn
<1>11. TaskNodes(t)' = TaskNodes(t)
  BY <1>1, <1>4, <1>5, <1>9 DEF TaskNodes
<1> QED
  BY <1>1, <1>4, <1>10, <1>11

\* A task takes a colour.
LEMMA ColorTaken ==
  ASSUME TasksInv, ColorInv, NEW t \in Thread, FwColor(t) \/ BwColor(t)
  PROVE  TasksInv' /\ Running(t) /\ Running(t)' /\ TaskNodes(t)' = TaskNodes(t)
         /\ UNCHANGED <<E, G_Color, G_SCC, works>>
<1> DEFINE n == NewColor(t)
<1>1. UNCHANGED <<E, dfs, works, G_Color, G_SCC>> /\ get_new_color(t)
  BY DEF FwColor, BwColor
<1>2. Running(t)
  BY DEF FwColor, BwColor, Running
<1>3. /\ n \in Int /\ n >= 0 /\ \A v \in Node : G_Color[v] # n
      /\ n \notin ItemColors
      /\ \A u \in Thread : n \notin Owns(u)
  BY NewColorFree
<1>4. \A u \in Thread : given[u] \subseteq given'[u]
  BY <1>1 DEF get_new_color, ColorInv, ColorTypeOK
<1>5. n \in given'[t]
  BY <1>1 DEF get_new_color, ColorInv, ColorTypeOK
<1>6. Fresh(n)
  BY <1>3, <1>5 DEF Fresh
<1> HIDE DEF n
<1>7. /\ th'[t] \in Task /\ TaskHolds(t)' /\ Running(t)' /\ th'[t].pivot = th[t].pivot
      /\ th[t].bw = -1 /\ th'[t].color = th[t].color
      /\ \/ th'[t].fw = n /\ th'[t].bw = -1 /\ th[t].fw = -1
         \/ th'[t].fw = th[t].fw /\ th'[t].bw = n /\ th[t].fw # -1
  <2>1. CASE FwColor(t)
    <3>1. th[t].fw = -1
      BY <2>1, AtBeginning DEF FwColor
    <3> QED
      BY <2>1, <3>1, FwColorBegins DEF n
  <2>2. CASE BwColor(t)
    BY <2>2, BwColorSeeks DEF n
  <2> QED
    BY <2>1, <2>2
<1>8. Recolors(t)
  BY <1>1 DEF Recolors
<1>9. Moves(t)
  BY OnlyItsTask DEF Step
<1>10. n \notin Mine(th[t]) /\ n # -1
  BY <1>2, <1>3 DEF Owns, Mine
<1>11. Mine(th'[t]) = Mine(th[t]) \cup {n}
  BY <1>7, <1>10 DEF Mine
<1>12. n # th[t].color /\ (th[t].fw # -1 => n # th[t].fw)
  BY <1>10 DEF Mine
<1>13. Differ(th'[t])
  BY <1>3, <1>7, <1>12, OwnColors DEF Differ
<1>14. TasksInv'
  BY <1>1, <1>2, <1>4, <1>6, <1>7, <1>8, <1>9, <1>11, <1>13, OwnColors, TaskGoesOn
<1>15. TaskNodes(t)' = TaskNodes(t)
  <2>1. G_Color' = G_Color /\ G_SCC' = G_SCC
    BY <1>1
  <2>2. \A v \in Node : G_Color[v] # n
    BY <1>3
  <2> QED
    BY <1>7, <1>10, <2>1, <2>2 DEF TaskNodes
<1> QED
  BY <1>1, <1>2, <1>7, <1>14, <1>15

\* A thread without a task is idle.
LEMMA IdleOwns ==
  ASSUME TasksInv, NEW t \in Thread, ~Running(t)
  PROVE  th[t] = Idle /\ Owns(t) = {}
BY DEF TasksInv, TaskHolds, Owns

\* A thread takes an item of the queue: the nodes of its colour are the task's.
LEMMA FetchStep ==
  ASSUME TasksInv, NEW t \in Thread, Fetch(t)
  PROVE  /\ TasksInv' /\ ~Running(t) /\ Running(t)' /\ UNCHANGED <<E, G_Color, G_SCC>>
         /\ \E w \in works : works' = works \ {w} /\ TaskNodes(t)' = OfColor(w.color)
<1>1. UNCHANGED <<E, dfs, given, G_Color, G_SCC>> /\ ~Running(t)
  BY DEF Fetch, colorVars, Running
<1>2. PICK w \in works :
        /\ works' = works \ {w}
        /\ Goto(t, [Idle EXCEPT !.color = w.color, !.count = w.count,
                      !.set = IF w.set = NULL /\ Small(w.count) THEN OfColor(w.color) ELSE w.set],
                "pivot")
  BY DEF Fetch
<1>3. /\ th'[t] \in Task /\ TaskHolds(t)' /\ Running(t)'
      /\ th'[t].color = w.color /\ th'[t].fw = -1 /\ th'[t].bw = -1 /\ th'[t].pivot = NIL
  BY <1>1, <1>2, FetchBegins
<1>4. Owns(t) = {}
  BY <1>1 DEF Owns
<1>5. Recolors(t) /\ Moves(t)
  BY <1>1, OnlyItsTask DEF Recolors, Step
<1>6. works' \subseteq Item0 /\ works' \subseteq works
  BY <1>2 DEF TasksInv, TasksTyped
<1>7. /\ TasksTyped'
      /\ \A u \in Thread : u # t => /\ th'[u] = th[u] /\ TaskHolds(u)'
                                    /\ Running(u)' = Running(u) /\ Owns(u)' = Owns(u)
  BY <1>1, <1>3, <1>5, <1>6, OwnColors, OthersAfter
<1>8. Owns(t)' = {w.color}
  BY <1>3 DEF Owns, Mine
<1>9. ItemColors = ItemColors' \cup {w.color} /\ w.color \notin ItemColors'
  <2>1. \A x \in works : x.color = w.color => x = w
    BY DEF TasksInv, ColorsApart
  <2> QED
    BY <1>2, <2>1 DEF ItemColors
<1>10. OwnApart'
  BY <1>3, <1>7 DEF TasksInv, OwnApart
<1>11. ColorsApart'
  BY <1>6, <1>7, <1>8, <1>9 DEF TasksInv, ColorsApart
<1>12. ColorsUsed'
  <2>1. ASSUME NEW c, Used(c) PROVE Used(c)'
    BY <1>1, <2>1 DEF Used
  <2> QED
    BY <1>7, <1>8, <1>9, <2>1 DEF TasksInv, ColorsUsed
<1>13. ColorsOwned'
  <2> SUFFICES ASSUME NEW v \in Node, G_Color'[v] # -2
               PROVE  G_Color'[v] \in ItemColors' \/ \E u \in Thread : G_Color'[v] \in Owns(u)'
    BY DEF ColorsOwned
  <2>1. G_Color[v] \in ItemColors \/ \E u \in Thread : G_Color[v] \in Owns(u)
    BY <1>1 DEF TasksInv, ColorsOwned
  <2>2. \A u \in Thread : Owns(u) \subseteq Owns(u)'
    BY <1>4, <1>7
  <2> QED
    BY <1>1, <1>8, <1>9, <2>1, <2>2
<1>14. Marks'
  BY <1>1, <1>7 DEF TasksInv, Marks
<1>15. PivotsApart'
  BY <1>3, <1>7 DEF TasksInv, PivotsApart
<1>16. ItemsOK'
  BY <1>1, <1>6 DEF TasksInv, ItemsOK, OfColor
<1>17. \A u \in Thread : TaskHolds(u)'
  BY <1>3, <1>7
<1>18. TasksInv'
  BY <1>7, <1>10, <1>11, <1>12, <1>13, <1>14, <1>15, <1>16, <1>17 DEF TasksInv
<1>19. TaskNodes(t)' = OfColor(w.color)
  BY <1>1, <1>3 DEF TaskNodes, OfColor
<1> QED
  BY <1>1, <1>2, <1>3, <1>18, <1>19

\* A task of one node ends at once.
LEMMA FinishStep ==
  ASSUME TasksInv, NEW t \in Thread, Pivot(t), th[t].count = 1
  PROVE  /\ TasksInv' /\ Running(t) /\ ~Running(t)' /\ Recolors(t) /\ UNCHANGED <<E, dfs, works>>
         /\ \E p \in Node : /\ TaskNodes(t) = {p} /\ G_SCC' = [G_SCC EXCEPT ![p] = p]
                            /\ G_Color' = [G_Color EXCEPT ![p] = -2]
<1>1. UNCHANGED <<E, dfs, works, given>> /\ th[t].pc = "pivot" /\ Running(t)
  BY DEF Pivot, colorVars, Running
<1>2. PICK p \in IF th[t].set = NULL THEN OfColor(th[t].color) ELSE th[t].set :
        /\ G_Color' = [G_Color EXCEPT ![p] = -2]
        /\ G_SCC' = [G_SCC EXCEPT ![p] = p]
        /\ th' = [th EXCEPT ![t] = Idle]
  BY DEF Pivot
<1>3. p \in OfColor(th[t].color)
  BY <1>1, PivotOfTask
<1>4. p \in Node /\ p # NIL /\ G_Color[p] = th[t].color
  BY <1>1, <1>3, PivotNew
<1>5. TaskNodes(t) = {p} /\ OfColor(th[t].color) = {p}
  <2> DEFINE K == OfColor(th[t].color)
  <2>1. TaskNodes(t) = K /\ K \subseteq Node /\ Cardinality(K) = 1
    BY <1>1, AtBeginning
  <2>2. Cardinality(K \ {p}) = 0 /\ K \ {p} \subseteq Node
    BY <1>3, <2>1, FiniteParts
  <2>3. K \ {p} = {}
    BY <2>2, FiniteParts
  <2> QED
    BY <1>3, <2>1, <2>3
<1>6. th'[t] = Idle /\ th'[t] \in Task /\ ~Running(t)'
  <2>1. th'[t] = Idle
    BY <1>2 DEF TasksInv, TasksTyped
  <2>2. Idle.pc = "fetch"
    BY DEF Idle
  <2> QED
    BY <2>1, <2>2, IdleTyped DEF Running
<1>7. Owns(t) = {th[t].color}
  BY <1>1, AtBeginning DEF Owns, Mine
<1>8. Recolors(t)
  BY <1>2, <1>4, <1>5, <1>7, OwnColors DEF Recolors
<1>9. Moves(t)
  BY OnlyItsTask DEF Step
<1>10. /\ G_Color' \in [Node -> Int] /\ G_SCC' \in [Node -> Node \cup {NIL}]
       /\ \A v \in Node : G_Color'[v] = -2 <=> G_SCC'[v] # NIL
  BY <1>2, <1>4, OwnColors
<1>11. works' \subseteq Item0
  BY <1>1 DEF TasksInv, TasksTyped
<1>12. /\ TasksTyped'
       /\ \A u \in Thread : u # t => /\ th'[u] = th[u] /\ TaskHolds(u)'
                                     /\ Running(u)' = Running(u) /\ Owns(u)' = Owns(u)
  BY <1>1, <1>6, <1>8, <1>9, <1>10, <1>11, OthersAfter
<1>13. Owns(t)' = {} /\ ItemColors' = ItemColors
  BY <1>1, <1>6 DEF Owns, ItemColors
<1>14. OwnApart'
  BY <1>6, <1>12 DEF TasksInv, OwnApart, Idle
<1>15. ColorsApart'
  BY <1>1, <1>12, <1>13 DEF TasksInv, ColorsApart
<1>16. ColorsUsed'
  <2>1. ASSUME NEW c, Used(c) PROVE Used(c)'
    BY <1>1, <2>1 DEF Used
  <2> QED
    BY <1>12, <1>13, <2>1 DEF TasksInv, ColorsUsed
<1>17. ColorsOwned'
  <2> SUFFICES ASSUME NEW v \in Node, G_Color'[v] # -2
               PROVE  G_Color'[v] \in ItemColors' \/ \E u \in Thread : G_Color'[v] \in Owns(u)'
    BY DEF ColorsOwned
  <2>1. v # p /\ G_Color'[v] = G_Color[v]
    BY <1>2, OwnColors
  <2>2. G_Color[v] # th[t].color
    BY <1>5, <2>1 DEF OfColor
  <2>3. G_Color[v] \in ItemColors \/ \E u \in Thread : G_Color[v] \in Owns(u)
    BY <2>1 DEF TasksInv, ColorsOwned
  <2> QED
    BY <1>7, <1>12, <1>13, <2>1, <2>2, <2>3
<1>18. Marks'
  <2>1. \A v \in Node : G_Color[v] = -2 => G_Color'[v] = -2
    BY <1>2, OwnColors
  <2>2. th[t].pivot = NIL
    BY <1>1, AtBeginning
  <2>3. ASSUME NEW v \in Node, G_SCC'[v] # NIL
        PROVE  G_Color'[G_SCC'[v]] = -2 \/ \E u \in Thread : Running(u)' /\ th'[u].pivot = G_SCC'[v]
    <3>1. CASE v = p
      BY <1>2, <1>4, <3>1, OwnColors
    <3>2. CASE v # p
      <4>1. G_SCC'[v] = G_SCC[v] /\ G_SCC[v] \in Node
        BY <1>2, <2>3, <3>2, OwnColors
      <4>2. G_Color[G_SCC[v]] = -2 \/ \E u \in Thread : Running(u) /\ th[u].pivot = G_SCC[v]
        BY <2>3, <4>1 DEF TasksInv, Marks
      <4> QED
        BY <1>12, <2>1, <2>2, <2>3, <4>1, <4>2
    <3> QED
      BY <3>1, <3>2
  <2> QED
    BY <1>10, <2>3 DEF Marks
<1>19. PivotsApart'
  BY <1>6, <1>12 DEF TasksInv, PivotsApart, Idle
<1>20. ItemsOK'
  <2>1. ASSUME NEW w \in works PROVE OfColor(w.color)' = OfColor(w.color)
    BY <1>8, ItemsKeep DEF OfColor, NextOf
  <2> QED
    BY <1>1, <2>1 DEF TasksInv, ItemsOK
<1>21. \A u \in Thread : TaskHolds(u)'
  BY <1>6, <1>12 DEF TaskHolds
<1>22. TasksInv'
  BY <1>12, <1>14, <1>15, <1>16, <1>17, <1>18, <1>19, <1>20, <1>21 DEF TasksInv
<1> QED
  BY <1>1, <1>2, <1>4, <1>5, <1>6, <1>8, <1>22

\* The sizes of the four parts of a task.
LEMMA PartSizes ==
  ASSUME NEW K, NEW F, NEW B, NEW Z, K \cup F \cup B \cup Z \subseteq Node, Disjoint4(K, F, B, Z)
  PROVE  /\ Cardinality(F \cup Z) = Cardinality(F) + Cardinality(Z)
         /\ Cardinality(K \cup F \cup B \cup Z)
              = Cardinality(K) + Cardinality(F) + Cardinality(B) + Cardinality(Z)
         /\ Cardinality(K) \in Nat /\ Cardinality(F) \in Nat
         /\ Cardinality(B) \in Nat /\ Cardinality(Z) \in Nat
<1>1. ASSUME NEW X, X \subseteq Node PROVE IsFiniteSet(X) /\ Cardinality(X) \in Nat
  BY <1>1, FiniteParts
<1>2. ASSUME NEW X, NEW Y, X \subseteq Node, Y \subseteq Node, X \cap Y = {}
      PROVE  Cardinality(X \cup Y) = Cardinality(X) + Cardinality(Y)
  <2>1. Cardinality(X \cup Y) = Cardinality(X) + Cardinality(Y) - Cardinality(X \cap Y)
    BY <1>1, <1>2, FS_Union
  <2>2. Cardinality(X \cap Y) = 0
    BY <1>2, FS_EmptySet
  <2> QED
    BY <1>1, <1>2, <2>1, <2>2
<1>3. Cardinality(F \cup Z) = Cardinality(F) + Cardinality(Z)
  BY <1>2 DEF Disjoint4
<1>4. Cardinality(K \cup F) = Cardinality(K) + Cardinality(F)
  BY <1>2 DEF Disjoint4
<1>5. Cardinality((K \cup F) \cup B) = Cardinality(K \cup F) + Cardinality(B)
  <2>1. (K \cup F) \cap B = {}
    BY DEF Disjoint4
  <2> QED
    BY <1>2, <2>1
<1>6. Cardinality((K \cup F \cup B) \cup Z) = Cardinality(K \cup F \cup B) + Cardinality(Z)
  <2>1. (K \cup F \cup B) \cap Z = {}
    BY DEF Disjoint4
  <2> QED
    BY <1>2, <2>1
<1>7. Cardinality(K) \in Nat /\ Cardinality(F) \in Nat /\ Cardinality(B) \in Nat /\ Cardinality(Z) \in Nat
  BY <1>1
<1> QED
  BY <1>3, <1>4, <1>5, <1>6, <1>7

\* What a task has found at its end: the classes split by FW-BW.
LEMMA TaskEnds ==
  ASSUME TasksInv, NEW t \in Thread, th[t].pc = "end", Backward(th[t])
  PROVE  LET r == th[t]
             S == TaskNodes(t)
             K == OfColor(r.color)
             F == OfColor(r.fw)
             B == OfColor(r.bw)
             Z == Found(r.pivot)
         IN  /\ Running(t) /\ r \in Task /\ S \subseteq Node /\ r.pivot \in Z /\ r.pivot # NIL
             /\ r.fw # -1 /\ r.bw # -1
             /\ S = K \cup F \cup B \cup Z /\ Disjoint4(K, F, B, Z)
             /\ F \cup Z = Reached(E, FALSE, S, r.pivot)
             /\ B \cup Z = Reached(E, TRUE, S, r.pivot)
             /\ r.set \in {NULL, K} /\ r.fw_set \in {NULL, F} /\ r.bw_set \in {NULL, B}
             /\ r.fw_count - r.scc_count = Cardinality(F) /\ r.bw_count = Cardinality(B)
             /\ r.count - r.fw_count - r.bw_count = Cardinality(K)
<1> DEFINE S == TaskNodes(t)
           K == OfColor(th[t].color)
           F == OfColor(th[t].fw)
           B == OfColor(th[t].bw)
           Z == Found(th[t].pivot)
<1>1. PICK r \in Task : r = th[t] /\ r.pc = "end" /\ Backward(r) /\ Running(t)
  BY AtEdges
<1>2. /\ Seeks(E, dfs, r, S, Colored(r.fw), Colored(r.bw), Z)
      /\ S \subseteq Node /\ r.pivot \in S /\ r.fw # -1 /\ r.bw # -1
  BY <1>1, AtEdges DEF Seeks
<1>3. Colored(r.fw) = F /\ Colored(r.bw) = B /\ r.pivot # NIL
  BY <1>1, <1>2, TasksAssumption DEF Colored
<1>4. Tally(E, r, S, K, F, B, Z)
  BY <1>1, <1>3, RunningTask
<1>5. SearchOK(E, dfs, TRUE, r, S, B \cup Z)
  BY <1>1, <1>2, <1>3 DEF Seeks, Recolored, Backward
<1> HIDE DEF S, K, F, B, Z
<1>6. B \cup Z = Reached(E, TRUE, S, r.pivot)
  <2> DEFINE M == B \cup Z
  <2>1. Within(E, TRUE, r.s, r.pivot, S) /\ Ended(E, TRUE, r.s, S, M)
    BY <1>1, <1>5 DEF SearchOK
  <2>2. S \in SUBSET Node /\ r.pivot \in S
    BY <1>2
  <2> HIDE DEF M
  <2>3. M = Reached(E, TRUE, S, r.pivot)
    BY <2>1, <2>2, EndedReached
  <2> QED
    BY <2>3 DEF M
<1>7. /\ S = K \cup F \cup B \cup Z /\ Disjoint4(K, F, B, Z)
      /\ r.count = Cardinality(S) /\ r.set \in {NULL, K}
      /\ F \cup Z = Reached(E, FALSE, S, r.pivot)
      /\ r.fw_count = Cardinality(F \cup Z) /\ r.fw_set \in {NULL, F}
      /\ r.bw_count = Cardinality(B) /\ r.bw_set \in {NULL, B}
      /\ r.scc_count = Cardinality(Z)
  BY <1>1, <1>4 DEF Tally, BackwardTally
<1>8. r.pivot \in Z
  <2>0. S \in SUBSET Node /\ r.pivot \in S
    BY <1>2
  <2>1. r.pivot \in F \cup Z /\ r.pivot \in B \cup Z
    <3>1. r.pivot \in Reached(E, FALSE, S, r.pivot) /\ r.pivot \in Reached(E, TRUE, S, r.pivot)
      BY <2>0, ReachedGrows
    <3> QED
      BY <1>6, <1>7, <3>1
  <2> QED
    BY <1>7, <2>1 DEF Disjoint4
<1>9. /\ r.fw_count - r.scc_count = Cardinality(F)
      /\ r.count - r.fw_count - r.bw_count = Cardinality(K)
  <2>1. K \cup F \cup B \cup Z \subseteq Node /\ Disjoint4(K, F, B, Z)
    BY <1>2, <1>7
  <2>2. /\ Cardinality(F \cup Z) = Cardinality(F) + Cardinality(Z)
        /\ Cardinality(K \cup F \cup B \cup Z)
             = Cardinality(K) + Cardinality(F) + Cardinality(B) + Cardinality(Z)
        /\ Cardinality(K) \in Nat /\ Cardinality(F) \in Nat
        /\ Cardinality(B) \in Nat /\ Cardinality(Z) \in Nat
    BY <2>1, PartSizes
  <2>3. r.count = Cardinality(K \cup F \cup B \cup Z)
    BY <1>7
  <2> QED
    BY <1>7, <2>2, <2>3
<1> QED
  BY <1>1, <1>2, <1>3, <1>6, <1>7, <1>8, <1>9 DEF S, K, F, B, Z

\* The items that a task leaves: one for each part that is not empty, and exact.
LEMMA ItemsLeft ==
  ASSUME TasksInv, NEW t \in Thread, th[t].pc = "end", Backward(th[t])
  PROVE  LET r == th[t]
             new == NewItems(r)
         IN  /\ new \subseteq Item0
             /\ \A w \in new : /\ w.color \in {r.color, r.fw, r.bw}
                               /\ OfColor(w.color) # {} /\ w.count = Cardinality(OfColor(w.color))
                               /\ w.set \in {NULL, OfColor(w.color)}
             /\ \A w, x \in new : w.color = x.color => w = x
             /\ \A c \in {r.color, r.fw, r.bw} : OfColor(c) # {} => \E w \in new : w.color = c
<1>1. PICK r \in Task : r = th[t]
  BY TaskEnds
<1> DEFINE K == OfColor(r.color)
           F == OfColor(r.fw)
           B == OfColor(r.bw)
<1>2. /\ K \subseteq Node /\ F \subseteq Node /\ B \subseteq Node
      /\ r.set \in {NULL, K} /\ r.fw_set \in {NULL, F} /\ r.bw_set \in {NULL, B}
      /\ r.fw_count - r.scc_count = Cardinality(F) /\ r.bw_count = Cardinality(B)
      /\ r.count - r.fw_count - r.bw_count = Cardinality(K)
  BY <1>1, TaskEnds DEF OfColor
<1>3. r.color \in Int /\ r.fw \in Int /\ r.bw \in Int /\ r.color # r.fw /\ r.color # r.bw /\ r.fw # r.bw
  <2>1. r.fw # -1 /\ r.bw # -1
    BY <1>1, TaskEnds
  <2> QED
    BY <1>1, <2>1, OwnColors DEF Differ, Task
\* an item of a colour, its nodes and its set
<1>4. ASSUME NEW c \in Int, NEW X \in SUBSET Node, NEW n, NEW s, n = Cardinality(X), s \in {NULL, X}
      PROVE  /\ Item(c, n, s) \subseteq Item0
             /\ \A w \in Item(c, n, s) : /\ w.color = c /\ w.count = n /\ X # {}
                                         /\ w.set \in {NULL, X} /\ w.set = NonEmpty(s)
             /\ X # {} => \E w \in Item(c, n, s) : w.color = c
             /\ \A w, x \in Item(c, n, s) : w = x
  <2>1. n \in Nat /\ (n = 0 <=> X = {})
    BY <1>4, FiniteParts
  <2>2. CASE X = {}
    <3>1. Item(c, n, s) = {}
      BY <2>1, <2>2 DEF Item
    <3> QED
      BY <2>2, <3>1
  <2>3. CASE X # {}
    <3> DEFINE i == [color |-> c, count |-> n, set |-> NonEmpty(s)]
    <3>1. Item(c, n, s) = {i}
      BY <2>1, <2>3 DEF Item
    <3>2. NonEmpty(s) \in {NULL, X}
      BY <1>4 DEF NonEmpty
    <3>3. i \in Item0
      BY <2>1, <3>2 DEF Item0, Sets
    <3> QED
      BY <2>3, <3>1, <3>2, <3>3
  <2> QED
    BY <2>2, <2>3
<1> DEFINE IF0 == Item(r.fw, r.fw_count - r.scc_count, r.fw_set)
           IB0 == Item(r.bw, r.bw_count, r.bw_set)
           IK0 == Item(r.color, r.count - r.fw_count - r.bw_count, r.set)
<1>5. NewItems(r) = IF0 \cup IB0 \cup IK0
  BY DEF NewItems
<1>6. /\ IF0 \subseteq Item0
      /\ \A w \in IF0 : w.color = r.fw /\ w.count = Cardinality(F) /\ F # {} /\ w.set \in {NULL, F}
      /\ F # {} => \E w \in IF0 : w.color = r.fw
      /\ \A w, x \in IF0 : w = x
  BY <1>2, <1>3, <1>4
<1>7. /\ IB0 \subseteq Item0
      /\ \A w \in IB0 : w.color = r.bw /\ w.count = Cardinality(B) /\ B # {} /\ w.set \in {NULL, B}
      /\ B # {} => \E w \in IB0 : w.color = r.bw
      /\ \A w, x \in IB0 : w = x
  BY <1>2, <1>3, <1>4
<1>8. /\ IK0 \subseteq Item0
      /\ \A w \in IK0 : w.color = r.color /\ w.count = Cardinality(K) /\ K # {} /\ w.set \in {NULL, K}
      /\ K # {} => \E w \in IK0 : w.color = r.color
      /\ \A w, x \in IK0 : w = x
  BY <1>2, <1>3, <1>4
<1> HIDE DEF IF0, IB0, IK0
<1> DEFINE new == NewItems(r)
<1>9. new \subseteq Item0
  BY <1>5, <1>6, <1>7, <1>8
<1>10. ASSUME NEW w \in new
       PROVE  /\ w.color \in {r.color, r.fw, r.bw}
              /\ OfColor(w.color) # {} /\ w.count = Cardinality(OfColor(w.color))
              /\ w.set \in {NULL, OfColor(w.color)}
  BY <1>5, <1>6, <1>7, <1>8
<1>11. ASSUME NEW w \in new, NEW x \in new, w.color = x.color
       PROVE  w = x
  BY <1>3, <1>5, <1>6, <1>7, <1>8, <1>11
<1>12. ASSUME NEW c \in {r.color, r.fw, r.bw}, OfColor(c) # {}
       PROVE  \E w \in new : w.color = c
  BY <1>5, <1>6, <1>7, <1>8, <1>12
<1> QED
  BY <1>1, <1>9, <1>10, <1>11, <1>12

\* A task ends: its items are exact, and apart from all others.
LEMMA EndStep ==
  ASSUME TasksInv, NEW t \in Thread, EndTask(t)
  PROVE  TasksInv' /\ Running(t) /\ ~Running(t)' /\ UNCHANGED <<E, G_Color, G_SCC>>
<1> DEFINE new == NewItems(th[t])
<1>1. /\ UNCHANGED <<E, dfs, given, G_Color, G_SCC>> /\ th[t].pc = "end" /\ Backward(th[t])
      /\ works' = works \cup new /\ th' = [th EXCEPT ![t] = Idle]
  BY DEF EndTask, colorVars
<1>2. PICK r \in Task : r = th[t] /\ Running(t) /\ r.fw # -1 /\ r.bw # -1 /\ r.pivot # NIL
                        /\ r.pivot \in Node /\ G_SCC[r.pivot] = r.pivot
  BY <1>1, TaskEnds DEF Found
<1>3. /\ new \subseteq Item0
      /\ \A w \in new : /\ w.color \in {r.color, r.fw, r.bw}
                        /\ OfColor(w.color) # {} /\ w.count = Cardinality(OfColor(w.color))
                        /\ w.set \in {NULL, OfColor(w.color)}
      /\ \A w, x \in new : w.color = x.color => w = x
      /\ \A c \in {r.color, r.fw, r.bw} : OfColor(c) # {} => \E w \in new : w.color = c
  BY <1>1, <1>2, ItemsLeft
<1> HIDE DEF new
<1>4. Owns(t) = {r.color, r.fw, r.bw}
  BY <1>2 DEF Owns, Mine
<1>6. th'[t] = Idle /\ th'[t] \in Task /\ ~Running(t)'
  <2>1. th'[t] = Idle
    BY <1>1 DEF TasksInv, TasksTyped
  <2>2. Idle.pc = "fetch"
    BY DEF Idle
  <2> QED
    BY <2>1, <2>2, IdleTyped DEF Running
<1>7. Recolors(t) /\ Moves(t)
  BY <1>1, OnlyItsTask DEF Recolors, Step
<1>8. works' \subseteq Item0
  BY <1>1, <1>3 DEF TasksInv, TasksTyped
<1>9. /\ TasksTyped'
      /\ \A u \in Thread : u # t => /\ th'[u] = th[u] /\ TaskHolds(u)'
                                    /\ Running(u)' = Running(u) /\ Owns(u)' = Owns(u)
  BY <1>1, <1>6, <1>7, <1>8, OwnColors, OthersAfter
<1>10. Owns(t)' = {}
  BY <1>6 DEF Owns
<1>11. ItemColors \subseteq ItemColors' /\ ItemColors' \subseteq ItemColors \cup Owns(t)
  BY <1>1, <1>3, <1>4 DEF ItemColors
<1>12. OwnApart'
  BY <1>6, <1>9 DEF TasksInv, OwnApart, Idle
<1>13. ColorsApart'
  <2>1. \A w \in works, x \in new : w.color # x.color
    BY <1>3, <1>4 DEF TasksInv, ColorsApart, ItemColors
  <2>2. \A w, x \in works' : w.color = x.color => w = x
    BY <1>1, <1>3, <2>1 DEF TasksInv, ColorsApart
  <2>3. \A u \in Thread : Owns(u)' \cap ItemColors' = {}
    BY <1>9, <1>10, <1>11 DEF TasksInv, ColorsApart
  <2>4. \A u, v \in Thread : u # v => Owns(u)' \cap Owns(v)' = {}
    BY <1>9, <1>10 DEF TasksInv, ColorsApart
  <2> QED
    BY <2>2, <2>3, <2>4 DEF ColorsApart
<1>14. ColorsUsed'
  <2>1. ASSUME NEW c, Used(c) PROVE Used(c)'
    BY <1>1, <2>1 DEF Used
  <2> QED
    BY <1>9, <1>10, <1>11, <2>1 DEF TasksInv, ColorsUsed
<1>15. ColorsOwned'
  <2> SUFFICES ASSUME NEW v \in Node, G_Color[v] # -2
               PROVE  G_Color[v] \in ItemColors' \/ \E u \in Thread : G_Color[v] \in Owns(u)'
    BY <1>1 DEF ColorsOwned
  <2>1. G_Color[v] \in ItemColors \/ \E u \in Thread : G_Color[v] \in Owns(u)
    BY DEF TasksInv, ColorsOwned
  <2>2. CASE G_Color[v] \in Owns(t)
    <3>1. OfColor(G_Color[v]) # {}
      BY DEF OfColor
    <3>2. \E w \in new : w.color = G_Color[v]
      BY <1>3, <1>4, <2>2, <3>1
    <3> QED
      BY <1>1, <3>2 DEF ItemColors
  <2>3. CASE G_Color[v] \notin Owns(t)
    BY <1>9, <1>11, <2>1, <2>3
  <2> QED
    BY <2>2, <2>3
<1>16. Marks'
  <2>1. G_Color[r.pivot] = -2
    BY <1>2, OwnColors
  <2>2. ASSUME NEW v \in Node, G_SCC[v] # NIL
        PROVE  G_Color[G_SCC[v]] = -2 \/ \E u \in Thread : Running(u)' /\ th'[u].pivot = G_SCC[v]
    <3>1. G_Color[G_SCC[v]] = -2 \/ \E u \in Thread : Running(u) /\ th[u].pivot = G_SCC[v]
      BY <2>2 DEF TasksInv, Marks
    <3> QED
      BY <1>2, <1>9, <2>1, <3>1
  <2> QED
    BY <1>1, <2>2, OwnColors DEF Marks
<1>17. PivotsApart'
  BY <1>6, <1>9 DEF TasksInv, PivotsApart, Idle
<1>18. ItemsOK'
  <2>1. \A w \in works' : /\ OfColor(w.color) # {} /\ w.count = Cardinality(OfColor(w.color))
                          /\ w.set \in {NULL, OfColor(w.color)}
    BY <1>1, <1>3 DEF TasksInv, ItemsOK
  <2>2. \A c : OfColor(c)' = OfColor(c)
    BY <1>1 DEF OfColor
  <2> QED
    BY <2>1, <2>2 DEF ItemsOK
<1>19. \A u \in Thread : TaskHolds(u)'
  BY <1>6, <1>9 DEF TaskHolds
<1>20. TasksInv'
  BY <1>9, <1>12, <1>13, <1>14, <1>15, <1>16, <1>17, <1>18, <1>19 DEF TasksInv
<1> QED
  BY <1>1, <1>2, <1>6, <1>20

\* A set of nodes that is not empty has a smallest node.
LEMMA SmallestNode ==
  ASSUME NEW T \in SUBSET Node, T # {}
  PROVE  \E m \in T : \A x \in T : m <= x
<1>1. Node \subseteq Nat /\ IsFiniteSet(Node)
  BY TasksAssumption
<1> DEFINE Upto(x) == {y \in T : y <= x}
           U == {Upto(x) : x \in T}
<1>2. IsWellFoundedOn(StrictSubsetOrdering(Node), FiniteSubsetsOf(Node))
  BY FS_StrictSubsetOrderingWellFounded
<1>3. U \subseteq FiniteSubsetsOf(Node) /\ U # {}
  <2>1. \A x \in T : Upto(x) \subseteq Node /\ IsFiniteSet(Upto(x))
    BY <1>1, FS_Subset
  <2> QED
    BY <2>1 DEF FiniteSubsetsOf
<1> HIDE DEF U
<1>4. PICK A \in U : \A C \in U : ~ (<<C, A>> \in StrictSubsetOrdering(Node))
  BY <1>2, <1>3, WFMin
<1>5. PICK m \in T : A = Upto(m)
  BY DEF U
<1>6. ASSUME NEW x \in T, ~(m <= x) PROVE FALSE
  <2>1. m \in Nat /\ x \in Nat /\ x < m
    BY <1>1, <1>6
  <2>2. Upto(x) \in U
    BY DEF U
  <2>3. Upto(x) \subseteq Upto(m) /\ Upto(x) # Upto(m)
    <3>1. \A y \in T : y \in Nat
      BY <1>1
    <3>2. \A y \in T : y <= x => y <= m
      BY <2>1, <3>1
    <3>3. m \in Upto(m) /\ m \notin Upto(x)
      BY <2>1
    <3> QED
      BY <3>2, <3>3
  <2>4. Upto(x) \subseteq Node /\ Upto(m) \subseteq Node
    OBVIOUS
  <2>5. <<Upto(x), Upto(m)>> \in StrictSubsetOrdering(Node)
    BY <2>3, <2>4 DEF StrictSubsetOrdering
  <2> QED
    BY <1>4, <1>5, <2>2, <2>5
<1> QED
  BY <1>6

\* The label of a node is a node.
LEMMA LabelsAreNodes ==
  ASSUME NEW v \in Node
  PROVE  Label(v) \in Node /\ -3 - Label(v) \in Int /\ -3 - Label(v) < -2
<1>1. v \in FB0!Reachable(E, Node, v) /\ FB0!Reachable(E, Node, v) \subseteq Node
  <2>1. v \in Reached(E, FALSE, Node, v) /\ Reached(E, FALSE, Node, v) \subseteq Node
    BY ReachedGrows
  <2> QED
    BY <2>1 DEF Reached, Edges
<1> DEFINE T == FB0!Reachable(E, Node, v)
<1>2. \E m \in T : \A x \in T : m <= x
  <2>1. T \in SUBSET Node /\ T # {}
    BY <1>1
  <2> HIDE DEF T
  <2> QED
    BY <2>1, SmallestNode
<1>3. Label(v) \in T
  <2> DEFINE P(m) == m \in T /\ \A x \in T : m <= x
             l == CHOOSE m \in T : \A x \in T : m <= x
  <2>1. Label(v) = l
    BY DEF Label
  <2> HIDE DEF T
  <2>2. l \in T
    BY <1>2
  <2> QED
    BY <2>1, <2>2
<1>4. T \subseteq Node
  BY <1>1
<1> HIDE DEF T
<1>5. Label(v) \in Node
  BY <1>3, <1>4
<1>6. Label(v) \in Nat
  BY <1>5, TasksAssumption
<1> QED
  BY <1>5, <1>6

\* The start: one item of all nodes, or an item for each label.
LEMMA TasksStart == Init => TasksInv
<1> SUFFICES ASSUME Init PROVE TasksInv
  OBVIOUS
<1>1. /\ E \in Graphs /\ dfs \in BOOLEAN /\ G_SCC = [v \in Node |-> NIL] /\ th = [t \in Thread |-> Idle]
  BY DEF Init
<1>2. /\ \A t \in Thread : th[t] = Idle /\ ~Running(t) /\ Owns(t) = {} /\ TaskHolds(t)
      /\ th \in [Thread -> Task]
      /\ Idle.fw = -1 /\ Idle.bw = -1 /\ Idle.pivot = NIL
  <2>1. Idle.pc = "fetch" /\ Idle.fw = -1 /\ Idle.bw = -1 /\ Idle.pivot = NIL
    BY DEF Idle
  <2>2. \A t \in Thread : th[t] = Idle
    BY <1>1
  <2> QED
    BY <1>1, <2>1, <2>2, IdleTyped DEF Running, Owns, TaskHolds
\* the items: what they hold
<1>3. /\ G_Color \in [Node -> Int] /\ \A v \in Node : G_Color[v] < 0 /\ G_Color[v] # -2
      /\ works \subseteq Item0
      /\ \A w \in works : /\ w.color < 0 /\ w.color # -2 /\ OfColor(w.color) # {}
                          /\ w.count = Cardinality(OfColor(w.color)) /\ w.set \in {NULL, OfColor(w.color)}
      /\ \A w, x \in works : w.color = x.color => w = x
      /\ \A v \in Node : \E w \in works : w.color = G_Color[v]
  <2>1. CASE /\ G_Color = [v \in Node |-> -1]
             /\ works = {[color |-> -1, count |-> Cardinality(Node), set |-> NULL]}
    <3>1. OfColor(-1) = Node /\ Node # {} /\ Cardinality(Node) \in Nat
      BY <2>1, TasksAssumption, FS_CardinalityType DEF OfColor
    <3>2. [color |-> -1, count |-> Cardinality(Node), set |-> NULL] \in Item0
      BY <3>1 DEF Item0, Sets
    <3> QED
      BY <2>1, <3>1, <3>2
  <2>2. CASE /\ G_Color = [v \in Node |-> -3 - Label(v)]
             /\ works = {[color |-> G_Color[v], count |-> Cardinality(OfColor(G_Color[v])),
                          set |-> OfColor(G_Color[v])] : v \in Node}
    <3> DEFINE I(v) == [color |-> G_Color[v], count |-> Cardinality(OfColor(G_Color[v])),
                        set |-> OfColor(G_Color[v])]
    <3>1. \A v \in Node : G_Color[v] \in Int /\ G_Color[v] < -2
      BY <2>2, LabelsAreNodes
    <3>2. \A v \in Node : v \in OfColor(G_Color[v]) /\ OfColor(G_Color[v]) \in SUBSET Node
      BY DEF OfColor
    <3>3. \A v \in Node : Cardinality(OfColor(G_Color[v])) \in Nat
      BY <3>2, FiniteParts
    <3>4. \A v \in Node : I(v) \in Item0
      BY <3>1, <3>2, <3>3 DEF Item0, Sets
    <3>5. \A w \in works : \E v \in Node : w = I(v)
      BY <2>2
    <3>6. \A v \in Node : I(v) \in works
      BY <2>2
    <3>7. G_Color \in [Node -> Int]
      BY <2>2, <3>1
    <3>8. ASSUME NEW w \in works
          PROVE  /\ w.color < 0 /\ w.color # -2 /\ OfColor(w.color) # {} /\ w \in Item0
                 /\ w.count = Cardinality(OfColor(w.color)) /\ w.set \in {NULL, OfColor(w.color)}
      BY <3>1, <3>2, <3>4, <3>5
    <3>9. ASSUME NEW w \in works, NEW x \in works, w.color = x.color PROVE w = x
      BY <3>5, <3>9
    <3> QED
      BY <3>1, <3>6, <3>7, <3>8, <3>9
  <2> QED
    BY <2>1, <2>2 DEF Init
<1>4. TasksTyped
  BY <1>1, <1>2, <1>3 DEF TasksTyped
<1>5. OwnApart /\ PivotsApart
  BY <1>2 DEF OwnApart, PivotsApart
<1>6. ColorsApart
  BY <1>2, <1>3 DEF ColorsApart
<1>7. ColorsUsed
  BY <1>2, <1>3 DEF ColorsUsed, Used, ItemColors, Item0
<1>8. ColorsOwned
  BY <1>3 DEF ColorsOwned, ItemColors
<1>9. Marks
  BY <1>1, <1>3 DEF Marks
<1>10. ItemsOK
  BY <1>3 DEF ItemsOK
<1> QED
  BY <1>2, <1>4, <1>5, <1>6, <1>7, <1>8, <1>9, <1>10 DEF TasksInv

\* Every step keeps the invariant.
LEMMA TasksStep ==
  ASSUME TasksInv, ColorInv, [Next]_vars
  PROVE  TasksInv'
<1>1. ASSUME NEW t \in Thread, Step(t) PROVE TasksInv'
  <2>1. CASE Fetch(t)
    BY <2>1, FetchStep
  <2>2. CASE Pivot(t)
    BY <2>2, PivotStep, FinishStep
  <2>3. CASE FwColor(t) \/ BwColor(t)
    BY <2>3, ColorTaken
  <2>4. CASE Check(t) \/ Exit(t) \/ Turn(t)
    BY <2>4, QuietStep
  <2>5. CASE Enter(t) \/ Leave(t)
    BY <2>5, VisitStep
  <2>6. CASE EndTask(t)
    BY <2>6, EndStep
  <2> QED
    BY <1>1, <2>1, <2>2, <2>3, <2>4, <2>5, <2>6 DEF Step
<1>2. CASE UNCHANGED vars
  <2>1. UNCHANGED <<E, G_Color, G_SCC, dfs, works, th, given>>
    BY <1>2 DEF vars, colorVars
  <2>2. TasksTyped' /\ Marks' /\ PivotsApart' /\ ItemsOK' /\ OwnApart'
    <3>1. TasksTyped /\ Marks /\ PivotsApart /\ ItemsOK /\ OwnApart
      BY DEF TasksInv
    <3>2. TasksTyped' /\ PivotsApart' /\ OwnApart'
      BY <2>1, <3>1 DEF TasksTyped, PivotsApart, OwnApart
    <3>3. Marks'
      BY <2>1, <3>1 DEF Marks, Running
    <3>4. ItemsOK'
      BY <2>1, <3>1 DEF ItemsOK, OfColor
    <3> QED
      BY <3>2, <3>3, <3>4
  <2>3. \A t \in Thread : Owns(t)' = Owns(t) /\ TaskHolds(t)' = TaskHolds(t)
    BY <2>1 DEF Owns, Running, TaskHolds, OfColor, Colored, Found
  <2>4. ColorsApart' /\ ColorsUsed' /\ ColorsOwned'
    BY <2>1, <2>3 DEF TasksInv, ColorsApart, ColorsUsed, ColorsOwned, ItemColors, Used
  <2> QED
    BY <2>2, <2>3, <2>4 DEF TasksInv
<1> QED
  BY <1>1, <1>2 DEF Next

\* The invariant gives the items.
LEMMA InvItemsExact == TasksInv => ItemsExact
<1> SUFFICES ASSUME TasksInv PROVE ItemsExact
  OBVIOUS
<1> DEFINE P == {OfColor(w.color) : w \in works}
           Q == {TaskNodes(t) : t \in {u \in Thread : Running(u)}}
<1>1. \A w \in works : w.count = Cardinality(OfColor(w.color)) /\ w.set \in {NULL, OfColor(w.color)}
  BY DEF TasksInv, ItemsOK
<1>2. ASSUME NEW v \in Node, G_Color[v] # -2 PROVE v \in UNION (P \cup Q)
  <2>1. CASE G_Color[v] \in ItemColors
    <3>1. PICK w \in works : w.color = G_Color[v]
      BY <2>1 DEF ItemColors
    <3>2. v \in OfColor(w.color)
      BY <3>1 DEF OfColor
    <3> QED
      BY <3>2
  <2>2. ASSUME NEW t \in Thread, G_Color[v] \in Owns(t) PROVE v \in UNION (P \cup Q)
    <3>1. Running(t)
      BY <2>2 DEF Owns
    <3>2. v \in TaskNodes(t)
      BY <2>2, <3>1, ColorsOfTask
    <3> QED
      BY <3>1, <3>2
  <2> QED
    BY <1>2, <2>1, <2>2 DEF TasksInv, ColorsOwned
<1>3. ASSUME NEW S \in P \cup Q, NEW T \in P \cup Q, S # T PROVE S \cap T = {}
  <2>1. /\ \A t, u \in Thread : t # u /\ Running(t) /\ Running(u) => TaskNodes(t) \cap TaskNodes(u) = {}
        /\ \A t \in Thread, w \in works : Running(t) => TaskNodes(t) \cap OfColor(w.color) = {}
        /\ \A w, x \in works : w # x => OfColor(w.color) \cap OfColor(x.color) = {}
    BY NodesApart
  <2>2. CASE S \in P /\ T \in P
    <3>1. PICK w \in works, x \in works : S = OfColor(w.color) /\ T = OfColor(x.color)
      BY <2>2
    <3> QED
      BY <1>3, <2>1, <3>1
  <2>3. ASSUME NEW A \in P, NEW C \in Q PROVE A \cap C = {}
    <3>1. PICK w \in works, t \in Thread : A = OfColor(w.color) /\ C = TaskNodes(t) /\ Running(t)
      BY <2>3
    <3> QED
      BY <2>1, <3>1
  <2>4. CASE S \in Q /\ T \in Q
    <3>1. PICK t \in Thread, u \in Thread : S = TaskNodes(t) /\ T = TaskNodes(u) /\ Running(t) /\ Running(u)
      BY <2>4
    <3> QED
      BY <1>3, <2>1, <3>1
  <2> QED
    BY <2>2, <2>3, <2>4
<1> QED
  BY <1>1, <1>2, <1>3 DEF ItemsExact

\* The items are exact (do_fw_bw_single_thread, do_fw_bw_dfs), whatever the threads
\* recolour meanwhile: for every number of threads, every graph and every size at
\* which the sets are dropped.
THEOREM ItemsAreExact == Spec => []ItemsExact
<1>1. Init => TasksInv /\ ColorInv
  BY TasksStart, ColorInit DEF Init
<1>2. TasksInv /\ ColorInv /\ [Next]_vars => (TasksInv /\ ColorInv)'
  <2> SUFFICES ASSUME TasksInv, ColorInv, [Next]_vars PROVE TasksInv' /\ ColorInv'
    OBVIOUS
  <2>1. TasksInv'
    BY TasksStep
  <2>2. ColorInv'
    BY ColorsGoOn, TasksTakeColors
  <2> QED
    BY <2>1, <2>2
<1> QED
  BY <1>1, <1>2, InvItemsExact, PTL DEF Spec

-----------------------------------------------------------------------------
(* The tasks split the classes as FwBw does.                               *)

\* the classes: the items and the running tasks
Parts == {OfColor(w.color) : w \in works} \cup {TaskNodes(t) : t \in {u \in Thread : Running(u)}}
\* the nodes that are marked at the end of their task are not yet
Taken(v) == \E t \in Thread : Running(t) /\ v \in TaskNodes(t)
Reps  == [v \in Node |-> IF Taken(v) THEN NIL ELSE G_SCC[v]]

\* What FwBw says of these.
LEMMA Abstract ==
  /\ \A R, S, p : FB!Reachable(R, S, p) = FB0!Reachable(R, S, p)
  /\ FB!Reverse(E) = FB0!Reverse(E)
  /\ FB!Partitioned <=> /\ {} \notin Parts
                        /\ \A S, T \in Parts : S # T => S \cap T = {}
                        /\ UNION Parts = {v \in Node : Reps[v] = NIL}
<1>1. \A R, S, p : FB!Reachable(R, S, p) = FB0!Reachable(R, S, p)
  BY DEF FB!Reachable, FB!Closed, FB0!Reachable, FB0!Closed
<1>2. FB!Reverse(E) = FB0!Reverse(E)
  BY DEF FB!Reverse, FB0!Reverse
<1>3. FB!Partitioned <=> /\ {} \notin Parts
                         /\ \A S, T \in Parts : S # T => S \cap T = {}
                         /\ UNION Parts = {v \in Node : Reps[v] = NIL}
  BY DEF FB!Partitioned, Parts, Reps, Taken
<1> QED
  BY <1>1, <1>2, <1>3

\* No class is empty, and the classes are apart.
LEMMA PartsApart ==
  ASSUME TasksInv
  PROVE  /\ {} \notin Parts
         /\ \A S, T \in Parts : S # T => S \cap T = {}
         /\ \A S \in Parts : S \subseteq Node
<1>1. \A S, T \in Parts : S # T => S \cap T = {}
  BY InvItemsExact DEF ItemsExact, Parts
<1>2. ASSUME NEW t \in Thread, Running(t) PROVE TaskNodes(t) # {} /\ TaskNodes(t) \subseteq Node
  <2>1. TaskNodes(t) = OfColor(th[t].color) \cup Colored(th[t].fw) \cup Colored(th[t].bw) \cup Found(th[t].pivot)
    BY PartsOfTask
  <2>2. TaskNodes(t) # {}
    BY <1>2, <2>1, RunningTask DEF Begins, Seeks
  <2> QED
    BY <2>2 DEF TaskNodes
<1>3. \A w \in works : OfColor(w.color) # {} /\ OfColor(w.color) \subseteq Node
  BY DEF TasksInv, ItemsOK, OfColor
<1>4. {} \notin Parts /\ \A S \in Parts : S \subseteq Node
  BY <1>2, <1>3 DEF Parts
<1> QED
  BY <1>1, <1>4

\* The classes hold what has no SCC or is being marked.
LEMMA PartsCover ==
  ASSUME TasksInv
  PROVE  UNION Parts = {v \in Node : Reps[v] = NIL}
<1>1. ASSUME NEW v \in Node, Reps[v] = NIL PROVE v \in UNION Parts
  <2>1. CASE Taken(v)
    BY <2>1 DEF Taken, Parts
  <2>2. CASE ~Taken(v)
    <3>1. G_Color[v] # -2
      BY <1>1, <2>2, OwnColors DEF Reps, TasksInv, Marks
    <3> QED
      BY <3>1, InvItemsExact DEF ItemsExact, Parts
  <2> QED
    BY <2>1, <2>2
<1>2. ASSUME NEW v \in UNION Parts PROVE v \in Node /\ Reps[v] = NIL
  <2>1. v \in Node
    BY <1>2, PartsApart
  <2>2. CASE Taken(v)
    BY <2>1, <2>2 DEF Reps
  <2>3. CASE ~Taken(v)
    <3>1. PICK w \in works : v \in OfColor(w.color)
      BY <1>2, <2>3 DEF Parts, Taken
    <3>2. w.color # -2
      BY DEF TasksInv, ColorsUsed, Used, ItemColors
    <3>3. G_SCC[v] = NIL
      BY <2>1, <3>1, <3>2 DEF OfColor, TasksInv, Marks
    <3> QED
      BY <2>1, <3>3 DEF Reps
  <2> QED
    BY <2>2, <2>3
<1> QED
  BY <1>1, <1>2

\* Two nodes that reach each other reach the same.
LEMMA SameReached ==
  ASSUME NEW e, NEW v \in Node, NEW w \in Node, w \in Reached(e, FALSE, Node, v),
         w \in Reached(e, TRUE, Node, v), e \subseteq Node \X Node
  PROVE  Reached(e, FALSE, Node, w) = Reached(e, FALSE, Node, v)
<1> DEFINE R(x) == Reached(e, FALSE, Node, x)
<1>1. \A x \in Node : x \in R(x) /\ R(x) \subseteq Node
  BY ReachedGrows
<1>2. ASSUME NEW x \in Node, NEW y \in R(x) PROVE R(y) \subseteq R(x) /\ y \in Node
  <2>1. y \in Node /\ R(x) \in SUBSET Node
    BY <1>1, <1>2
  <2>2. \A a \in R(x), c \in Node : c \in Near(e, FALSE, a) => c \in R(x)
    BY ReachedGrows
  <2>3. R(y) \subseteq R(x)
    BY <1>2, <2>1, <2>2, ReachedLeast
  <2> QED
    BY <2>1, <2>3
<1>3. v \in R(w)
  <2> DEFINE V == {x \in Node : v \in R(x)}
  <2>1. v \in V /\ V \in SUBSET Node
    BY <1>1
  <2>2. ASSUME NEW x \in V, NEW y \in Node, y \in Near(e, TRUE, x) PROVE y \in V
    <3>1. <<y, x>> \in e
      BY <2>2 DEF Near, Edges, FB0!Reverse
    <3>2. x \in Node /\ x \in Near(e, FALSE, y)
      BY <3>1 DEF Near, Edges
    <3>3. x \in R(y)
      BY <1>1, <3>2, ReachedGrows
    <3>4. R(x) \subseteq R(y)
      BY <1>2, <3>3
    <3> QED
      BY <3>4
  <2> HIDE DEF V
  <2>3. Reached(e, TRUE, Node, v) \subseteq V
    BY <2>1, <2>2, ReachedLeast
  <2> QED
    BY <2>3 DEF V
<1> QED
  BY <1>2, <1>3

\* At the start no SCC is cut: its nodes have one colour.
LEMMA StartWhole == Init => FB!Partitioned /\ FB!WholeSCCs
<1> SUFFICES ASSUME Init PROVE FB!Partitioned /\ FB!WholeSCCs
  OBVIOUS
<1>1. TasksInv
  BY TasksStart
<1>2. FB!Partitioned
  BY <1>1, Abstract, PartsApart, PartsCover
<1>3. \A t \in Thread : ~Running(t)
  BY DEF Init, Running, Idle
<1>4. ASSUME NEW w \in works, NEW v \in OfColor(w.color) PROVE FB!SCC(v) \subseteq OfColor(w.color)
  <2>0. v \in Node /\ G_Color[v] = w.color
    BY <1>4 DEF OfColor
  <2>1. FB!SCC(v) = Reached(E, FALSE, Node, v) \cap Reached(E, TRUE, Node, v)
    BY Abstract DEF FB!SCC, Reached, Edges
  <2>2. FB!SCC(v) \subseteq Node
    BY <2>0, <2>1, ReachedGrows
  <2>3. ASSUME NEW x \in FB!SCC(v) PROVE G_Color[x] = G_Color[v]
    <3>1. CASE G_Color = [y \in Node |-> -1]
      BY <2>0, <2>2, <3>1
    <3>2. CASE G_Color = [y \in Node |-> -3 - Label(y)]
      <4>1. E \subseteq Node \X Node
        BY <1>1, TasksAssumption DEF TasksInv, TasksTyped
      <4>2. Reached(E, FALSE, Node, x) = Reached(E, FALSE, Node, v)
        BY <2>0, <2>1, <2>2, <4>1, SameReached
      <4>3. Label(x) = Label(v)
        BY <4>2 DEF Label, Reached, Edges
      <4> QED
        BY <2>0, <2>2, <3>2, <4>3
    <3> QED
      BY <3>1, <3>2 DEF Init
  <2> QED
    BY <2>0, <2>2, <2>3 DEF OfColor
<1>5. \A S \in Parts : \A v \in S : FB!SCC(v) \subseteq S
  BY <1>3, <1>4 DEF Parts
<1>6. FB!WholeSCCs
  BY <1>5 DEF FB!WholeSCCs, Parts
<1> QED
  BY <1>2, <1>6

\* A step leaves the classes of the other tasks, and of the items, as they are.
LEMMA OtherParts ==
  ASSUME TasksInv, NEW t \in Thread, Moves(t), Recolors(t), E' = E, dfs' = dfs
  PROVE  /\ \A u \in Thread : u # t => /\ Running(u)' = Running(u)
                                       /\ Running(u) => TaskNodes(u)' = TaskNodes(u)
         /\ \A w \in works : OfColor(w.color)' = OfColor(w.color)
<1>1. ASSUME NEW u \in Thread, u # t
      PROVE  Running(u)' = Running(u) /\ (Running(u) => TaskNodes(u)' = TaskNodes(u))
  <2>1. th'[u] = th[u]
    BY <1>1 DEF Moves, TasksInv, TasksTyped
  <2> QED
    BY <1>1, <2>1, OthersKeep
<1>2. ASSUME NEW w \in works PROVE OfColor(w.color)' = OfColor(w.color)
  BY ItemsKeep DEF OfColor, NextOf
<1> QED
  BY <1>1, <1>2

\* What a task marks is seen when it ends.
LEMMA GoingOnStutters ==
  ASSUME TasksInv, NEW t \in Thread, Moves(t), Recolors(t), UNCHANGED <<E, dfs, works>>,
         Running(t), Running(t)', TaskNodes(t)' = TaskNodes(t)
  PROVE  Parts' = Parts /\ Reps' = Reps
<1>0. E' = E /\ dfs' = dfs /\ works' = works
  OBVIOUS
<1>1. \A u \in Thread : /\ Running(u)' <=> Running(u)
                        /\ Running(u) => TaskNodes(u)' = TaskNodes(u)
  <2> SUFFICES ASSUME NEW u \in Thread
               PROVE  (Running(u)' <=> Running(u)) /\ (Running(u) => TaskNodes(u)' = TaskNodes(u))
    OBVIOUS
  <2>1. CASE u = t
    BY <2>1
  <2>2. CASE u # t
    BY <1>0, <2>2, OtherParts
  <2> QED
    BY <2>1, <2>2
<1>2. \A w \in works : OfColor(w.color)' = OfColor(w.color)
  BY <1>0, OtherParts
<1>3. {OfColor(w.color) : w \in works}' = {OfColor(w.color) : w \in works}
  BY <1>2
<1>4. {TaskNodes(u) : u \in {x \in Thread : Running(x)}}' = {TaskNodes(u) : u \in {x \in Thread : Running(x)}}
  BY <1>1
<1>5. Parts' = Parts
  BY <1>3, <1>4 DEF Parts
<1>6. ASSUME NEW v \in Node PROVE Taken(v)' <=> Taken(v)
  BY <1>1 DEF Taken
<1>7. ASSUME NEW v \in Node, ~Taken(v) PROVE G_SCC'[v] = G_SCC[v]
  BY <1>7, ColorsOfTask DEF Taken, Recolors
<1>8. Reps' = Reps
  BY <1>6, <1>7 DEF Reps
<1> QED
  BY <1>5, <1>8

\* Taking an item changes no class.
LEMMA FetchStutters ==
  ASSUME TasksInv, NEW t \in Thread, Fetch(t)
  PROVE  Parts' = Parts /\ Reps' = Reps
<1>0. UNCHANGED <<E, dfs, G_Color, G_SCC>> /\ Moves(t) /\ Recolors(t)
  BY OnlyItsTask DEF Step, Fetch, Recolors
<1>1. PICK w \in works : works' = works \ {w} /\ TaskNodes(t)' = OfColor(w.color)
                         /\ ~Running(t) /\ Running(t)'
  BY FetchStep
<1>2. \A u \in Thread : u # t => /\ Running(u)' = Running(u)
                                 /\ Running(u) => TaskNodes(u)' = TaskNodes(u)
  BY <1>0, OtherParts
<1>3. \A c : OfColor(c)' = OfColor(c)
  BY <1>0 DEF OfColor
<1>4. ASSUME NEW S PROVE S \in Parts' <=> S \in Parts
  <2>1. S \in Parts <=> (\E x \in works : S = OfColor(x.color)) \/ \E u \in Thread : Running(u) /\ S = TaskNodes(u)
    BY DEF Parts
  <2>2. S \in Parts' <=> (\E x \in works' : S = OfColor(x.color)') \/ \E u \in Thread : Running(u)' /\ S = TaskNodes(u)'
    BY DEF Parts
  <2>3. (\E x \in works' : S = OfColor(x.color)') \/ S = OfColor(w.color) <=> \E x \in works : S = OfColor(x.color)
    BY <1>1, <1>3
  <2>4. (\E u \in Thread : Running(u)' /\ S = TaskNodes(u)')
          <=> S = OfColor(w.color) \/ \E u \in Thread : Running(u) /\ S = TaskNodes(u)
    BY <1>1, <1>2
  <2> QED
    BY <2>1, <2>2, <2>3, <2>4
<1>5. Parts' = Parts
  BY <1>4
<1>6. ASSUME NEW v \in Node PROVE Reps'[v] = Reps[v]
  <2>1. Taken(v)' <=> Taken(v) \/ v \in OfColor(w.color)
    BY <1>1, <1>2 DEF Taken
  <2>2. v \in OfColor(w.color) => G_SCC[v] = NIL
    BY DEF OfColor, TasksInv, Marks, ColorsUsed, Used, ItemColors
  <2> QED
    BY <1>0, <2>1, <2>2 DEF Reps
<1>7. Reps' = Reps
  BY <1>6 DEF Reps
<1> QED
  BY <1>5, <1>7

\* A class split by a task: the others stay.
LEMMA PartsAfterEnd ==
  ASSUME TasksInv, NEW t \in Thread, Moves(t), Recolors(t), E' = E, dfs' = dfs, Running(t), ~Running(t)',
         NEW N, works' = works \cup N
  PROVE  /\ Parts' = (Parts \ {TaskNodes(t)}) \cup {OfColor(w.color)' : w \in N}
         /\ \A v \in Node : Taken(v)' <=> Taken(v) /\ v \notin TaskNodes(t)
<1>1. /\ \A u \in Thread : u # t => /\ Running(u)' = Running(u)
                                    /\ Running(u) => TaskNodes(u)' = TaskNodes(u)
      /\ \A w \in works : OfColor(w.color)' = OfColor(w.color)
  BY OtherParts
<1>2. /\ \A u \in Thread : u # t /\ Running(u) => TaskNodes(u) \cap TaskNodes(t) = {} /\ TaskNodes(u) # TaskNodes(t)
      /\ \A w \in works : OfColor(w.color) \cap TaskNodes(t) = {} /\ OfColor(w.color) # TaskNodes(t)
  <2>1. TaskNodes(t) # {}
    BY PartsApart DEF Parts
  <2> QED
    BY <2>1, NodesApart
<1>3. ASSUME NEW S PROVE S \in Parts' <=> S \in (Parts \ {TaskNodes(t)}) \cup {OfColor(w.color)' : w \in N}
  <2>1. S \in Parts <=> (\E x \in works : S = OfColor(x.color)) \/ \E u \in Thread : Running(u) /\ S = TaskNodes(u)
    BY DEF Parts
  <2>2. S \in Parts' <=> (\E x \in works' : S = OfColor(x.color)') \/ \E u \in Thread : Running(u)' /\ S = TaskNodes(u)'
    BY DEF Parts
  <2>3. (\E x \in works' : S = OfColor(x.color)')
          <=> (\E x \in works : S = OfColor(x.color)) \/ \E x \in N : S = OfColor(x.color)'
    BY <1>1
  <2>4. (\E u \in Thread : Running(u)' /\ S = TaskNodes(u)')
          <=> \E u \in Thread : u # t /\ Running(u) /\ S = TaskNodes(u)
    BY <1>1
  <2>5. (\E u \in Thread : u # t /\ Running(u) /\ S = TaskNodes(u))
          <=> S # TaskNodes(t) /\ \E u \in Thread : Running(u) /\ S = TaskNodes(u)
    BY <1>2
  <2>6. (\E x \in works : S = OfColor(x.color)) => S # TaskNodes(t)
    BY <1>2
  <2> QED
    BY <2>1, <2>2, <2>3, <2>4, <2>5, <2>6
<1>4. Parts' = (Parts \ {TaskNodes(t)}) \cup {OfColor(w.color)' : w \in N}
  BY <1>3
<1>5. ASSUME NEW v \in Node PROVE Taken(v)' <=> Taken(v) /\ v \notin TaskNodes(t)
  <2>1. Taken(v)' <=> \E u \in Thread : u # t /\ Running(u) /\ v \in TaskNodes(u)
    BY <1>1 DEF Taken
  <2> QED
    BY <1>2, <2>1 DEF Taken
<1> QED
  BY <1>4, <1>5

\* A task of one node is a trim.
LEMMA FinishTrims ==
  ASSUME TasksInv, NEW t \in Thread, Pivot(t), th[t].count = 1
  PROVE  FB!Next
<1>1. PICK p \in Node : /\ TaskNodes(t) = {p} /\ G_SCC' = [G_SCC EXCEPT ![p] = p]
                        /\ TasksInv' /\ Running(t) /\ ~Running(t)' /\ Recolors(t) /\ UNCHANGED <<E, dfs, works>>
  BY FinishStep
<1>2. Moves(t)
  BY OnlyItsTask DEF Step
<1>3. /\ Parts' = (Parts \ {TaskNodes(t)}) \cup {OfColor(w.color)' : w \in {}}
      /\ \A v \in Node : Taken(v)' <=> Taken(v) /\ v \notin TaskNodes(t)
  <2>1. works' = works \cup {}
    BY <1>1
  <2> QED
    BY <1>1, <1>2, <2>1, PartsAfterEnd
<1>4. {p} \in Parts /\ {} \notin Parts
  BY <1>1, PartsApart DEF Parts
<1>5. Parts' = ((Parts \ {{p}}) \cup {{p} \ {p}}) \ {{}}
  BY <1>1, <1>3, <1>4
<1>6. Reps' = [v \in Node |-> IF v \in {p} THEN p ELSE Reps[v]]
  <2>1. ASSUME NEW v \in Node PROVE Reps'[v] = IF v \in {p} THEN p ELSE Reps[v]
    BY <1>1, <1>3, OwnColors DEF Reps
  <2> QED
    BY <2>1 DEF Reps
<1>7. FB!Trimmable({p}, p)
  BY DEF FB!Trimmable
<1>8. FB!Trim({p}, p)
  BY <1>1, <1>5, <1>6, <1>7 DEF FB!Trim, FB!Assign, Parts, Reps, Taken
<1> QED
  BY <1>4, <1>8 DEF FB!Next, Parts

\* A task is a split, at the step that ends it.
LEMMA EndSplits ==
  ASSUME TasksInv, NEW t \in Thread, EndTask(t)
  PROVE  FB!Next
<1> DEFINE S == TaskNodes(t)
           r == th[t]
           p == th[t].pivot
           K == OfColor(th[t].color)
           F == OfColor(th[t].fw)
           B == OfColor(th[t].bw)
           Z == Found(th[t].pivot)
           N == NewItems(th[t])
<1>1. /\ UNCHANGED <<E, dfs, G_Color, G_SCC>> /\ th[t].pc = "end" /\ Backward(th[t]) /\ works' = works \cup N
  BY DEF EndTask
<1>2. Running(t) /\ ~Running(t)' /\ Moves(t) /\ Recolors(t)
  BY <1>1, EndStep, OnlyItsTask DEF Step, Recolors
<1>3. /\ S \subseteq Node /\ p \in Z /\ p # NIL
      /\ S = K \cup F \cup B \cup Z /\ Disjoint4(K, F, B, Z)
      /\ F \cup Z = Reached(E, FALSE, S, p)
      /\ B \cup Z = Reached(E, TRUE, S, p)
  BY <1>1, TaskEnds
<1>4. /\ \A w \in N : w.color \in {r.color, r.fw, r.bw} /\ OfColor(w.color) # {}
      /\ \A c \in {r.color, r.fw, r.bw} : OfColor(c) # {} => \E w \in N : w.color = c
  BY <1>1, ItemsLeft
<1>5. /\ Parts' = (Parts \ {S}) \cup {OfColor(w.color)' : w \in N}
      /\ \A v \in Node : Taken(v)' <=> Taken(v) /\ v \notin S
  BY <1>1, <1>2, PartsAfterEnd
<1>6. S \in Parts /\ {} \notin Parts
  BY <1>2, PartsApart DEF Parts
<1>7. {OfColor(w.color)' : w \in N} = {F, B, K} \ {{}}
  <2>1. \A c : OfColor(c)' = OfColor(c)
    BY <1>1 DEF OfColor
  <2>2. ASSUME NEW X PROVE X \in {OfColor(w.color)' : w \in N} <=> X \in {F, B, K} \ {{}}
    BY <1>4, <2>1
  <2> QED
    BY <2>2
<1>8. \A v \in Node : /\ v \in Z => ~Taken(v)' /\ G_SCC[v] = p
                      /\ v \in S /\ v \notin Z => ~Taken(v)' /\ G_SCC[v] = NIL
                      /\ v \notin S => (Taken(v)' <=> Taken(v))
                      /\ v \in S => Reps[v] = NIL
  <2>1. ASSUME NEW v \in Node, v \in S, v \notin Z PROVE G_SCC[v] = NIL
    <3>1. v \in K \/ v \in F \/ v \in B
      BY <1>3, <2>1
    <3>2. -2 \notin Owns(t) /\ r.color \in Owns(t) /\ r.fw \in Owns(t) /\ r.bw \in Owns(t)
      <4>1. r.fw # -1 /\ r.bw # -1
        BY <1>1, TaskEnds
      <4> QED
        BY <1>2, <4>1 DEF TasksInv, ColorsUsed, Used, Owns, Mine
    <3>3. G_Color[v] # -2
      BY <3>1, <3>2 DEF OfColor
    <3> QED
      BY <3>3, OwnColors
  <2>2. \A v \in Z : G_SCC[v] = p /\ v \in S
    BY <1>3 DEF Found
  <2>3. \A v \in S : Taken(v) /\ Reps[v] = NIL
    BY <1>2, <1>3 DEF Taken, Reps
  <2> QED
    BY <1>5, <2>1, <2>2, <2>3
<1> DEFINE fw == F \cup Z
           bw == B \cup Z
<1> HIDE DEF S, r, p, K, F, B, Z, N
<1>9. fw \cap bw = Z /\ fw \ bw = F /\ bw \ fw = B /\ S \ (fw \cup bw) = K
  BY <1>3 DEF Disjoint4
<1>10. Reps' = [v \in Node |-> IF v \in fw \cap bw THEN p ELSE Reps[v]]
  <2>1. ASSUME NEW v \in Node PROVE Reps'[v] = IF v \in Z THEN p ELSE Reps[v]
    BY <1>1, <1>3, <1>8 DEF Reps
  <2> QED
    BY <1>9, <2>1 DEF Reps
<1>11. Parts' = ((Parts \ {S}) \cup {fw \ bw, bw \ fw, S \ (fw \cup bw)}) \ {{}}
  BY <1>5, <1>6, <1>7, <1>9
<1>12. fw = FB!Reachable(E, S, p) /\ bw = FB!Reachable(FB!Reverse(E), S, p)
  BY <1>3, Abstract DEF Reached, Edges
<1> HIDE DEF fw, bw
<1>13. ASSUME NEW X, X = S, NEW y, y = p PROVE FB!Split(X, y)
  BY <1>1, <1>10, <1>11, <1>12, <1>13 DEF FB!Split, FB!Assign, FB!Pieces, Parts, Reps, Taken
<1>14. p \in S
  BY <1>3
<1>15. \E X \in Parts : \E y \in X : FB!Split(X, y)
  <2>1. PICK X \in Parts : X = S
    BY <1>6
  <2>2. PICK y \in X : y = p
    BY <1>14, <2>1
  <2>3. FB!Split(X, y)
    BY <1>13, <2>1, <2>2
  <2> QED
    BY <2>3
<1> QED
  BY <1>15 DEF FB!Next, Parts

\* Each step is a step of FwBw or leaves the classes alone.
LEMMA StepRefines ==
  ASSUME TasksInv, ColorInv, [Next]_vars
  PROVE  [FB!Next]_(FB!vars)
<1>0. E' = E /\ Parts' = Parts /\ Reps' = Reps => UNCHANGED FB!vars
  BY DEF FB!vars, Parts, Reps, Taken
<1>1. ASSUME NEW t \in Thread, Step(t) PROVE FB!Next \/ UNCHANGED FB!vars
  <2>0. Moves(t)
    BY <1>1, OnlyItsTask
  <2>1. CASE Fetch(t)
    BY <1>0, <2>1, FetchStutters DEF Fetch
  <2>2. CASE Pivot(t) /\ th[t].count = 1
    BY <2>2, FinishTrims
  <2>3. CASE EndTask(t)
    BY <2>3, EndSplits
  <2>4. CASE \/ FwColor(t) \/ BwColor(t) \/ Check(t) \/ Exit(t) \/ Turn(t)
             \/ (Pivot(t) /\ th[t].count # 1)
    <3>1. /\ Running(t) /\ Running(t)' /\ TaskNodes(t)' = TaskNodes(t)
          /\ UNCHANGED <<E, G_Color, G_SCC, works>>
      BY <2>4, ColorTaken, QuietStep, PivotStep
    <3>2. dfs' = dfs
      BY <2>4 DEF FwColor, BwColor, Check, Exit, Turn, Pivot
    <3>3. Recolors(t)
      BY <3>1 DEF Recolors
    <3> QED
      BY <1>0, <2>0, <3>1, <3>2, <3>3, GoingOnStutters
  <2>5. CASE Enter(t) \/ Leave(t)
    <3>1. /\ Running(t) /\ Running(t)' /\ TaskNodes(t)' = TaskNodes(t) /\ Recolors(t)
          /\ UNCHANGED <<E, dfs, works>>
      BY <2>5, VisitStep
    <3> QED
      BY <1>0, <2>0, <3>1, GoingOnStutters
  <2> QED
    BY <1>1, <2>1, <2>2, <2>3, <2>4, <2>5 DEF Step
<1>2. CASE UNCHANGED vars
  <2>1. UNCHANGED <<E, G_Color, G_SCC, works, th>>
    BY <1>2 DEF vars
  <2>2. Parts' = Parts /\ Reps' = Reps
    BY <2>1 DEF Parts, Reps, Taken, Running, TaskNodes, OfColor
  <2> QED
    BY <1>0, <2>1, <2>2
<1> QED
  BY <1>1, <1>2 DEF Next

\* The tasks are atomic (do_fw_bw_single_thread, do_fw_bw_dfs): however the threads
\* interleave their searches node by node, the classes are split as FwBw splits them.
THEOREM TasksImplementFwBw == Spec => Refinement
<1>1. Init => TasksInv /\ ColorInv
  BY TasksStart, ColorInit DEF Init
<1>2. TasksInv /\ ColorInv /\ [Next]_vars => (TasksInv /\ ColorInv)' /\ [FB!Next]_(FB!vars)
  <2> SUFFICES ASSUME TasksInv, ColorInv, [Next]_vars
               PROVE  TasksInv' /\ ColorInv' /\ [FB!Next]_(FB!vars)
    OBVIOUS
  <2>1. TasksInv'
    BY TasksStep
  <2>2. ColorInv'
    BY ColorsGoOn, TasksTakeColors
  <2>3. [FB!Next]_(FB!vars)
    BY StepRefines
  <2> QED
    BY <2>1, <2>2, <2>3
<1> QED
  BY <1>1, <1>2, StartWhole, PTL DEF Spec, Refinement

-----------------------------------------------------------------------------
(* What FwBwProofs shows of the classes holds of those of the tasks.       *)

FBP == INSTANCE FwBwProofs WITH classes <- Parts, G_SCC <- Reps

\* When no thread has a task and no item is left, every node has the representative
\* of its SCC, and only the nodes of one SCC have the same.
SCCsFound == Done => \A v, w \in Node :
  /\ G_SCC[v] \in FB0!SCC(v)
  /\ G_SCC[v] = G_SCC[w] <=> w \in FB0!SCC(v)

\* The invariant of FwBw is inductive for the tasks.
LEMMA AbstractInductive == FBP!Inv /\ [FB!Next]_(FB!vars) => FBP!Inv'
<1>0. NIL \notin Node /\ Graphs \subseteq SUBSET (Node \X Node)
  BY TasksAssumption
<1>1. FBP!Inv /\ [FBP!Next]_(FBP!vars) => FBP!Inv'
  BY <1>0, FBP!NextInv
<1>2. [FB!Next]_(FB!vars) => [FBP!Next]_(FBP!vars)
  BY DEF FB!Next, FBP!Next, FB!vars, FBP!vars, FB!Trim, FBP!Trim, FB!Split, FBP!Split, FB!Trim2, FBP!Trim2,
         FB!Separate, FBP!Separate, FB!Pair, FBP!Pair, FB!Pieces, FBP!Pieces, FB!Final, FBP!Final,
         FB!Assign, FBP!Assign, FB!Reachable, FBP!Reachable, FB!Closed, FBP!Closed, FB!Reverse, FBP!Reverse,
         FB!Trimmable, FBP!Trimmable, Parts, Reps, Taken
<1> QED
  BY <1>1, <1>2

\* The names of FwBw and of FwBwProofs are one.
LEMMA SameSCC ==
  /\ \A v : FBP!SCC(v) = FB0!SCC(v) /\ FB!SCC(v) = FB0!SCC(v)
  /\ FBP!Partitioned = FB!Partitioned /\ FBP!WholeSCCs = FB!WholeSCCs
<1>1. \A R, S, p : FBP!Reachable(R, S, p) = FB0!Reachable(R, S, p) /\ FB!Reachable(R, S, p) = FB0!Reachable(R, S, p)
  BY DEF FBP!Reachable, FBP!Closed, FB!Reachable, FB!Closed, FB0!Reachable, FB0!Closed
<1>2. FBP!Reverse(E) = FB0!Reverse(E) /\ FB!Reverse(E) = FB0!Reverse(E)
  BY DEF FBP!Reverse, FB!Reverse, FB0!Reverse
<1>3. \A v : FBP!SCC(v) = FB0!SCC(v) /\ FB!SCC(v) = FB0!SCC(v)
  BY <1>1, <1>2 DEF FBP!SCC, FB!SCC, FB0!SCC
<1>4. FBP!WholeSCCs <=> FB!WholeSCCs
  BY <1>3 DEF FBP!WholeSCCs, FB!WholeSCCs, Parts
<1>5. FBP!Partitioned <=> FB!Partitioned
  BY DEF FBP!Partitioned, FB!Partitioned, Parts, Reps, Taken
<1> QED
  BY <1>3, <1>4, <1>5 DEF FBP!WholeSCCs, FB!WholeSCCs, FBP!Partitioned, FB!Partitioned

\* The start satisfies it.
LEMMA AbstractStart == Init => FBP!Inv
<1> SUFFICES ASSUME Init PROVE FBP!Inv
  OBVIOUS
<1>1. TasksInv
  BY TasksStart
<1>2. FBP!Partitioned /\ FBP!WholeSCCs
  BY StartWhole, SameSCC
<1>3. \A v \in Node : Reps[v] = NIL
  BY DEF Init, Reps
<1>4. FBP!Identified
  BY <1>3 DEF FBP!Identified, Reps, Taken
<1>5. FBP!TypeOK
  <2>1. E \in Graphs
    BY <1>1 DEF TasksInv, TasksTyped
  <2>2. Reps \in [Node -> Node \cup {NIL}]
    BY <1>3 DEF Reps
  <2>3. Parts \subseteq SUBSET Node
    BY <1>1, PartsApart
  <2> QED
    BY <2>1, <2>2, <2>3 DEF FBP!TypeOK, Parts, Reps, Taken
<1> QED
  BY <1>2, <1>4, <1>5 DEF FBP!Inv

\* At the end nothing is left to find, and what was found is right.
LEMMA EndFound == TasksInv /\ FBP!Inv => SCCsFound
<1> SUFFICES ASSUME TasksInv, FBP!Inv, Done
             PROVE  \A v, w \in Node : /\ G_SCC[v] \in FB0!SCC(v)
                                       /\ G_SCC[v] = G_SCC[w] <=> w \in FB0!SCC(v)
  BY DEF SCCsFound
<1>1. Parts = {} /\ \A v \in Node : ~Taken(v)
  BY DEF Done, Parts, Taken, Running
<1>2. \A v \in Node : Reps[v] = G_SCC[v]
  BY <1>1 DEF Reps
<1>3. \A v \in Node : G_SCC[v] # NIL
  <2>1. UNION Parts = {}
    BY <1>1
  <2> QED
    BY <1>2, <2>1, PartsCover
<1>4. \A v \in Node : /\ Reps[v] # NIL => /\ Reps[v] \in FBP!SCC(v)
                                          /\ \A w \in FBP!SCC(v) : Reps[w] = Reps[v]
  BY DEF FBP!Inv, FBP!Identified, Reps, Taken
<1>5. \A v \in Node : /\ v \in FBP!SCC(v) /\ FBP!SCC(v) \subseteq Node
                      /\ \A w \in FBP!SCC(v) : FBP!SCC(w) = FBP!SCC(v)
  <2>1. NIL \notin Node /\ Graphs \subseteq SUBSET (Node \X Node)
    BY TasksAssumption
  <2>2. FBP!TypeOK
    BY DEF FBP!Inv
  <2> QED
    BY <2>1, <2>2, FBP!SCCEquivalence
<1>6. \A v \in Node : G_SCC[v] \in FBP!SCC(v) /\ \A w \in FBP!SCC(v) : G_SCC[w] = G_SCC[v]
  BY <1>2, <1>3, <1>4, <1>5
<1>7. ASSUME NEW v \in Node, NEW w \in Node, G_SCC[v] = G_SCC[w] PROVE w \in FBP!SCC(v)
  <2>1. FBP!SCC(v) = FBP!SCC(G_SCC[v]) /\ FBP!SCC(w) = FBP!SCC(G_SCC[w])
    BY <1>5, <1>6
  <2> QED
    BY <1>5, <1>7, <2>1
<1>8. \A v, w \in Node : /\ G_SCC[v] \in FBP!SCC(v)
                         /\ G_SCC[v] = G_SCC[w] <=> w \in FBP!SCC(v)
  BY <1>6, <1>7
<1> QED
  BY <1>8, SameSCC

\* When the workers are done the SCCs are found (start_workers_fw_bw,
\* start_workers_fw_bw_dfs), on every graph and with every number of threads.
THEOREM TasksFindSCCs == Spec => []SCCsFound
<1>1. Init => TasksInv /\ ColorInv /\ FBP!Inv
  BY TasksStart, ColorInit, AbstractStart DEF Init
<1>2. TasksInv /\ ColorInv /\ FBP!Inv /\ [Next]_vars => (TasksInv /\ ColorInv /\ FBP!Inv)'
  <2> SUFFICES ASSUME TasksInv, ColorInv, FBP!Inv, [Next]_vars
               PROVE  TasksInv' /\ ColorInv' /\ FBP!Inv'
    OBVIOUS
  <2>1. TasksInv'
    BY TasksStep
  <2>2. ColorInv'
    BY ColorsGoOn, TasksTakeColors
  <2>3. FBP!Inv'
    BY StepRefines, AbstractInductive
  <2> QED
    BY <2>1, <2>2, <2>3
<1> QED
  BY <1>1, <1>2, EndFound, PTL DEF Spec
=============================================================================
