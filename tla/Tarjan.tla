------------------------------- MODULE Tarjan -------------------------------
(***************************************************************************)
(* Methods 3 and 4: Tarjan's algorithm as src/src/scc_tarjan.cc has it,    *)
(* with the colours as the order of the visits and the lowlinks of the     *)
(* nodes on the stack instead of their numbers.  The frames of the         *)
(* recursion are a sequence.                                               *)
(***************************************************************************)
EXTENDS Integers, Sequences, SequencesExt

CONSTANTS
  Node,         \* the nodes, 1 .. N
  NIL,          \* gm_graph::NIL_NODE
  Graphs        \* the graphs to run on: sets of edges <<v, w>>

VARIABLES
  E, G_Color, G_SCC,
  G_lowlink,
  G_instack,    \* per node: the colour it had before it was pushed, or -2
  the_stack,
  frames,       \* the calls of scc_tarjan_recurse: v, the neighbours to look at, w
  color,        \* the last colour of get_new_color
  i             \* the loop of do_tarjan_all

vars == <<E, G_Color, G_SCC, G_lowlink, G_instack, the_stack, frames, color, i>>

Neighbors(v) == {w \in Node : <<v, w>> \in E}

\* do_tarjan_all runs at once or after repeat_global_trim1, whose first pass takes what
\* can be trimmed at its start; what else it takes, in this pass or in later ones, can
\* be trimmed when it is its turn.  Each such node is an SCC of its own.
FB0 == INSTANCE FwBw WITH classes <- {}
Trimmed(T) ==
  /\ \A v \in Node : FB0!Trimmable(Node, v) => v \in T
  /\ \A U \in SUBSET T : U # T => \E v \in T \ U : FB0!Trimmable(Node \ U, v)

Init ==
  /\ E \in Graphs
  /\ \E T \in {{}} \cup {S \in SUBSET Node : Trimmed(S)} :
       /\ G_Color = [v \in Node |-> IF v \in T THEN -2 ELSE -1]
       /\ G_SCC = [v \in Node |-> IF v \in T THEN v ELSE NIL]
  /\ G_lowlink = [v \in Node |-> -1] /\ G_instack = [v \in Node |-> -2]
  /\ the_stack = <<>> /\ frames = <<>>
  /\ color = -1
  /\ i = 1

Top == frames[Len(frames)]
BaseColor == -1

\* scc_tarjan_recurse(v): the call, up to its loop; fs are the frames below
Call(v, fs) ==
  /\ color' = color + 1
  /\ G_Color' = [G_Color EXCEPT ![v] = color']
  /\ G_lowlink' = [G_lowlink EXCEPT ![v] = color']
  /\ G_instack' = [G_instack EXCEPT ![v] = BaseColor]
  /\ the_stack' = Append(the_stack, v)
  /\ frames' = Append(fs, [v |-> v, left |-> Neighbors(v), w |-> NIL])

\* do_tarjan_all
Visit ==
  /\ frames = <<>> /\ i \in Node
  /\ i' = i + 1
  /\ IF G_Color[i] # -2 THEN Call(i, <<>>)
     ELSE UNCHANGED <<G_Color, G_lowlink, G_instack, the_stack, frames, color>>
  /\ UNCHANGED <<E, G_SCC>>

SetTop(r) == [frames EXCEPT ![Len(frames)] = r]
Looking   == frames # <<>> /\ Top.w = NIL

\* the next neighbour: a call, which is returned to with w, or a node on the stack
BugJoins(w) == G_lowlink[w] # -1
Joins(w)    == G_instack[w] = BaseColor
BugLowered(v, w) == [G_lowlink EXCEPT ![v] = G_lowlink[w]]
Lowered(v, w)    == [G_lowlink EXCEPT ![v] = IF G_lowlink[w] < @ THEN G_lowlink[w] ELSE @]

Edge ==
  /\ Looking
  /\ \E w \in Top.left :
       LET r == [Top EXCEPT !.left = @ \ {w}]
       IN  \/ /\ G_Color[w] = BaseColor
              /\ Call(w, SetTop([r EXCEPT !.w = w]))
           \/ /\ G_Color[w] # BaseColor
              /\ G_lowlink' = IF Joins(w) THEN Lowered(r.v, w) ELSE G_lowlink
              /\ frames' = SetTop(r)
              /\ UNCHANGED <<G_Color, G_instack, the_stack, color>>
  /\ UNCHANGED <<E, G_SCC, i>>

\* the call for w has returned
Returned ==
  /\ frames # <<>> /\ Top.w # NIL
  /\ G_lowlink' = Lowered(Top.v, Top.w)
  /\ frames' = SetTop([Top EXCEPT !.w = NIL])
  /\ UNCHANGED <<E, G_Color, G_SCC, G_instack, the_stack, color, i>>

\* the end of a call: the SCC is what lies on the stack down to its root
Popped(v) == Range(SubSeq(the_stack, SelectInSeq(the_stack, LAMBDA u : u = v), Len(the_stack)))
Return ==
  /\ Looking /\ Top.left = {}
  /\ LET v == Top.v
         S == IF G_lowlink[v] = G_Color[v] THEN Popped(v) ELSE {}
     IN  /\ G_SCC' = [w \in Node |-> IF w \in S THEN v ELSE G_SCC[w]]
         /\ G_instack' = [w \in Node |-> IF w \in S THEN -2 ELSE G_instack[w]]
         /\ G_Color' = [w \in Node |-> IF w \in S THEN -2 ELSE G_Color[w]]
         /\ the_stack' = SubSeq(the_stack, 1, Len(the_stack) - Cardinality(S))
  /\ frames' = SubSeq(frames, 1, Len(frames) - 1)
  /\ UNCHANGED <<E, G_lowlink, color, i>>

Done == i \notin Node /\ frames = <<>>
Next == Visit \/ Edge \/ Returned \/ Return \/ (Done /\ UNCHANGED vars)

Spec == Init /\ [][Next]_vars

-----------------------------------------------------------------------------
(* Properties                                                              *)

\* What is popped is an SCC, never a part of one or more: at any time the nodes with
\* an SCC have the right one, and at the end all have.
Correct ==
  /\ FB0!Identified
  /\ Done => the_stack = <<>> /\ \A v \in Node : G_SCC[v] # NIL

\* Lowlinks of lowlinks may skip numbers, but never leave the stack: the lowlink of a
\* node on the stack is the colour of one at or below it that it reaches, and every
\* node on the stack reaches those above it.
LowlinkSound == \A n \in DOMAIN the_stack :
  LET v == the_stack[n]
  IN  /\ \E k \in 1 .. n : G_lowlink[v] = G_Color[the_stack[k]] /\ the_stack[k] \in FB0!Reachable(E, Node, v)
      /\ \A k \in n .. Len(the_stack) : \E u \in FB0!Reachable(E, Node, v) : u = the_stack[k]
=============================================================================
