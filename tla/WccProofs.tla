----------------------------- MODULE WccProofs -----------------------------
(***************************************************************************)
(* The labels of the WCC phase are right on every graph and for any number *)
(* of threads: when a round finds nothing to change, the label of a node   *)
(* is the smallest that it reaches in its colour, although the threads     *)
(* read labels that others are writing.  The heart is May, what a label    *)
(* can be at any moment, and Settled, what holds of a node that no thread  *)
(* found a smaller label for.  So no edge leads to a smaller label, the    *)
(* roots cut the classes where no edge comes back, and an item holds whole *)
(* SCCs.                                                                   *)
(***************************************************************************)
EXTENDS Wcc, FiniteSetTheorems, TLAPS

-----------------------------------------------------------------------------
(* Labels and what a node reaches in its colour.                           *)

\* What FwBwProofs shows of the classes holds of those of the labels.
Parts == {{w \in Colored : ColorOf(w) = ColorOf(v)} : v \in Colored}
FBP   == INSTANCE FwBwProofs WITH classes <- Parts

\* A label is the number of its root, perhaps with the flag (GET_WCC_ROOT).
LEMMA LabelRoot ==
  ASSUME NEW v \in Node
  PROVE  InitialLabel(v) \in Int /\ InitialLabel(v) % FLAG = v
<1>1. v \in Int /\ 0 <= v /\ v < NNodes /\ NNodes \in Nat
  BY WccAssumption DEF Node
<1>2. ASSUME NEW l \in Int, l = v \/ l = v + NNodes
      PROVE  l % NNodes = v
  <2> DEFINE q == l \div NNodes
             m == l % NNodes
  <2>1. q \in Int /\ m \in Int /\ 0 <= m /\ m < NNodes /\ l = NNodes * q + m
    BY <1>1, <1>2
  <2> HIDE DEF q, m
  <2>2. CASE q <= -1
    <3>1. NNodes * q <= -NNodes
      BY <1>1, <2>1, <2>2
    <3> QED
      BY <1>1, <1>2, <2>1, <3>1
  <2>3. CASE q = 0
    <3>1. NNodes * q = 0
      BY <1>1, <2>3
    <3> QED
      BY <1>1, <1>2, <2>1, <3>1 DEF m
  <2>4. CASE q = 1
    <3>1. NNodes * q = NNodes
      BY <1>1, <2>4
    <3> QED
      BY <1>1, <1>2, <2>1, <3>1 DEF m
  <2>5. CASE q >= 2
    <3>1. NNodes * q >= NNodes + NNodes
      BY <1>1, <2>1, <2>5
    <3> QED
      BY <1>1, <1>2, <2>1, <3>1
  <2> QED
    BY <2>1, <2>2, <2>3, <2>4, <2>5
<1>3. InitialLabel(v) \in Int /\ (InitialLabel(v) = v \/ InitialLabel(v) = v + NNodes)
  BY <1>1 DEF InitialLabel, INIT_WCC_ROOT_LG, FLAG
<1> QED
  BY <1>2, <1>3 DEF FLAG

\* The nodes of a colour reach each other along edges of that colour only.
LEMMA ReachedFacts ==
  ASSUME NEW v \in Node
  PROVE  /\ v \in Reached(v)
         /\ Reached(v) \subseteq OfColor(G_Color[v])
         /\ \A w \in Reached(v) : w \in Node /\ Reached(w) \subseteq Reached(v)
         /\ \A w \in Reached(v) : \A k \in Neighbors(w) : G_Color[k] = G_Color[v] => k \in Reached(v)
<1> DEFINE S == OfColor(G_Color[v])
<1>1. v \in S /\ S \subseteq Node
  BY DEF OfColor
<1>2. Reached(v) = FB0!Reachable(E, S, v)
  BY DEF Reached
<1>3. v \in Reached(v) /\ Reached(v) \subseteq S
  BY <1>1, <1>2 DEF FB0!Reachable, FB0!Closed
<1>4. ASSUME NEW w \in Reached(v)
      PROVE  w \in Node /\ Reached(w) \subseteq Reached(v)
  <2>1. w \in S /\ w \in Node
    BY <1>1, <1>3
  <2>2. Reached(w) = FB0!Reachable(E, S, w)
    BY <2>1 DEF OfColor, Reached
  <2>3. FB0!Reachable(E, S, w) \subseteq FB0!Reachable(E, S, v)
    BY <1>1, <1>2, <1>4, <2>1 DEF FB0!Reachable, FB0!Closed
  <2> QED
    BY <1>2, <2>1, <2>2, <2>3
<1>5. ASSUME NEW w \in Reached(v), NEW k \in Neighbors(w), G_Color[k] = G_Color[v]
      PROVE  k \in Reached(v)
  <2>1. k \in S /\ w \in S /\ <<w, k>> \in E
    BY <1>3, <1>5 DEF Neighbors, OfColor
  <2>2. w \in FB0!Reachable(E, S, v)
    BY <1>2
  <2> QED
    BY <1>2, <2>1, <2>2 DEF FB0!Reachable, FB0!Closed
<1> QED
  BY <1>3, <1>4, <1>5

\* What holds a node and the successors of its colour of what it holds, holds what
\* is reached.
LEMMA ReachedLeast ==
  ASSUME NEW v \in Node, NEW V \in SUBSET OfColor(G_Color[v]), v \in V,
         \A w \in V : \A k \in Neighbors(w) : G_Color[k] = G_Color[v] => k \in V
  PROVE  Reached(v) \subseteq V
BY DEF Reached, FB0!Reachable, FB0!Closed, Neighbors, OfColor

\* A label that v may have: that of a node it reaches, not above its own.
May(v, l) == \E x \in Reached(v) : l = InitialLabel(x) /\ l <= InitialLabel(v)

\* Its root is that node.
LEMMA MayRoot ==
  ASSUME NEW v \in Colored, NEW l, May(v, l)
  PROVE  /\ l \in Int /\ l <= InitialLabel(v)
         /\ l % FLAG \in Reached(v) /\ l = InitialLabel(l % FLAG)
         /\ l % FLAG \in Colored /\ G_Color[l % FLAG] = G_Color[v]
<1>0. v \in Node /\ G_Color[v] # -2
  BY DEF Colored
<1>1. PICK x \in Reached(v) : l = InitialLabel(x) /\ l <= InitialLabel(v)
  BY DEF May
<1>2. x \in Node /\ x \in OfColor(G_Color[v])
  BY <1>0, ReachedFacts
<1>3. l \in Int /\ l % FLAG = x
  BY <1>1, <1>2, LabelRoot
<1>4. x \in Colored /\ G_Color[x] = G_Color[v]
  BY <1>0, <1>2 DEF Colored, OfColor
<1> QED
  BY <1>1, <1>3, <1>4

\* A node may have its own label, and the labels of what it reaches that are smaller.
LEMMA MayOwn ==
  ASSUME NEW v \in Colored
  PROVE  May(v, InitialLabel(v))
BY ReachedFacts, LabelRoot DEF May, Colored

\* A label that a reached node may have, v may have, if it is not above its own.
LEMMA MayPass ==
  ASSUME NEW v \in Colored, NEW w \in Reached(v), w \in Colored, NEW l, May(w, l), l <= InitialLabel(v)
  PROVE  May(v, l)
<1>0. v \in Node
  BY DEF Colored
<1>1. PICK x \in Reached(w) : l = InitialLabel(x)
  BY DEF May
<1>2. x \in Reached(v)
  BY <1>0, <1>1, ReachedFacts
<1> QED
  BY <1>1, <1>2 DEF May

-----------------------------------------------------------------------------
(* The inductive invariant.                                                *)

Phases == {"hook", "shortcut", "color", "pool", "done"}
Locals == [pc : {"loop", "hook", "shortcut"}, n : Node \cup {NIL}, min_val : Int, left : SUBSET Node]

Typed ==
  /\ E \in Graphs
  /\ G_Color \in [Node -> Int] /\ G_SCC \in [Node -> Node \cup {NIL}]
  /\ \A v \in Node : G_Color[v] = -2 <=> G_SCC[v] # NIL
  /\ DOMAIN G_WCC = Node /\ G_WCC = [v \in Node |-> G_WCC[v]]
  /\ phase \in Phases /\ finished \in BOOLEAN
  /\ todo \subseteq Colored /\ pool_cnt \in Int
  /\ th \in [Thread -> Locals]

\* the labels and what is left to do in a round
LabelsOK   == \A v \in Colored : May(v, G_WCC[v])
Settled(v) == \A k \in Neighbors(v) : G_Color[k] = G_Color[v] => G_WCC[v] <= G_WCC[k]
At(v, p)   == \E t \in Thread : th[t].pc = p /\ th[t].n = v

\* a thread has the smallest label of the neighbours read; the node's own, if no
\* thread has found a smaller one
Hooking(t) ==
  LET r == th[t]
  IN  /\ phase = "hook" /\ r.n \in Colored /\ May(r.n, r.min_val) /\ r.left \subseteq Neighbors(r.n)
      /\ finished =>
           /\ r.min_val = G_WCC[r.n]
           /\ \A k \in Neighbors(r.n) \ r.left : G_Color[k] = G_Color[r.n] => G_WCC[r.n] <= G_WCC[k]

ThreadHolds(t) ==
  \/ Free(t)
  \/ th[t].pc = "hook" /\ Hooking(t)
  \/ th[t].pc = "shortcut" /\ phase = "shortcut" /\ th[t].n \in Colored

InHook == phase = "hook" =>
  /\ LabelsOK
  /\ finished => \A v \in Colored : v \in todo \/ At(v, "hook") \/ Settled(v)

InShortcut == phase = "shortcut" =>
  /\ LabelsOK
  /\ finished => \A v \in Colored : /\ Settled(v)
                                    /\ v \in todo \/ At(v, "shortcut") \/ ~RootChanged(v)

\* when the labels are final
Rooted ==
  \A v \in Colored : \E r \in Colored : r = GET_WCC_ROOT(v) /\ IsRoot(r) /\ G_WCC[v] = InitialLabel(r)
\* no edge leads to a smaller label, among the nodes that have had one colour so far
Ordered ==
  \A v \in Colored : \A w \in Neighbors(v) :
    w \in Colored /\ ColorOf(v) = ColorOf(w) => G_WCC[v] <= G_WCC[w]
RootsApart(S) ==
  \A v, w \in Colored : IsRoot(v) /\ IsRoot(w) /\ v # w /\ v \notin S /\ w \notin S
                          => G_Color[v] # G_Color[w]

InColor == phase = "color" =>
  /\ Rooted /\ Ordered /\ RootsApart(todo)
  /\ todo = Colored => LabelsOK /\ \A v \in Colored : Settled(v)

After == phase \in {"pool", "done"} =>
  /\ Rooted /\ RootsApart({})
  /\ \A v \in Colored : G_Color[v] = G_Color[GET_WCC_ROOT(v)]

\* each root has taken one set
Roots(S) == {v \in S : IsRoot(v)}
Items == {[color |-> G_Color[v], count |-> Cardinality(SetOf(v)), set |-> SetOf(v)] : v \in Roots(Colored)}
PoolOK ==
  /\ phase \in {"hook", "shortcut", "color"} => pool_cnt = POOL
  /\ phase = "pool" => POOL - pool_cnt = Cardinality(Roots(Colored \ todo))
  /\ phase = "done" => POOL - pool_cnt = Cardinality(Roots(Colored)) /\ works = Items

\* the colours: what is left of the chunks is in use nowhere
used(t) == the_colors[t].used
max(t)  == the_colors[t].max

Chunks ==
  /\ the_color \in Int /\ the_colors \in [Thread -> [used : Int, max : Int]]
  /\ the_color >= -1
  /\ \A t \in Thread : -1 <= used(t) /\ used(t) <= max(t) /\ max(t) <= the_color
  /\ \A t, u \in Thread : t # u => max(t) <= used(u) \/ max(u) <= used(t)
InUse(c) == c <= the_color /\ \A t \in Thread : ~(used(t) < c /\ c <= max(t))
Fresh    == Chunks /\ \A v \in Node : InUse(G_Color[v])

WccInv ==
  /\ Typed /\ (\A t \in Thread : ThreadHolds(t))
  /\ InHook /\ InShortcut /\ InColor /\ After /\ PoolOK /\ Fresh

-----------------------------------------------------------------------------
(* The rounds.                                                             *)

\* While no colour changes, a node reaches the same and may have the same labels.
LEMMA SameGraph ==
  ASSUME E' = E, G_Color' = G_Color
  PROVE  /\ Colored' = Colored
         /\ \A v \in Node : InitialLabel(v)' = InitialLabel(v) /\ Neighbors(v)' = Neighbors(v)
         /\ \A v \in Colored : \A l : May(v, l)' <=> May(v, l)
<1>1. Colored' = Colored
  BY DEF Colored
<1>2. ASSUME NEW v \in Node
      PROVE  InitialLabel(v)' = InitialLabel(v) /\ Neighbors(v)' = Neighbors(v) /\ Reached(v)' = Reached(v)
  <2>1. Neighbors(v)' = Neighbors(v)
    BY DEF Neighbors
  <2>2. InitialLabel(v)' = InitialLabel(v)
    BY <2>1 DEF InitialLabel, INIT_WCC_ROOT_LG
  <2>3. Reached(v)' = Reached(v)
    BY DEF Reached, OfColor
  <2> QED
    BY <2>1, <2>2, <2>3
<1>3. ASSUME NEW v \in Colored, NEW l
      PROVE  May(v, l)' <=> May(v, l)
  <2>1. v \in Node /\ \A x \in Reached(v) : x \in Node
    BY ReachedFacts DEF Colored
  <2> QED
    BY <1>2, <2>1 DEF May
<1> QED
  BY <1>1, <1>2, <1>3

\* The labels of the nodes are numbers.
LEMMA LabelsAreNumbers ==
  ASSUME LabelsOK
  PROVE  \A v \in Colored : G_WCC[v] \in Int /\ G_WCC[v] <= InitialLabel(v)
BY MayRoot DEF LabelsOK

\* A step of a round leaves alone what is said of the end.
Round == phase \in {"hook", "shortcut"}
RoundStep ==
  /\ phase' = phase /\ E' = E /\ G_Color' = G_Color /\ G_SCC' = G_SCC
  /\ the_color' = the_color /\ the_colors' = the_colors
  /\ pool_cnt' = pool_cnt /\ works' = works

\* While the rounds last, nothing is said of colours, sets and items but that none is taken.
LEMMA RoundKeeps ==
  ASSUME WccInv, Round, RoundStep
  PROVE  InColor' /\ After' /\ PoolOK' /\ Fresh'
<1>1. InColor' /\ After'
  BY DEF Round, RoundStep, InColor, After
<1>2. PoolOK'
  BY DEF WccInv, PoolOK, Round, RoundStep
<1>3. Fresh'
  BY DEF WccInv, Fresh, Chunks, InUse, RoundStep, used, max
<1> QED
  BY <1>1, <1>2, <1>3

\* A thread that stays, while the labels stay or a smaller one is found.
LEMMA ThreadStays ==
  ASSUME WccInv, Round, RoundStep, NEW u \in Thread, th'[u] = th[u],
         finished' => finished /\ G_WCC' = G_WCC
  PROVE  ThreadHolds(u)'
<1> DEFINE r == th[u]
<1>1. ThreadHolds(u)
  BY DEF WccInv
<1>2. CASE Free(u)
  BY <1>2 DEF ThreadHolds, Free
<1>3. CASE r.pc = "hook" /\ Hooking(u)
  <2>1. r.n \in Colored /\ r.n \in Node /\ May(r.n, r.min_val) /\ phase = "hook" /\ r.left \subseteq Neighbors(r.n)
    BY <1>3 DEF Hooking, Colored
  <2>2. r.n \in Colored' /\ May(r.n, r.min_val)' /\ Neighbors(r.n)' = Neighbors(r.n)
    BY <2>1, SameGraph DEF RoundStep
  <2>3. finished' =>
           /\ r.min_val = G_WCC'[r.n]
           /\ \A k \in Neighbors(r.n) \ r.left : G_Color'[k] = G_Color'[r.n] => G_WCC'[r.n] <= G_WCC'[k]
    BY <1>3 DEF Hooking, RoundStep
  <2>4. Hooking(u)'
    BY <2>1, <2>2, <2>3 DEF Hooking, RoundStep
  <2> QED
    BY <1>3, <2>4 DEF ThreadHolds
<1>4. CASE r.pc = "shortcut" /\ phase = "shortcut" /\ r.n \in Colored
  BY <1>4, SameGraph DEF ThreadHolds, RoundStep
<1> QED
  BY <1>1, <1>2, <1>3, <1>4 DEF ThreadHolds

\* Whether a node is settled, and whether the label of its root has changed, stays while
\* the labels do.
LEMMA SettledStays ==
  ASSUME RoundStep, G_WCC' = G_WCC, NEW v \in Colored
  PROVE  /\ Settled(v)' <=> Settled(v)
         /\ RootChanged(v)' <=> RootChanged(v)
<1>1. Neighbors(v)' = Neighbors(v)
  BY SameGraph DEF Colored, RoundStep
<1> QED
  BY <1>1 DEF Settled, RootChanged, GET_WCC_ROOT, RoundStep

\* One label changes, to one its node may have.
LEMMA LabelsStay ==
  ASSUME LabelsOK, RoundStep, NEW v, \A w \in Colored : w # v => G_WCC'[w] = G_WCC[w],
         v \in Colored => May(v, G_WCC'[v])
  PROVE  LabelsOK'
BY SameGraph DEF LabelsOK, RoundStep

\* A thread takes a node, and its label as the smallest so far.
LEMMA HookBeginStep ==
  ASSUME WccInv, NEW t \in Thread, HookBegin(t)
  PROVE  WccInv'
<1>1. PICK n \in todo : /\ todo' = todo \ {n}
                        /\ th' = [th EXCEPT ![t] = [pc |-> "hook", n |-> n, min_val |-> G_WCC[n],
                                                    left |-> Neighbors(n)]]
  BY DEF HookBegin
<1>2. /\ phase = "hook" /\ Round /\ RoundStep /\ G_WCC' = G_WCC /\ finished' = finished /\ Free(t)
  BY DEF HookBegin, Round, RoundStep, colorVars
<1>3. n \in Colored /\ n \in Node /\ LabelsOK /\ May(n, G_WCC[n]) /\ G_WCC[n] \in Int
  BY <1>2, LabelsAreNumbers DEF WccInv, Typed, InHook, LabelsOK, Colored
<1>4. InColor' /\ After' /\ PoolOK' /\ Fresh'
  BY <1>2, RoundKeeps
<1>5. th \in [Thread -> Locals] /\ th' \in [Thread -> Locals]
  <2>1. [pc |-> "hook", n |-> n, min_val |-> G_WCC[n], left |-> Neighbors(n)] \in Locals
    BY <1>3 DEF Locals, Neighbors
  <2> QED
    BY <1>1, <2>1 DEF WccInv, Typed
<1>6. Typed'
  BY <1>1, <1>2, <1>5, SameGraph DEF WccInv, Typed, RoundStep
<1>7. /\ th'[t].pc = "hook" /\ th'[t].n = n /\ th'[t].min_val = G_WCC[n] /\ th'[t].left = Neighbors(n)
      /\ \A u \in Thread : u # t => th'[u] = th[u]
  BY <1>1, <1>5
<1>8. ASSUME NEW u \in Thread PROVE ThreadHolds(u)'
  <2>1. CASE u # t
    BY <1>2, <1>7, <2>1, ThreadStays
  <2>2. CASE u = t
    <3>0. PICK l : l = G_WCC[n]
      OBVIOUS
    <3>1. n \in Colored' /\ May(n, l)' /\ Neighbors(n)' = Neighbors(n)
      BY <1>2, <1>3, <3>0, SameGraph DEF RoundStep
    <3>2. Hooking(t)'
      BY <1>2, <1>7, <3>0, <3>1 DEF Hooking, RoundStep
    <3> QED
      BY <1>7, <2>2, <3>2 DEF ThreadHolds
  <2> QED
    BY <2>1, <2>2
<1>9. InHook'
  <2>1. LabelsOK'
    BY <1>2, <1>3, LabelsStay DEF LabelsOK
  <2>2. ASSUME NEW v \in Colored, finished PROVE v \in todo' \/ At(v, "hook")' \/ Settled(v)'
    <3>1. v \in todo \/ At(v, "hook") \/ Settled(v)
      BY <1>2, <2>2 DEF WccInv, InHook
    <3>2. CASE v = n
      BY <1>7, <3>2 DEF At
    <3>3. CASE v # n /\ v \in todo
      BY <1>1, <3>3
    <3>4. CASE At(v, "hook")
      <4>1. PICK u \in Thread : th[u].pc = "hook" /\ th[u].n = v
        BY <3>4 DEF At
      <4>2. u # t
        BY <1>2, <4>1 DEF Free
      <4> QED
        BY <1>7, <4>1, <4>2 DEF At
    <3>5. CASE Settled(v)
      BY <1>2, <3>5, SettledStays
    <3> QED
      BY <3>1, <3>2, <3>3, <3>4, <3>5
  <2> QED
    BY <1>2, <2>1, <2>2, SameGraph DEF InHook, RoundStep
<1>10. InShortcut'
  BY <1>2 DEF InShortcut, RoundStep
<1> QED
  BY <1>4, <1>6, <1>8, <1>9, <1>10 DEF WccInv

\* What holds of the threads and nodes that a thread does not touch.
LEMMA AtStays ==
  ASSUME NEW t \in Thread, \A u \in Thread : u # t => th'[u] = th[u],
         NEW v, NEW p, At(v, p), ~(th[t].pc = p /\ th[t].n = v)
  PROVE  At(v, p)'
BY DEF At

\* A neighbour of the same colour with a smaller label is found, and the label taken.
LEMMA HookReadStep ==
  ASSUME WccInv, NEW t \in Thread, HookRead(t)
  PROVE  WccInv'
<1> DEFINE r == th[t]
<1>0. PICK n : n = r.n
  OBVIOUS
<1>1. PICK k \in r.left :
        /\ th' = [th EXCEPT ![t].left = @ \ {k},
                            ![t].min_val = IF Smaller(t, k) THEN G_WCC[k] ELSE @]
        /\ finished' = (finished /\ ~Smaller(t, k))
  BY DEF HookRead
<1>2. r.pc = "hook" /\ Hooking(t) /\ phase = "hook" /\ n \in Colored
  BY <1>0 DEF HookRead, WccInv, ThreadHolds, Free, Hooking
<1>3. Round /\ RoundStep /\ G_WCC' = G_WCC /\ todo' = todo
  BY <1>2 DEF HookRead, Round, RoundStep, colorVars
<1>4. /\ LabelsOK /\ n \in Node /\ k \in Node /\ k \in Neighbors(n)
      /\ May(n, r.min_val) /\ r.left \subseteq Neighbors(n)
      /\ th \in [Thread -> Locals] /\ r \in Locals
  BY <1>0, <1>2 DEF WccInv, Typed, InHook, Hooking, Colored, Neighbors
<1>5. InColor' /\ After' /\ PoolOK' /\ Fresh'
  BY <1>3, RoundKeeps
<1>6. PICK l : l = IF Smaller(t, k) THEN G_WCC[k] ELSE r.min_val
  OBVIOUS
<1>7. l \in Int /\ May(n, l)
  <2>1. CASE ~Smaller(t, k)
    BY <1>2, <1>4, <1>6, <2>1, MayRoot
  <2>2. CASE Smaller(t, k)
    <3>1. G_Color[k] = G_Color[n] /\ G_WCC[k] < r.min_val
      BY <1>0, <2>2 DEF Smaller
    <3>2. k \in Colored /\ k \in Reached(n)
      BY <1>2, <1>4, <3>1, ReachedFacts DEF Colored
    <3>3. May(k, G_WCC[k]) /\ G_WCC[k] \in Int
      BY <1>4, <3>2, LabelsAreNumbers DEF LabelsOK
    <3>4. r.min_val \in Int /\ r.min_val <= InitialLabel(n) /\ InitialLabel(n) \in Int
      BY <1>2, <1>4, MayRoot, LabelRoot
    <3>5. G_WCC[k] <= InitialLabel(n)
      BY <3>1, <3>3, <3>4
    <3> QED
      BY <1>2, <1>6, <2>2, <3>2, <3>3, <3>5, MayPass
  <2> QED
    BY <2>1, <2>2
<1>8. /\ th' \in [Thread -> Locals]
      /\ th'[t].pc = "hook" /\ th'[t].n = n /\ th'[t].min_val = l /\ th'[t].left = r.left \ {k}
      /\ \A u \in Thread : u # t => th'[u] = th[u]
  <2>1. /\ th'[t].pc = r.pc /\ th'[t].n = r.n /\ th'[t].left = r.left \ {k}
        /\ \A u \in Thread : u # t => th'[u] = th[u]
    BY <1>1, <1>4 DEF Locals
  <2>2. th'[t].min_val = l
    BY <1>1, <1>4, <1>6 DEF Locals
  <2>3. th' \in [Thread -> Locals]
    BY <1>1, <1>4, <1>6, <1>7 DEF Locals
  <2> QED
    BY <1>0, <1>2, <2>1, <2>2, <2>3
<1>9. Typed'
  BY <1>1, <1>3, <1>8, SameGraph DEF WccInv, Typed, RoundStep
<1>10. ASSUME NEW u \in Thread PROVE ThreadHolds(u)'
  <2>1. CASE u # t
    BY <1>1, <1>3, <1>8, <2>1, ThreadStays
  <2>2. CASE u = t
    <3>1. n \in Colored' /\ May(n, l)' /\ Neighbors(n)' = Neighbors(n)
      BY <1>2, <1>3, <1>4, <1>7, SameGraph DEF RoundStep
    <3>2. ASSUME finished'
          PROVE  /\ l = G_WCC[n]
                 /\ \A x \in Neighbors(n) \ (r.left \ {k}) :
                      G_Color[x] = G_Color[n] => G_WCC[n] <= G_WCC[x]
      <4>1. finished /\ ~Smaller(t, k) /\ l = r.min_val
        BY <1>1, <1>6, <3>2
      <4>2. l = G_WCC[n]
        BY <1>0, <1>2, <4>1 DEF Hooking
      <4>3. ASSUME G_Color[k] = G_Color[n] PROVE G_WCC[n] <= G_WCC[k]
        <5>1. k \in Colored
          BY <1>2, <1>4, <4>3 DEF Colored
        <5>2. G_WCC[k] \in Int /\ G_WCC[n] \in Int
          BY <1>2, <1>4, <5>1, LabelsAreNumbers
        <5> QED
          BY <1>0, <4>1, <4>2, <4>3, <5>2 DEF Smaller
      <4> QED
        BY <1>0, <1>2, <4>1, <4>2, <4>3 DEF Hooking
    <3>3. Hooking(t)'
      <4> HIDE DEF r
      <4> QED
        BY <1>2, <1>3, <1>4, <1>8, <3>1, <3>2 DEF Hooking, RoundStep
    <3> QED
      BY <1>8, <2>2, <3>3 DEF ThreadHolds
  <2> QED
    BY <2>1, <2>2
<1>11. InHook'
  <2>1. LabelsOK'
    BY <1>3, <1>4, LabelsStay DEF LabelsOK
  <2>2. ASSUME NEW v \in Colored, finished' PROVE v \in todo' \/ At(v, "hook")' \/ Settled(v)'
    <3>1. v \in todo \/ At(v, "hook") \/ Settled(v)
      BY <1>1, <1>2, <2>2 DEF WccInv, InHook
    <3>2. CASE At(v, "hook")
      <4>1. PICK u \in Thread : th[u].pc = "hook" /\ th[u].n = v
        BY <3>2 DEF At
      <4>2. At(v, "hook")'
        BY <1>0, <1>8, <4>1 DEF At
      <4> QED
        BY <4>2
    <3>3. CASE Settled(v)
      BY <1>3, <3>3, SettledStays
    <3> QED
      BY <1>3, <3>1, <3>2, <3>3
  <2> QED
    BY <1>3, <2>1, <2>2, SameGraph DEF InHook, RoundStep
<1>12. InShortcut'
  BY <1>2, <1>3 DEF InShortcut, RoundStep
<1> QED
  BY <1>5, <1>9, <1>10, <1>11, <1>12 DEF WccInv

\* The label of the node is written: it is the old one, if no thread has found a smaller one.
LEMMA HookEndStep ==
  ASSUME WccInv, NEW t \in Thread, HookEnd(t)
  PROVE  WccInv'
<1> DEFINE n == th[t].n
<1>1. /\ th[t].pc = "hook" /\ th[t].left = {}
      /\ G_WCC' = [G_WCC EXCEPT ![n] = th[t].min_val]
      /\ th' = [th EXCEPT ![t] = Idle]
  BY DEF HookEnd
<1>2. Hooking(t) /\ phase = "hook" /\ n \in Colored /\ n \in Node /\ May(n, th[t].min_val)
  BY <1>1 DEF WccInv, ThreadHolds, Free, Hooking, Colored
<1>3. Round /\ RoundStep /\ todo' = todo /\ finished' = finished
  BY <1>2 DEF HookEnd, Round, RoundStep, colorVars
<1>4. LabelsOK /\ th \in [Thread -> Locals] /\ DOMAIN G_WCC = Node /\ G_WCC = [v \in Node |-> G_WCC[v]]
  BY <1>2 DEF WccInv, Typed, InHook
<1> HIDE DEF n
<1>5. /\ G_WCC'[n] = th[t].min_val /\ DOMAIN G_WCC' = Node /\ G_WCC' = [v \in Node |-> G_WCC'[v]]
      /\ \A v \in Node : v # n => G_WCC'[v] = G_WCC[v]
  BY <1>1, <1>2, <1>4
<1>6. finished => G_WCC' = G_WCC
  <2> SUFFICES ASSUME finished PROVE G_WCC' = G_WCC
    OBVIOUS
  <2>1. th[t].min_val = G_WCC[n]
    BY <1>2 DEF Hooking, n
  <2> QED
    BY <1>1, <1>2, <1>4, <2>1
<1>7. InColor' /\ After' /\ PoolOK' /\ Fresh'
  BY <1>3, RoundKeeps
<1>8. /\ th' \in [Thread -> Locals] /\ th'[t] = Idle
      /\ \A u \in Thread : u # t => th'[u] = th[u]
  BY <1>1, <1>4 DEF Idle, Locals
<1>9. Typed'
  BY <1>3, <1>5, <1>8, SameGraph DEF WccInv, Typed, RoundStep
<1>10. ASSUME NEW u \in Thread PROVE ThreadHolds(u)'
  <2>1. CASE u # t
    BY <1>3, <1>6, <1>8, <2>1, ThreadStays
  <2>2. CASE u = t
    BY <1>8, <2>2 DEF ThreadHolds, Free, Idle
  <2> QED
    BY <2>1, <2>2
<1>11. InHook'
  <2>1. LabelsOK'
    BY <1>2, <1>3, <1>4, <1>5, LabelsStay DEF Colored
  <2>2. ASSUME NEW v \in Colored, finished' PROVE v \in todo' \/ At(v, "hook")' \/ Settled(v)'
    <3>0. G_WCC' = G_WCC
      BY <1>3, <1>6, <2>2
    <3>1. v \in todo \/ At(v, "hook") \/ Settled(v)
      BY <1>2, <1>3, <2>2 DEF WccInv, InHook
    <3>2. CASE v = n
      <4>1. Settled(v)
        BY <1>1, <1>2, <1>3, <2>2, <3>2 DEF Hooking, Settled, n
      <4> QED
        BY <1>3, <3>0, <4>1, SettledStays
    <3>3. CASE v # n /\ At(v, "hook")
      <4>1. At(v, "hook")'
        BY <1>8, <3>3, AtStays DEF n
      <4> QED
        BY <4>1
    <3>4. CASE Settled(v)
      BY <1>3, <3>0, <3>4, SettledStays
    <3> QED
      BY <1>3, <3>1, <3>2, <3>3, <3>4
  <2> QED
    BY <1>3, <2>1, <2>2, SameGraph DEF InHook, RoundStep
<1>12. InShortcut'
  BY <1>2, <1>3 DEF InShortcut, RoundStep
<1> QED
  BY <1>7, <1>9, <1>10, <1>11, <1>12 DEF WccInv

\* A node whose root has another label now is to copy it.
LEMMA ShortcutTestStep ==
  ASSUME WccInv, NEW t \in Thread, ShortcutTest(t)
  PROVE  WccInv'
<1>1. PICK n \in todo :
        /\ todo' = todo \ {n}
        /\ th' = [th EXCEPT ![t] = IF RootChanged(n) THEN [Idle EXCEPT !.pc = "shortcut", !.n = n]
                                   ELSE Idle]
  BY DEF ShortcutTest
<1>2. /\ phase = "shortcut" /\ Round /\ RoundStep /\ G_WCC' = G_WCC /\ finished' = finished /\ Free(t)
  BY DEF ShortcutTest, Round, RoundStep, colorVars
<1>3. n \in Colored /\ n \in Node /\ LabelsOK /\ th \in [Thread -> Locals]
  BY <1>2 DEF WccInv, Typed, InShortcut, Colored
<1>4. InColor' /\ After' /\ PoolOK' /\ Fresh'
  BY <1>2, RoundKeeps
<1>5. PICK i \in Locals : /\ i = [Idle EXCEPT !.pc = "shortcut", !.n = n]
                         /\ i.pc = "shortcut" /\ i.n = n
  <2> DEFINE i == [Idle EXCEPT !.pc = "shortcut", !.n = n]
  <2>1. Idle \in Locals
    BY DEF Idle, Locals
  <2>2. i \in Locals /\ i.pc = "shortcut" /\ i.n = n
    BY <1>3, <2>1 DEF Locals
  <2> HIDE DEF i
  <2> QED
    BY <2>2 DEF i
<1>6. /\ th' \in [Thread -> Locals]
      /\ \A u \in Thread : u # t => th'[u] = th[u]
      /\ IF RootChanged(n) THEN th'[t].pc = "shortcut" /\ th'[t].n = n ELSE th'[t].pc = "loop"
  BY <1>1, <1>3, <1>5 DEF Locals, Idle
<1>7. Typed'
  BY <1>1, <1>2, <1>6, SameGraph DEF WccInv, Typed, RoundStep
<1>8. ASSUME NEW u \in Thread PROVE ThreadHolds(u)'
  <2>1. CASE u # t
    BY <1>2, <1>6, <2>1, ThreadStays
  <2>2. CASE u = t
    BY <1>2, <1>3, <1>6, <2>2, SameGraph DEF ThreadHolds, Free, RoundStep
  <2> QED
    BY <2>1, <2>2
<1>9. InShortcut'
  <2>1. LabelsOK'
    BY <1>2, <1>3, LabelsStay DEF LabelsOK
  <2>2. ASSUME NEW v \in Colored, finished
        PROVE  Settled(v)' /\ (v \in todo' \/ At(v, "shortcut")' \/ ~RootChanged(v)')
    <3>1. Settled(v) /\ (v \in todo \/ At(v, "shortcut") \/ ~RootChanged(v))
      BY <1>2, <2>2 DEF WccInv, InShortcut
    <3>2. Settled(v)' /\ (RootChanged(v)' <=> RootChanged(v))
      BY <1>2, <3>1, SettledStays
    <3>3. CASE v = n
      BY <1>6, <3>2, <3>3 DEF At
    <3>4. CASE v # n /\ At(v, "shortcut")
      <4>1. At(v, "shortcut")'
        BY <1>2, <1>6, <3>4, AtStays DEF Free
      <4> QED
        BY <3>2, <4>1
    <3> QED
      BY <1>1, <3>1, <3>2, <3>3, <3>4
  <2> QED
    BY <1>2, <2>1, <2>2, SameGraph DEF InShortcut, RoundStep
<1>10. InHook'
  BY <1>2 DEF InHook, RoundStep
<1> QED
  BY <1>4, <1>7, <1>8, <1>9, <1>10 DEF WccInv

\* The label of the root is copied, whatever it is by then: the node reaches its root.
LEMMA ShortcutStep ==
  ASSUME WccInv, NEW t \in Thread, Shortcut(t)
  PROVE  WccInv'
<1> DEFINE n == th[t].n
           x == GET_WCC_ROOT(n)
<1>1. /\ th[t].pc = "shortcut" /\ th' = [th EXCEPT ![t] = Idle]
      /\ G_WCC' = [G_WCC EXCEPT ![n] = G_WCC[x]] /\ finished' = FALSE
  BY DEF Shortcut
<1>2. phase = "shortcut" /\ n \in Colored /\ n \in Node
  BY <1>1 DEF WccInv, ThreadHolds, Free, Colored
<1>3. Round /\ RoundStep /\ todo' = todo
  BY <1>2 DEF Shortcut, Round, RoundStep, colorVars
<1>4. LabelsOK /\ th \in [Thread -> Locals] /\ DOMAIN G_WCC = Node /\ G_WCC = [v \in Node |-> G_WCC[v]]
  BY <1>2 DEF WccInv, Typed, InShortcut
<1>5. /\ x \in Reached(n) /\ x \in Colored /\ x \in Node /\ G_WCC[n] = InitialLabel(x)
      /\ G_WCC[n] <= InitialLabel(n) /\ G_WCC[n] \in Int
  <2>1. x = G_WCC[n] % FLAG
    BY DEF GET_WCC_ROOT
  <2> HIDE DEF x, n
  <2> QED
    BY <1>2, <1>4, <2>1, MayRoot DEF LabelsOK, Colored
<1> HIDE DEF x, n
<1>6. May(n, G_WCC[x])
  <2>1. May(x, G_WCC[x]) /\ G_WCC[x] \in Int /\ G_WCC[x] <= InitialLabel(x) /\ InitialLabel(n) \in Int
    BY <1>2, <1>4, <1>5, LabelsAreNumbers, LabelRoot DEF LabelsOK
  <2>2. G_WCC[x] <= InitialLabel(n)
    BY <1>5, <2>1
  <2> QED
    BY <1>2, <1>5, <2>1, <2>2, MayPass
<1>7. /\ G_WCC'[n] = G_WCC[x] /\ DOMAIN G_WCC' = Node /\ G_WCC' = [v \in Node |-> G_WCC'[v]]
      /\ \A v \in Node : v # n => G_WCC'[v] = G_WCC[v]
  BY <1>1, <1>2, <1>4
<1>8. InColor' /\ After' /\ PoolOK' /\ Fresh'
  BY <1>3, RoundKeeps
<1>9. /\ th' \in [Thread -> Locals] /\ th'[t] = Idle
      /\ \A u \in Thread : u # t => th'[u] = th[u]
  BY <1>1, <1>4 DEF Idle, Locals
<1>10. Typed'
  BY <1>1, <1>3, <1>7, <1>9, SameGraph DEF WccInv, Typed, RoundStep
<1>11. ASSUME NEW u \in Thread PROVE ThreadHolds(u)'
  <2>1. CASE u # t
    BY <1>1, <1>3, <1>9, <2>1, ThreadStays
  <2>2. CASE u = t
    BY <1>9, <2>2 DEF ThreadHolds, Free, Idle
  <2> QED
    BY <2>1, <2>2
<1>12. InShortcut'
  <2>1. LabelsOK'
    BY <1>2, <1>3, <1>4, <1>6, <1>7, LabelsStay DEF Colored
  <2> QED
    BY <1>1, <2>1 DEF InShortcut
<1>13. InHook'
  BY <1>2, <1>3 DEF InHook, RoundStep
<1> QED
  BY <1>8, <1>10, <1>11, <1>12, <1>13 DEF WccInv

-----------------------------------------------------------------------------
(* The colours of the roots and the sets of the pool.                      *)

\* The next colour of a thread is in use nowhere.
LEMMA NextIsFresh ==
  ASSUME Chunks, NEW t \in Thread
  PROVE  /\ NewColor(t) \in Int /\ NewColor(t) >= 0
         /\ ~InUse(NewColor(t))
<1>1. /\ the_color \in Int /\ used(t) \in Int /\ max(t) \in Int
      /\ the_color >= -1 /\ -1 <= used(t) /\ used(t) <= max(t)
  BY DEF Chunks, used, max
<1>2. CASE Exhausted(t)
  <2>1. NewColor(t) = the_color + 1
    BY <1>2 DEF NewColor
  <2> QED
    BY <1>1, <2>1 DEF InUse
<1>3. CASE ~Exhausted(t)
  <2>1. NewColor(t) = used(t) + 1
    BY <1>3 DEF NewColor, used
  <2>2. used(t) < max(t)
    BY <1>1, <1>3 DEF Exhausted, used, max
  <2>3. used(t) < NewColor(t) /\ NewColor(t) <= max(t)
    BY <1>1, <2>1, <2>2
  <2> QED
    BY <1>1, <2>1, <2>3 DEF InUse
<1> QED
  BY <1>2, <1>3

\* get_new_color keeps the chunks apart, and what is in use out of what is left of them.
LEMMA NewColorStep ==
  ASSUME Chunks, NEW t \in Thread, get_new_color(t)
  PROVE  /\ Chunks'
         /\ \A c \in Int : c = NewColor(t) \/ InUse(c) => InUse(c)'
<1>10. PICK n : n = NewColor(t)
  OBVIOUS
<1>0. COLOR_CHUNK \in Nat /\ COLOR_CHUNK >= 1
  BY ColorsAssumption
<1>1. n \in Int /\ n >= 0 /\ ~InUse(n)
  BY <1>10, NextIsFresh
<1>2. /\ the_color \in Int
      /\ the_colors \in [Thread -> [used : Int, max : Int]]
  BY DEF Chunks
<1>3. /\ \A u \in Thread : used(u) \in Int /\ max(u) \in Int
      /\ \A u \in Thread : -1 <= used(u) /\ used(u) <= max(u) /\ max(u) <= the_color
      /\ the_color >= -1
  BY DEF Chunks, used, max
\* the two branches: where the colour lies, and what is left of the chunk
<1>4. /\ the_color' \in Int /\ the_color' >= the_color
      /\ the_colors' \in [Thread -> [used : Int, max : Int]]
      /\ used(t)' = n
      /\ n <= max(t)' /\ max(t)' <= the_color'
      /\ \A u \in Thread : u # t => used(u)' = used(u) /\ max(u)' = max(u)
      /\ \/ n > the_color
         \/ /\ n = used(t) + 1 /\ used(t) < max(t)
            /\ max(t)' = max(t)
  <2>1. CASE Exhausted(t)
    <3>1. /\ the_color' = the_color + COLOR_CHUNK
          /\ the_colors' = [the_colors EXCEPT ![t] = [used |-> the_color' - COLOR_CHUNK + 1,
                                                      max |-> the_color']]
      BY <2>1 DEF get_new_color
    <3>2. n = the_color + 1
      BY <1>10, <2>1 DEF NewColor
    <3>3. the_color' \in Int /\ the_color' - COLOR_CHUNK + 1 = n
      BY <3>1, <3>2, <1>0, <1>2
    <3>4. the_colors' = [the_colors EXCEPT ![t] = [used |-> n, max |-> the_color']]
      BY <3>1, <3>3
    <3> QED
      BY <3>1, <3>2, <3>3, <3>4, <1>0, <1>1, <1>2 DEF used, max
  <2>2. CASE ~Exhausted(t)
    <3>1. /\ the_color' = the_color
          /\ the_colors' = [the_colors EXCEPT ![t].used = @ + 1]
      BY <2>2 DEF get_new_color
    <3>2. n = used(t) + 1
      BY <1>10, <2>2 DEF NewColor, used
    <3>3. used(t) <= max(t) /\ max(t) <= the_color /\ used(t) # max(t)
      BY <1>3, <2>2 DEF Exhausted, used, max
    <3>4. /\ the_colors' \in [Thread -> [used : Int, max : Int]]
          /\ used(t)' = used(t) + 1 /\ max(t)' = max(t)
          /\ \A u \in Thread : u # t => used(u)' = used(u) /\ max(u)' = max(u)
      BY <3>1, <1>2 DEF used, max
    <3> QED
      BY <3>1, <3>2, <3>3, <3>4, <1>1, <1>2, <1>3
  <2> QED
    BY <2>1, <2>2
<1>5. used(t)' \in Int /\ max(t)' \in Int
  BY <1>4 DEF used, max
\* what n lies above, of the chunk of another thread
<1>6. ASSUME NEW u \in Thread, u # t
      PROVE  max(u) < n \/ (max(t)' <= used(u) /\ n <= used(u))
  <2>1. max(t) <= used(u) \/ max(u) <= used(t)
    BY <1>6 DEF Chunks
  <2> QED
    BY <1>1, <1>2, <1>3, <1>4, <1>5, <1>6, <2>1
<1>7. Chunks'
  <2>1. ASSUME NEW u \in Thread
        PROVE  -1 <= used(u)' /\ used(u)' <= max(u)' /\ max(u)' <= the_color'
    <3>1. CASE u = t
      BY <1>1, <1>4, <3>1
    <3>2. CASE u # t
      BY <1>2, <1>3, <1>4, <3>2
    <3> QED
      BY <3>1, <3>2
  <2>2. ASSUME NEW u \in Thread, u # t
        PROVE  max(t)' <= used(u)' \/ max(u)' <= used(t)'
    BY <2>2, <1>1, <1>3, <1>4, <1>6
  <2>3. ASSUME NEW u \in Thread, NEW v \in Thread, u # v, u # t, v # t
        PROVE  max(u)' <= used(v)' \/ max(v)' <= used(u)'
    <3>1. max(u) <= used(v) \/ max(v) <= used(u)
      BY <2>3 DEF Chunks
    <3> QED
      BY <1>4, <2>3, <3>1
  <2>4. the_color' >= -1
    BY <1>2, <1>3, <1>4
  <2>5. \A u, v \in Thread : u # v => max(u)' <= used(v)' \/ max(v)' <= used(u)'
    BY <2>2, <2>3
  <2> QED
    BY <1>4, <2>1, <2>4, <2>5 DEF Chunks, used, max
<1>8. InUse(n)'
  <2>1. n <= the_color'
    BY <1>1, <1>4, <1>5
  <2>2. ASSUME NEW u \in Thread PROVE ~(used(u)' < n /\ n <= max(u)')
    <3>1. CASE u = t
      BY <1>1, <1>4, <3>1
    <3>2. CASE u # t
      BY <1>1, <1>3, <1>4, <1>6, <3>2
    <3> QED
      BY <3>1, <3>2
  <2> QED
    BY <2>1, <2>2 DEF InUse, used, max
<1>9. ASSUME NEW c \in Int, InUse(c) PROVE InUse(c)'
  <2>1. c <= the_color /\ \A u \in Thread : ~(used(u) < c /\ c <= max(u))
    BY <1>9 DEF InUse
  <2>2. c <= the_color'
    BY <1>2, <1>4, <2>1
  <2>3. ASSUME NEW u \in Thread PROVE ~(used(u)' < c /\ c <= max(u)')
    <3>1. CASE u = t
      BY <1>1, <1>2, <1>3, <1>4, <1>5, <2>1, <3>1
    <3>2. CASE u # t
      BY <1>4, <2>1, <3>2
    <3> QED
      BY <3>1, <3>2
  <2> QED
    BY <2>2, <2>3 DEF InUse, used, max
<1> QED
  BY <1>10, <1>7, <1>8, <1>9

\* When a loop is not one of the rounds, no thread holds a node.
LEMMA AllFree ==
  ASSUME WccInv, phase \notin {"hook", "shortcut"}, NEW u \in Thread
  PROVE  Free(u)
BY DEF WccInv, ThreadHolds, Hooking

\* A root takes a new colour, with all nodes that have its label.
LEMMA RootColored ==
  ASSUME WccInv, phase = "color", NEW t \in Thread, NEW v \in Colored, IsRoot(v),
         G_Color' = [G_Color EXCEPT ![v] = NewColor(t)], G_WCC' = G_WCC, phase' = phase
  PROVE  /\ Colored' = Colored
         /\ G_Color' \in [Node -> Int] /\ G_Color'[v] = NewColor(t)
         /\ \A w \in Node : w # v => G_Color'[w] = G_Color[w]
         /\ \A w \in Node : NewColor(t) # G_Color[w]
         /\ \A w \in Colored : /\ GET_WCC_ROOT(w) \in Node
                               /\ ColorOf(w) = G_Color[GET_WCC_ROOT(w)]
                               /\ ColorOf(w)' = IF GET_WCC_ROOT(w) = v THEN NewColor(t) ELSE ColorOf(w)
<1>1. G_Color \in [Node -> Int] /\ v \in Node /\ Rooted /\ Chunks
  BY DEF WccInv, Typed, InColor, Fresh, Colored
<1>2. NewColor(t) \in Int /\ NewColor(t) >= 0 /\ \A w \in Node : NewColor(t) # G_Color[w]
  BY <1>1, NextIsFresh DEF WccInv, Fresh
<1>3. /\ G_Color' \in [Node -> Int] /\ G_Color'[v] = NewColor(t)
      /\ \A w \in Node : w # v => G_Color'[w] = G_Color[w]
  BY <1>1, <1>2
<1>4. Colored' = Colored
  <2>1. ASSUME NEW w \in Node PROVE G_Color'[w] # -2 <=> G_Color[w] # -2
    <3>1. CASE w = v
      BY <1>2, <1>3, <3>1 DEF Colored
    <3>2. CASE w # v
      BY <1>3, <3>2
    <3> QED
      BY <3>1, <3>2
  <2> QED
    BY <2>1 DEF Colored
<1>5. ASSUME NEW w \in Colored
      PROVE  /\ GET_WCC_ROOT(w) \in Node
             /\ ColorOf(w) = G_Color[GET_WCC_ROOT(w)]
             /\ ColorOf(w)' = IF GET_WCC_ROOT(w) = v THEN NewColor(t) ELSE ColorOf(w)
  <2>1. GET_WCC_ROOT(w) \in Node
    BY <1>1, <1>5 DEF Rooted, Colored
  <2>2. ColorOf(w) = G_Color[GET_WCC_ROOT(w)]
    BY DEF ColorOf
  <2>3. ColorOf(w)' = G_Color'[GET_WCC_ROOT(w)]
    BY DEF ColorOf, GET_WCC_ROOT
  <2> QED
    BY <1>3, <2>1, <2>2, <2>3
<1> QED
  BY <1>2, <1>3, <1>4, <1>5

\* What roots are, and the labels of the nodes, stays while the graph and the labels do.
LEMMA RootsStay ==
  ASSUME E' = E, G_WCC' = G_WCC
  PROVE  \A v : IsRoot(v)' <=> IsRoot(v)
BY DEF IsRoot, GET_WCC_ROOT

\* The labels are left alone after the rounds.
LEMMA RootedStays ==
  ASSUME Rooted, E' = E, G_WCC' = G_WCC, Colored' = Colored
  PROVE  Rooted'
<1>1. \A v \in Node : InitialLabel(v)' = InitialLabel(v)
  <2>1. \A v \in Node : Neighbors(v)' = Neighbors(v)
    BY DEF Neighbors
  <2> QED
    BY <2>1 DEF InitialLabel, INIT_WCC_ROOT_LG
<1>2. ASSUME NEW v \in Colored
      PROVE  \E r \in Colored' : r = GET_WCC_ROOT(v)' /\ IsRoot(r)' /\ G_WCC'[v] = InitialLabel(r)'
  <2>1. PICK r \in Colored : r = GET_WCC_ROOT(v) /\ IsRoot(r) /\ G_WCC[v] = InitialLabel(r)
    BY <1>2 DEF Rooted
  <2>2. InitialLabel(r)' = InitialLabel(r)
    BY <1>1 DEF Colored
  <2> QED
    BY <2>1, <2>2, RootsStay DEF GET_WCC_ROOT
<1> QED
  BY <1>2 DEF Rooted

\* There are finitely many nodes.
LEMMA NodesFinite == IsFiniteSet(Node) /\ \A S \in SUBSET Node : IsFiniteSet(S) /\ Cardinality(S) \in Nat
<1>1. NNodes - 1 \in Int /\ 0 \in Int
  BY WccAssumption
<1>2. IsFiniteSet(Node)
  BY <1>1, FS_Interval DEF Node
<1> QED
  BY <1>2, FS_Subset, FS_CardinalityType

\* One of the loops over the roots: no root is handed out twice.
LEMMA ColorRootStep ==
  ASSUME WccInv, NEW t \in Thread, ColorRoot(t)
  PROVE  WccInv'
<1>1. PICK v \in todo :
        /\ todo' = todo \ {v}
        /\ IF IsRoot(v)
           THEN G_Color' = [G_Color EXCEPT ![v] = NewColor(t)] /\ get_new_color(t)
           ELSE UNCHANGED <<G_Color, colorVars>>
  BY DEF ColorRoot
<1>2. /\ phase = "color" /\ phase' = "color" /\ UNCHANGED <<E, G_SCC, G_WCC, finished, pool_cnt, works, th>>
  BY DEF ColorRoot
<1>3. v \in Colored /\ v \in Node /\ todo \subseteq Colored
  BY DEF WccInv, Typed, Colored
<1>4. Rooted /\ Ordered /\ RootsApart(todo) /\ Fresh /\ G_Color \in [Node -> Int]
  BY <1>2 DEF WccInv, InColor, Typed
<1>5. \A u \in Thread : ThreadHolds(u)'
  <2>1. \A u \in Thread : Free(u)
    BY <1>2, AllFree
  <2> QED
    BY <1>2, <2>1 DEF ThreadHolds, Free
<1>6. InHook' /\ InShortcut' /\ After'
  BY <1>2 DEF InHook, InShortcut, After
<1>7. PoolOK'
  BY <1>2 DEF WccInv, PoolOK
<1>8. CASE ~IsRoot(v)
  <2>1. G_Color' = G_Color /\ the_color' = the_color /\ the_colors' = the_colors
    BY <1>1, <1>8 DEF colorVars
  <2>2. Colored' = Colored
    BY <2>1 DEF Colored
  <2>3. Typed'
    BY <1>1, <1>2, <2>1, <2>2 DEF WccInv, Typed
  <2>4. Fresh'
    BY <1>4, <2>1 DEF Fresh, Chunks, InUse, used, max
  <2>5. Rooted'
    BY <1>2, <1>4, <2>2, RootedStays
  <2>6. Ordered'
    BY <1>2, <1>4, <2>1 DEF Ordered, ColorOf, Colored, Neighbors, GET_WCC_ROOT
  <2>7. RootsApart(todo)'
    BY <1>1, <1>2, <1>4, <1>8, <2>1, <2>2 DEF RootsApart, IsRoot, GET_WCC_ROOT
  <2>8. todo' # Colored'
    BY <1>1, <1>3, <2>2
  <2>9. InColor'
    BY <2>5, <2>6, <2>7, <2>8 DEF InColor
  <2> QED
    BY <1>5, <1>6, <1>7, <2>3, <2>4, <2>9 DEF WccInv
<1>9. CASE IsRoot(v)
  <2>1. G_Color' = [G_Color EXCEPT ![v] = NewColor(t)] /\ get_new_color(t)
    BY <1>1, <1>9
  <2>2. PICK c : c = NewColor(t)
    OBVIOUS
  <2>3. /\ Colored' = Colored
        /\ G_Color' \in [Node -> Int] /\ G_Color'[v] = c
        /\ \A w \in Node : w # v => G_Color'[w] = G_Color[w]
        /\ \A w \in Node : c # G_Color[w]
        /\ \A w \in Colored : /\ GET_WCC_ROOT(w) \in Node
                              /\ ColorOf(w) = G_Color[GET_WCC_ROOT(w)]
                              /\ ColorOf(w)' = IF GET_WCC_ROOT(w) = v THEN c ELSE ColorOf(w)
    BY <1>2, <1>3, <1>9, <2>1, <2>2, RootColored
  <2>4. Typed'
    <3>1. \A w \in Node : G_Color'[w] = -2 <=> G_SCC'[w] # NIL
      BY <1>2, <1>3, <2>3 DEF WccInv, Typed, Colored
    <3>2. todo' \subseteq Colored'
      BY <1>1, <1>3, <2>3
    <3> QED
      BY <1>2, <2>3, <3>1, <3>2 DEF WccInv, Typed
  <2>5. Fresh'
    <3>1. Chunks' /\ \A x \in Int : x = NewColor(t) \/ InUse(x) => InUse(x)'
      BY <1>4, <2>1, NewColorStep DEF Fresh
    <3>2. ASSUME NEW w \in Node PROVE InUse(G_Color[w])'
      <4>1. PICK x : x = G_Color'[w]
        OBVIOUS
      <4>2. x \in Int /\ (x = NewColor(t) \/ InUse(x))
        BY <1>4, <2>2, <2>3, <4>1 DEF Fresh
      <4>3. InUse(x)'
        BY <3>1, <4>2
      <4> QED
        BY <4>1, <4>3 DEF InUse
    <3> QED
      BY <3>1, <3>2 DEF Fresh
  <2>6. Rooted'
    BY <1>2, <1>4, <2>3, RootedStays
  <2>7. Ordered'
    <3> SUFFICES ASSUME NEW w \in Colored, NEW x \in Neighbors(w), x \in Colored, ColorOf(w)' = ColorOf(x)'
                 PROVE  G_WCC[w] <= G_WCC[x]
      BY <1>2, <2>3 DEF Ordered, Neighbors
    <3>1. ColorOf(w) = ColorOf(x)
      <4>1. ColorOf(w) # c /\ ColorOf(x) # c
        BY <2>3
      <4>2. GET_WCC_ROOT(w) = v <=> GET_WCC_ROOT(x) = v
        BY <2>3, <4>1
      <4> QED
        BY <2>3, <4>2
    <3> QED
      BY <1>4, <3>1 DEF Ordered
  <2>8. RootsApart(todo)'
    <3> SUFFICES ASSUME NEW w \in Colored, NEW x \in Colored, IsRoot(w), IsRoot(x), w # x,
                        w \notin todo', x \notin todo'
                 PROVE  G_Color'[w] # G_Color'[x]
      BY <1>2, <2>3, RootsStay DEF RootsApart
    <3>1. w \in Node /\ x \in Node
      BY DEF Colored
    <3>2. CASE w = v
      BY <2>3, <3>1, <3>2
    <3>3. CASE x = v
      BY <2>3, <3>1, <3>3
    <3>4. CASE w # v /\ x # v
      <4>1. w \notin todo /\ x \notin todo
        BY <1>1, <3>4
      <4> QED
        BY <1>4, <2>3, <3>1, <3>4, <4>1 DEF RootsApart
    <3> QED
      BY <3>2, <3>3, <3>4
  <2>9. todo' # Colored'
    BY <1>1, <1>3, <2>3
  <2>10. InColor'
    BY <2>6, <2>7, <2>8, <2>9 DEF InColor
  <2> QED
    BY <1>5, <1>6, <1>7, <2>4, <2>5, <2>10 DEF WccInv
<1> QED
  BY <1>8, <1>9

\* A root takes one set of the pool.
LEMMA TakeSetStep ==
  ASSUME WccInv, NEW t \in Thread, TakeSet(t)
  PROVE  WccInv'
<1>1. PICK v \in todo : /\ todo' = todo \ {v}
                        /\ pool_cnt' = IF IsRoot(v) THEN pool_cnt - 1 ELSE pool_cnt
  BY DEF TakeSet
<1>2. /\ phase = "pool" /\ phase' = "pool"
      /\ UNCHANGED <<E, G_Color, G_SCC, G_WCC, finished, works, th, the_color, the_colors>>
  BY DEF TakeSet, colorVars
<1>3. v \in Colored /\ v \in Node /\ todo \subseteq Colored /\ pool_cnt \in Int /\ POOL \in Int
  BY WccAssumption DEF WccInv, Typed, Colored
<1>4. Colored' = Colored /\ \A x : IsRoot(x)' <=> IsRoot(x)
  BY <1>2, RootsStay DEF Colored
<1>5. \A u \in Thread : ThreadHolds(u)'
  <2>1. \A u \in Thread : Free(u)
    BY <1>2, AllFree
  <2> QED
    BY <1>2, <2>1 DEF ThreadHolds, Free
<1>6. InHook' /\ InShortcut' /\ InColor'
  BY <1>2 DEF InHook, InShortcut, InColor
<1>7. After'
  <2>1. Rooted'
    BY <1>2, <1>4, RootedStays DEF WccInv, After
  <2> QED
    BY <1>2, <1>4, <2>1 DEF WccInv, After, RootsApart, GET_WCC_ROOT
<1>8. Typed'
  <2>1. pool_cnt' \in Int
    BY <1>1, <1>3
  <2> QED
    BY <1>1, <1>2, <1>4, <2>1 DEF WccInv, Typed
<1>9. Fresh'
  BY <1>2 DEF WccInv, Fresh, Chunks, InUse, used, max
<1>10. PoolOK'
  <2> DEFINE R == Roots(Colored \ todo)
             Q == Roots(Colored \ todo')
  <2>1. Roots(Colored \ todo)' = Q
    BY <1>4 DEF Roots
  <2>2. POOL - pool_cnt = Cardinality(R) /\ IsFiniteSet(R) /\ Cardinality(R) \in Nat
    <3>1. R \in SUBSET Node
      BY DEF Roots, Colored
    <3> QED
      BY <1>2, <3>1, NodesFinite DEF WccInv, PoolOK
  <2>3. CASE IsRoot(v)
    <3>1. Q = R \cup {v} /\ v \notin R
      BY <1>1, <1>3, <2>3 DEF Roots
    <3>2. Cardinality(Q) = Cardinality(R) + 1
      BY <2>2, <3>1, FS_AddElement
    <3> HIDE DEF R, Q
    <3>3. POOL - pool_cnt' = Cardinality(Q)
      BY <1>1, <1>3, <2>2, <2>3, <3>2
    <3> QED
      BY <1>2, <2>1, <3>3 DEF PoolOK
  <2>4. CASE ~IsRoot(v)
    <3>1. Q = R
      BY <1>1, <1>3, <2>4 DEF Roots
    <3> QED
      BY <1>1, <1>2, <2>1, <2>2, <2>4, <3>1 DEF PoolOK
  <2> QED
    BY <2>3, <2>4
<1> QED
  BY <1>5, <1>6, <1>7, <1>8, <1>9, <1>10 DEF WccInv

-----------------------------------------------------------------------------
(* From loop to loop.                                                      *)

\* At the end of a loop no thread holds a node.
LEMMA EndOfLoop ==
  ASSUME WccInv, LoopDone, th' = th
  PROVE  /\ todo = {}
         /\ \A v, p : p # "loop" => ~At(v, p)
         /\ \A u \in Thread : ThreadHolds(u)'
BY DEF LoopDone, At, Free, ThreadHolds

\* The end of a loop that changes neither labels nor colours.
LEMMA SameColors ==
  ASSUME WccInv, UNCHANGED <<E, G_Color, G_SCC, G_WCC, th, pool_cnt, the_color, the_colors>>,
         phase' \in Phases, finished' \in BOOLEAN, todo' \in {{}, Colored}
  PROVE  Typed' /\ Fresh' /\ Colored' = Colored /\ \A v : IsRoot(v)' <=> IsRoot(v)
<1>1. Colored' = Colored
  BY DEF Colored
<1>2. Typed'
  BY <1>1 DEF WccInv, Typed
<1>3. Fresh'
  BY DEF WccInv, Fresh, Chunks, InUse, used, max
<1> QED
  BY <1>1, <1>2, <1>3, RootsStay

\* A round is made of two loops, and follows another one if a label has changed.
LEMMA RoundsGoOn ==
  ASSUME WccInv, LoopDone, UNCHANGED <<colorVars, E, G_SCC, G_WCC, pool_cnt, th>>,
         UNCHANGED <<G_Color, works>>, Goto(phase', Colored),
         \/ phase = "hook" /\ phase' = "shortcut" /\ finished' = finished
         \/ phase = "shortcut" /\ phase' = "hook" /\ finished' = TRUE
  PROVE  WccInv'
<1>1. todo = {} /\ (\A v, p : p # "loop" => ~At(v, p)) /\ \A u \in Thread : ThreadHolds(u)'
  BY EndOfLoop
<1>2. todo' = Colored /\ the_color' = the_color /\ the_colors' = the_colors
  BY DEF Goto, colorVars
<1>3. Typed' /\ Fresh' /\ Colored' = Colored
  BY <1>2, SameColors DEF WccInv, Typed, Phases
<1>4. InColor' /\ After' /\ PoolOK'
  BY DEF InColor, After, WccInv, PoolOK
<1>5. LabelsOK'
  <2>1. LabelsOK
    BY DEF WccInv, InHook, InShortcut
  <2>2. ASSUME NEW v \in Colored PROVE May(v, G_WCC[v])'
    <3>1. PICK l : l = G_WCC[v]
      OBVIOUS
    <3>2. May(v, l)'
      BY <2>1, <3>1, SameGraph DEF LabelsOK
    <3> QED
      BY <3>1, <3>2
  <2> QED
    BY <1>3, <2>2 DEF LabelsOK
<1>6. InHook'
  BY <1>2, <1>3, <1>5 DEF InHook
<1>7. InShortcut'
  <2>1. ASSUME finished', phase' = "shortcut", NEW v \in Colored PROVE Settled(v)'
    <3>1. phase = "hook" /\ finished /\ v \notin todo /\ ~At(v, "hook")
      BY <1>1, <2>1
    <3>2. Settled(v)
      BY <3>1 DEF WccInv, InHook
    <3>3. Neighbors(v)' = Neighbors(v)
      BY SameGraph DEF Colored
    <3> QED
      BY <3>2, <3>3 DEF Settled
  <2> QED
    BY <1>2, <1>3, <1>5, <2>1 DEF InShortcut
<1> QED
  BY <1>1, <1>3, <1>4, <1>6, <1>7 DEF WccInv

\* The rounds end when no label has changed: no edge inside a colour leads to a
\* smaller one.
LEMMA RoundsEnd ==
  ASSUME WccInv, LoopDone, UNCHANGED <<colorVars, E, G_SCC, G_WCC, pool_cnt, th>>,
         UNCHANGED <<G_Color, works, finished>>, Goto("color", Colored),
         phase = "shortcut", finished
  PROVE  /\ WccInv'
         /\ \A v \in Colored : ColorOf(v)' = ColorOf(v)
<1>1. todo = {} /\ (\A v, p : p # "loop" => ~At(v, p)) /\ \A u \in Thread : ThreadHolds(u)'
  BY EndOfLoop
<1>2. todo' = Colored /\ phase' = "color" /\ the_color' = the_color /\ the_colors' = the_colors
  BY DEF Goto, colorVars
<1>3. Typed' /\ Fresh' /\ Colored' = Colored /\ \A v : IsRoot(v)' <=> IsRoot(v)
  BY <1>2, SameColors DEF WccInv, Typed, Phases
<1>4. InHook' /\ InShortcut' /\ After' /\ PoolOK'
  BY <1>2 DEF InHook, InShortcut, After, WccInv, PoolOK
<1>5. LabelsOK /\ \A v \in Colored : Settled(v) /\ ~RootChanged(v)
  BY <1>1 DEF WccInv, InShortcut
<1>6. ASSUME NEW v \in Colored
      PROVE  /\ GET_WCC_ROOT(v) \in Colored /\ G_Color[GET_WCC_ROOT(v)] = G_Color[v]
             /\ IsRoot(GET_WCC_ROOT(v)) /\ G_WCC[v] = InitialLabel(GET_WCC_ROOT(v))
  BY <1>5, MayRoot DEF LabelsOK, GET_WCC_ROOT, RootChanged, IsRoot
<1>7. Rooted'
  BY <1>3, <1>6, RootedStays DEF Rooted
<1>8. LabelsOK'
  <2>1. ASSUME NEW v \in Colored PROVE May(v, G_WCC[v])'
    <3>1. PICK l : l = G_WCC[v]
      OBVIOUS
    <3>2. May(v, l)'
      BY <1>5, <3>1, SameGraph DEF LabelsOK
    <3> QED
      BY <3>1, <3>2
  <2> QED
    BY <1>3, <2>1 DEF LabelsOK
<1>9. ASSUME NEW v \in Colored PROVE Settled(v)' /\ Neighbors(v)' = Neighbors(v)
  <2>1. Neighbors(v)' = Neighbors(v)
    BY SameGraph DEF Colored
  <2> QED
    BY <1>5, <2>1 DEF Settled
<1>10. ASSUME NEW v \in Colored PROVE ColorOf(v)' = G_Color[v] /\ ColorOf(v) = G_Color[v]
  <2>1. ColorOf(v)' = G_Color[GET_WCC_ROOT(v)]
    BY <1>2 DEF ColorOf, GET_WCC_ROOT
  <2>2. ColorOf(v) = G_Color[v]
    BY DEF ColorOf
  <2> QED
    BY <1>6, <2>1, <2>2
<1>11. Ordered'
  <2> SUFFICES ASSUME NEW v \in Colored, NEW w \in Neighbors(v), w \in Colored, ColorOf(v)' = ColorOf(w)'
               PROVE  G_WCC[v] <= G_WCC[w]
    BY <1>3, <1>9 DEF Ordered
  <2>1. G_Color[w] = G_Color[v]
    BY <1>10
  <2> QED
    BY <1>5, <2>1 DEF Settled
<1>12. RootsApart(todo)'
  BY <1>2, <1>3 DEF RootsApart
<1>13. InColor'
  BY <1>3, <1>7, <1>8, <1>9, <1>11, <1>12 DEF InColor
<1> QED
  BY <1>1, <1>3, <1>4, <1>10, <1>13 DEF WccInv

\* The nodes copy the colours of their roots.
LEMMA ColorsCopied ==
  ASSUME WccInv, LoopDone, UNCHANGED <<colorVars, E, G_SCC, G_WCC, pool_cnt, th>>,
         UNCHANGED <<finished, works>>, Goto("pool", Colored), CopyColors, phase = "color"
  PROVE  /\ WccInv'
         /\ Colored' = Colored
         /\ \A v \in Colored : ColorOf(v)' = ColorOf(v)
<1>1. todo = {} /\ \A u \in Thread : ThreadHolds(u)'
  BY EndOfLoop
<1>2. todo' = Colored /\ phase' = "pool" /\ the_color' = the_color /\ the_colors' = the_colors
  BY DEF Goto, colorVars
<1>3. /\ Rooted /\ RootsApart({}) /\ Fresh /\ G_Color \in [Node -> Int]
  BY <1>1 DEF WccInv, InColor, Typed
<1>4. ASSUME NEW v \in Colored
      PROVE  /\ v \in Node /\ GET_WCC_ROOT(v) \in Colored /\ GET_WCC_ROOT(v) \in Node
             /\ GET_WCC_ROOT(GET_WCC_ROOT(v)) = GET_WCC_ROOT(v)
             /\ G_Color'[v] = G_Color[GET_WCC_ROOT(v)]
  <2>1. v \in Node /\ GET_WCC_ROOT(v) \in Colored /\ GET_WCC_ROOT(GET_WCC_ROOT(v)) = GET_WCC_ROOT(v)
    BY <1>3 DEF Rooted, IsRoot, Colored
  <2>2. GET_WCC_ROOT(v) \in Node
    BY <2>1 DEF Colored
  <2>3. G_Color'[v] = G_Color[GET_WCC_ROOT(v)]
    BY <2>1 DEF CopyColors
  <2> QED
    BY <2>1, <2>2, <2>3
<1>5. \A v \in Node : v \notin Colored => G_Color'[v] = -2 /\ G_Color[v] = -2
  BY DEF CopyColors, Colored
<1>6. G_Color' \in [Node -> Int]
  <2>1. \A v \in Node : G_Color'[v] \in Int
    BY <1>3, <1>4, <1>5
  <2>2. G_Color' = [v \in Node |-> G_Color'[v]]
    BY DEF CopyColors
  <2> QED
    BY <2>1, <2>2
<1>7. Colored' = Colored
  <2>1. \A v \in Colored : G_Color'[v] # -2
    BY <1>4 DEF Colored
  <2>2. \A v \in Node : G_Color'[v] # -2 <=> v \in Colored
    BY <1>5, <2>1
  <2> QED
    BY <2>2 DEF Colored
<1>8. Typed'
  <2>1. \A v \in Node : G_Color'[v] = -2 <=> G_SCC'[v] # NIL
    <3>1. ASSUME NEW v \in Node PROVE G_Color'[v] = -2 <=> G_Color[v] = -2
      BY <1>7 DEF Colored
    <3> QED
      BY <3>1 DEF WccInv, Typed
  <2> QED
    BY <1>2, <1>6, <1>7, <2>1 DEF WccInv, Typed, Phases
<1>9. Fresh'
  <2>1. Chunks'
    BY <1>2, <1>3 DEF Fresh, Chunks, used, max
  <2>2. InUse(-2)
    BY <1>3 DEF Fresh, Chunks, InUse, used, max
  <2>3. ASSUME NEW v \in Node PROVE InUse(G_Color[v])'
    <3>1. PICK x : x = G_Color'[v]
      OBVIOUS
    <3>2. InUse(x)
      BY <1>3, <1>4, <1>5, <2>2, <3>1 DEF Fresh
    <3>3. InUse(x)'
      BY <1>2, <3>2 DEF InUse, used, max
    <3> QED
      BY <3>1, <3>3 DEF InUse
  <2> QED
    BY <2>1, <2>3 DEF Fresh
<1>10. InHook' /\ InShortcut' /\ InColor'
  BY <1>2 DEF InHook, InShortcut, InColor
<1>11. \A v : GET_WCC_ROOT(v)' = GET_WCC_ROOT(v) /\ (IsRoot(v)' <=> IsRoot(v))
  BY RootsStay DEF GET_WCC_ROOT
<1>12. After'
  <2>1. Rooted'
    BY <1>3, <1>7, RootedStays
  <2>2. RootsApart({})'
    <3> SUFFICES ASSUME NEW v \in Colored, NEW w \in Colored, IsRoot(v), IsRoot(w), v # w
                 PROVE  G_Color'[v] # G_Color'[w]
      BY <1>7, <1>11 DEF RootsApart
    <3>1. G_Color'[v] = G_Color[v] /\ G_Color'[w] = G_Color[w]
      BY <1>4 DEF IsRoot
    <3> QED
      BY <1>3, <3>1 DEF RootsApart
  <2>3. ASSUME NEW v \in Colored PROVE G_Color'[v] = G_Color'[GET_WCC_ROOT(v)]
    <3>1. GET_WCC_ROOT(v) \in Colored
      BY <1>4
    <3> QED
      BY <1>4, <3>1
  <2> QED
    BY <1>7, <1>11, <2>1, <2>2, <2>3 DEF After
<1>13. PoolOK'
  <2>1. Roots(Colored \ todo)' = {}
    BY <1>2, <1>7 DEF Roots
  <2>2. POOL - pool_cnt' = 0
    BY WccAssumption DEF WccInv, PoolOK
  <2> QED
    BY <1>2, <2>1, <2>2, FS_EmptySet DEF PoolOK
<1>14. \A v \in Colored : ColorOf(v)' = ColorOf(v)
  BY <1>2, <1>4 DEF ColorOf
<1> QED
  BY <1>1, <1>7, <1>8, <1>9, <1>10, <1>12, <1>13, <1>14 DEF WccInv

\* The items are made of the sets.
LEMMA ItemsCreated ==
  ASSUME WccInv, LoopDone, UNCHANGED <<colorVars, E, G_SCC, G_WCC, pool_cnt, th>>,
         UNCHANGED <<G_Color, finished>>, Goto("done", {}), CreateItems, phase = "pool"
  PROVE  WccInv'
<1>1. todo = {} /\ \A u \in Thread : ThreadHolds(u)'
  BY EndOfLoop
<1>2. todo' = {} /\ phase' = "done" /\ the_color' = the_color /\ the_colors' = the_colors
  BY DEF Goto, colorVars
<1>3. Typed' /\ Fresh' /\ Colored' = Colored /\ \A v : IsRoot(v)' <=> IsRoot(v)
  BY <1>2, SameColors DEF WccInv, Typed, Phases
<1>4. InHook' /\ InShortcut' /\ InColor'
  BY <1>2 DEF InHook, InShortcut, InColor
<1>5. After'
  <2>1. Rooted'
    BY <1>3, RootedStays DEF WccInv, After
  <2> QED
    BY <1>3, <2>1 DEF WccInv, After, RootsApart, GET_WCC_ROOT
<1>6. PoolOK'
  <2>1. Roots(Colored)' = Roots(Colored) /\ Roots(Colored \ todo) = Roots(Colored)
    BY <1>1, <1>3 DEF Roots
  <2>2. \A v \in Node : SetOf(v)' = SetOf(v)
    BY <1>3 DEF SetOf, GET_WCC_ROOT
  <2>3. works' = Items'
    <3>1. Items' = {[color |-> G_Color[v], count |-> Cardinality(SetOf(v)), set |-> SetOf(v)] : v \in Roots(Colored)}
      BY <2>1, <2>2 DEF Items, Roots, Colored
    <3> QED
      BY <3>1 DEF CreateItems, Roots
  <2> QED
    BY <1>2, <2>1, <2>3 DEF WccInv, PoolOK
<1> QED
  BY <1>1, <1>3, <1>4, <1>5, <1>6 DEF WccInv

\* The pivot's SCC has the colour -2 at the start, and no colour has been handed out.
LEMMA WccInit ==
  ASSUME Init
  PROVE  WccInv
<1>1. PICK p \in Node :
        LET fw == FB0!Reachable(E, Node, p)
            bw == FB0!Reachable(FB0!Reverse(E), Node, p)
        IN  /\ G_Color = [v \in Node |-> IF v \in fw \cap bw THEN -2
                                         ELSE IF v \in fw THEN -3 ELSE IF v \in bw THEN -4 ELSE -1]
            /\ G_SCC = [v \in Node |-> IF v \in fw \cap bw THEN p ELSE NIL]
  BY DEF Init
<1> DEFINE fw == FB0!Reachable(E, Node, p)
           bw == FB0!Reachable(FB0!Reverse(E), Node, p)
<1>2. \A v \in Node : /\ G_Color[v] = IF v \in fw \cap bw THEN -2
                                      ELSE IF v \in fw THEN -3 ELSE IF v \in bw THEN -4 ELSE -1
                      /\ G_SCC[v] = IF v \in fw \cap bw THEN p ELSE NIL
  BY <1>1
<1>3. /\ G_Color \in [Node -> Int] /\ G_SCC \in [Node -> Node \cup {NIL}]
      /\ \A v \in Node : G_Color[v] = -2 <=> G_SCC[v] # NIL
      /\ \A v \in Node : G_Color[v] \in Int /\ G_Color[v] <= -1
  <2> HIDE DEF fw, bw
  <2>1. DOMAIN G_Color = Node /\ G_Color = [v \in Node |-> G_Color[v]]
        /\ DOMAIN G_SCC = Node /\ G_SCC = [v \in Node |-> G_SCC[v]]
    BY <1>1
  <2>2. \A v \in Node : /\ G_Color[v] \in Int /\ G_Color[v] <= -1
                        /\ G_SCC[v] \in Node \cup {NIL} /\ (G_Color[v] = -2 <=> G_SCC[v] # NIL)
    BY <1>2, WccAssumption
  <2> QED
    BY <2>1, <2>2
<1>4. /\ E \in Graphs /\ phase = "hook" /\ finished = TRUE /\ todo = Colored
      /\ pool_cnt = POOL /\ works = {} /\ th = [t \in Thread |-> Idle]
      /\ G_WCC = [v \in Node |-> IF G_Color[v] = -2 THEN NIL ELSE InitialLabel(v)]
  BY DEF Init
<1>5. Typed
  <2>1. DOMAIN G_WCC = Node /\ G_WCC = [v \in Node |-> G_WCC[v]]
    BY <1>4
  <2>2. th \in [Thread -> Locals]
    BY <1>4 DEF Idle, Locals
  <2>3. pool_cnt \in Int
    BY <1>4, WccAssumption
  <2> QED
    BY <1>3, <1>4, <2>1, <2>2, <2>3 DEF Typed, Phases
<1>6. \A t \in Thread : ThreadHolds(t)
  BY <1>4 DEF ThreadHolds, Free, Idle
<1>7. LabelsOK
  <2>1. ASSUME NEW v \in Colored PROVE May(v, G_WCC[v])
    <3>1. G_WCC[v] = InitialLabel(v)
      BY <1>4 DEF Colored
    <3> QED
      BY <3>1, MayOwn
  <2> QED
    BY <2>1 DEF LabelsOK
<1>8. InHook /\ InShortcut /\ InColor /\ After /\ PoolOK
  BY <1>4, <1>7 DEF InHook, InShortcut, InColor, After, PoolOK
<1>9. Fresh
  <2>1. the_color = -1 /\ the_colors = [t \in Thread |-> [used |-> -1, max |-> -1]]
    BY DEF Init, initialize_color
  <2>2. \A t \in Thread : used(t) = -1 /\ max(t) = -1
    BY <2>1 DEF used, max
  <2>3. Chunks
    BY <2>1, <2>2 DEF Chunks
  <2>4. \A v \in Node : InUse(G_Color[v])
    BY <1>3, <2>1, <2>2 DEF InUse
  <2> QED
    BY <2>3, <2>4 DEF Fresh
<1> QED
  BY <1>5, <1>6, <1>8, <1>9 DEF WccInv

\* What NextLoop does in each phase.
LEMMA NextLoopStep ==
  ASSUME WccInv, NextLoop
  PROVE  WccInv'
<1>1. LoopDone /\ UNCHANGED <<colorVars, E, G_SCC, G_WCC, pool_cnt, th>>
  BY DEF NextLoop
<1>2. CASE phase = "hook" /\ Goto("shortcut", Colored) /\ UNCHANGED <<G_Color, finished, works>>
  <2>1. Goto(phase', Colored) /\ phase' = "shortcut" /\ UNCHANGED <<G_Color, works>> /\ finished' = finished
    BY <1>2 DEF Goto
  <2> QED
    BY <1>1, <1>2, <2>1, RoundsGoOn
<1>3. CASE /\ phase = "shortcut" /\ Goto("hook", Colored) /\ finished' = TRUE
           /\ UNCHANGED <<G_Color, works>>
  <2>1. Goto(phase', Colored) /\ phase' = "hook"
    BY <1>3 DEF Goto
  <2> QED
    BY <1>1, <1>3, <2>1, RoundsGoOn
<1>4. CASE /\ phase = "shortcut" /\ ~Again /\ Goto("color", Colored)
           /\ UNCHANGED <<G_Color, finished, works>>
  <2>1. finished /\ UNCHANGED <<G_Color, works, finished>>
    BY <1>4 DEF Again
  <2> QED
    BY <1>1, <1>4, <2>1, RoundsEnd
<1>5. CASE /\ phase = "color" /\ Goto("pool", Colored) /\ CopyColors
           /\ UNCHANGED <<finished, works>>
  BY <1>1, <1>5, ColorsCopied
<1>6. CASE /\ phase = "pool" /\ Goto("done", {}) /\ CreateItems
           /\ UNCHANGED <<G_Color, finished>>
  BY <1>1, <1>6, ItemsCreated
<1> QED
  BY <1>2, <1>3, <1>4, <1>5, <1>6 DEF NextLoop

\* Nothing of the invariant is about more than the variables.
LEMMA WccStutter ==
  ASSUME WccInv, UNCHANGED vars
  PROVE  WccInv'
<1>0. UNCHANGED <<E, G_Color, G_SCC, G_WCC, phase, finished, todo, pool_cnt, works, th, the_color, the_colors>>
  BY DEF vars, local, colorVars
<1>1. Colored' = Colored /\ Typed' /\ Fresh'
  BY <1>0 DEF WccInv, Typed, Colored, Fresh, Chunks, InUse, used, max
<1>2. CASE Round
  <2>1. RoundStep /\ LabelsOK
    BY <1>0, <1>2 DEF RoundStep, Round, WccInv, InHook, InShortcut
  <2>2. InColor' /\ After' /\ PoolOK'
    BY <1>2, <2>1, RoundKeeps
  <2>3. \A u \in Thread : ThreadHolds(u)'
    BY <1>0, <1>2, <2>1, ThreadStays
  <2>4. LabelsOK'
    <3>1. ASSUME NEW v \in Colored PROVE May(v, G_WCC[v])'
      <4>1. PICK l : l = G_WCC[v]
        OBVIOUS
      <4>2. May(v, l)'
        BY <1>0, <2>1, <4>1, SameGraph DEF LabelsOK
      <4> QED
        BY <1>0, <4>1, <4>2
    <3> QED
      BY <1>1, <3>1 DEF LabelsOK
  <2>5. \A v \in Colored : (Settled(v)' <=> Settled(v)) /\ (RootChanged(v)' <=> RootChanged(v))
    BY <1>0, <2>1, SettledStays
  <2>6. \A v, p : At(v, p)' <=> At(v, p)
    BY <1>0 DEF At
  <2>7. InHook' /\ InShortcut'
    BY <1>0, <1>1, <2>4, <2>5, <2>6 DEF WccInv, InHook, InShortcut
  <2> QED
    BY <1>1, <2>2, <2>3, <2>7 DEF WccInv
<1>3. CASE ~Round
  <2>1. InHook' /\ InShortcut'
    BY <1>0, <1>3 DEF InHook, InShortcut, Round
  <2>2. \A u \in Thread : ThreadHolds(u)'
    BY <1>0, <1>3, AllFree DEF ThreadHolds, Free, Round
  <2>3. /\ \A v : GET_WCC_ROOT(v)' = GET_WCC_ROOT(v) /\ (IsRoot(v)' <=> IsRoot(v)) /\ ColorOf(v)' = ColorOf(v)
        /\ \A v : Neighbors(v)' = Neighbors(v) /\ SetOf(v)' = SetOf(v)
    BY <1>0, <1>1 DEF GET_WCC_ROOT, IsRoot, ColorOf, Neighbors, SetOf
  <2>4. Rooted => Rooted'
    BY <1>0, <1>1, RootedStays
  <2>5. InColor'
    <3>1. Ordered => Ordered'
      BY <1>0, <1>1, <2>3 DEF Ordered
    <3>2. RootsApart(todo) => RootsApart(todo)'
      BY <1>0, <1>1, <2>3 DEF RootsApart
    <3>3. LabelsOK => LabelsOK'
      <4>1. ASSUME LabelsOK, NEW v \in Colored PROVE May(v, G_WCC[v])'
        <5>1. PICK l : l = G_WCC[v]
          OBVIOUS
        <5>2. May(v, l)'
          BY <1>0, <4>1, <5>1, SameGraph DEF LabelsOK
        <5> QED
          BY <1>0, <5>1, <5>2
      <4> QED
        BY <1>1, <4>1 DEF LabelsOK
    <3>4. \A v \in Colored : Settled(v) => Settled(v)'
      BY <1>0, <2>3 DEF Settled
    <3> QED
      BY <1>0, <1>1, <2>4, <3>1, <3>2, <3>3, <3>4 DEF WccInv, InColor
  <2>6. After'
    BY <1>0, <1>1, <2>3, <2>4 DEF WccInv, After, RootsApart
  <2>7. PoolOK'
    <3>1. Roots(Colored)' = Roots(Colored) /\ Roots(Colored \ todo)' = Roots(Colored \ todo)
      BY <1>0, <1>1, <2>3 DEF Roots
    <3>2. Items' = Items
      BY <1>0, <2>3, <3>1 DEF Items
    <3> QED
      BY <1>0, <3>1, <3>2 DEF WccInv, PoolOK
  <2> QED
    BY <1>1, <2>1, <2>2, <2>5, <2>6, <2>7 DEF WccInv
<1> QED
  BY <1>2, <1>3

\* Every step keeps the invariant.
LEMMA WccStep ==
  ASSUME WccInv, [Next]_vars
  PROVE  WccInv'
<1>1. CASE NextLoop
  BY <1>1, NextLoopStep
<1>2. ASSUME NEW t \in Thread, Step(t)
      PROVE  WccInv'
  <2>1. CASE HookBegin(t)     BY <2>1, HookBeginStep
  <2>2. CASE HookRead(t)      BY <2>2, HookReadStep
  <2>3. CASE HookEnd(t)       BY <2>3, HookEndStep
  <2>4. CASE ShortcutTest(t)  BY <2>4, ShortcutTestStep
  <2>5. CASE Shortcut(t)      BY <2>5, ShortcutStep
  <2>6. CASE ColorRoot(t)     BY <2>6, ColorRootStep
  <2>7. CASE TakeSet(t)       BY <2>7, TakeSetStep
  <2> QED
    BY <1>2, <2>1, <2>2, <2>3, <2>4, <2>5, <2>6, <2>7 DEF Step
<1>3. CASE UNCHANGED vars
  BY <1>3, WccStutter
<1> QED
  BY <1>1, <1>2, <1>3 DEF Next

\* The invariant holds in every state.
LEMMA WccInvariant == Spec => []WccInv
<1>1. Init => WccInv
  BY WccInit
<1>2. WccInv /\ [Next]_vars => WccInv'
  BY WccStep
<1> QED
  BY <1>1, <1>2, PTL DEF Spec

\* When the rounds end, the label of a node is one it reaches, and none that it
\* reaches is smaller: the nodes with labels not below its own are closed under edges.
LEMMA LabelsLeast ==
  ASSUME WccInv, phase = "color", todo = Colored, NEW v \in Colored
  PROVE  G_WCC[v] = Min({InitialLabel(w) : w \in Reached(v)})
<1>1. LabelsOK /\ (\A w \in Colored : Settled(w)) /\ v \in Node
  BY DEF WccInv, InColor, Colored
<1>2. \A w \in Colored : G_WCC[w] \in Int /\ G_WCC[w] <= InitialLabel(w)
  BY <1>1, LabelsAreNumbers
<1> DEFINE V == {w \in OfColor(G_Color[v]) : G_WCC[v] <= G_WCC[w]}
           S == {InitialLabel(w) : w \in Reached(v)}
<1>3. \A w \in OfColor(G_Color[v]) : w \in Colored /\ w \in Node /\ G_Color[w] = G_Color[v]
  BY DEF OfColor, Colored
<1>4. v \in V
  BY <1>1, <1>2 DEF OfColor
<1>5. ASSUME NEW w \in V, NEW k \in Neighbors(w), G_Color[k] = G_Color[v]
      PROVE  k \in V
  <2>1. k \in Node /\ k \in OfColor(G_Color[v]) /\ k \in Colored /\ w \in Colored /\ G_Color[k] = G_Color[w]
    BY <1>3, <1>5 DEF Neighbors, OfColor
  <2>2. G_WCC[w] <= G_WCC[k]
    BY <1>1, <2>1 DEF Settled
  <2> QED
    BY <1>2, <2>1, <2>2
<1>6. Reached(v) \subseteq V
  BY <1>1, <1>4, <1>5, ReachedLeast
<1>7. \A y \in S : G_WCC[v] <= y /\ y \in Int
  <2>1. ASSUME NEW w \in Reached(v) PROVE G_WCC[v] <= InitialLabel(w) /\ InitialLabel(w) \in Int
    <3>1. w \in V /\ w \in Colored /\ w \in Node
      BY <1>3, <1>6
    <3> QED
      BY <1>2, <3>1, LabelRoot
  <2> QED
    BY <2>1
<1>8. G_WCC[v] \in S
  BY <1>1 DEF LabelsOK, May
<1>9. \A x \in S : (\A y \in S : x <= y) <=> x = G_WCC[v]
  BY <1>2, <1>7, <1>8
<1>10. Min(S) = G_WCC[v]
  <2> HIDE DEF S
  <2> QED
    BY <1>8, <1>9 DEF Min
<1> QED
  BY <1>10

\* At the end the set of a root is what has its colour.
LEMMA SetsAreColors ==
  ASSUME WccInv, phase = "done", NEW v \in Roots(Colored)
  PROVE  /\ SetOf(v) = OfColor(G_Color[v]) /\ v \in SetOf(v)
         /\ Cardinality(SetOf(v)) \in Nat /\ Cardinality(SetOf(v)) > 0
         /\ \A w \in Roots(Colored) : w # v => G_Color[w] # G_Color[v]
<1>1. /\ Rooted /\ RootsApart({})
      /\ \A w \in Colored : G_Color[w] = G_Color[GET_WCC_ROOT(w)]
  BY DEF WccInv, After
<1>2. v \in Colored /\ v \in Node /\ IsRoot(v) /\ G_Color[v] # -2
  BY DEF Roots, Colored
<1>3. SetOf(v) \subseteq OfColor(G_Color[v])
  BY <1>1 DEF SetOf, OfColor, Colored
<1>4. ASSUME NEW w \in OfColor(G_Color[v]) PROVE w \in SetOf(v)
  <2>1. w \in Colored /\ G_Color[w] = G_Color[v]
    BY <1>2 DEF OfColor, Colored
  <2>2. PICK r \in Colored : r = GET_WCC_ROOT(w) /\ IsRoot(r)
    BY <1>1, <2>1 DEF Rooted
  <2>3. r = v
    BY <1>1, <1>2, <2>1, <2>2 DEF RootsApart
  <2> QED
    BY <2>1, <2>2, <2>3 DEF SetOf
<1>5. v \in SetOf(v)
  BY <1>2, <1>4 DEF OfColor
<1>6. IsFiniteSet(SetOf(v)) /\ Cardinality(SetOf(v)) \in Nat
  <2>1. SetOf(v) \subseteq Node
    BY DEF SetOf, Colored
  <2> QED
    BY <2>1, NodesFinite
<1>7. Cardinality(SetOf(v)) # 0
  BY <1>5, <1>6, FS_EmptySet
<1>8. \A w \in Roots(Colored) : w # v => G_Color[w] # G_Color[v]
  BY <1>1, <1>2 DEF Roots, RootsApart
<1> QED
  BY <1>3, <1>4, <1>5, <1>6, <1>7, <1>8

\* There is an item for each root: the colours of two roots differ.
LEMMA ItemsOfRoots ==
  ASSUME WccInv, phase = "done"
  PROVE  Cardinality(Items) = Cardinality(Roots(Colored))
<1> DEFINE item(v) == [color |-> G_Color[v], count |-> Cardinality(SetOf(v)), set |-> SetOf(v)]
           R == Roots(Colored)
           f == [v \in R |-> item(v)]
<1>1. Items = {item(v) : v \in R}
  BY DEF Items
<1>2. ASSUME NEW v \in R, NEW w \in R, item(v) = item(w) PROVE v = w
  <2>1. G_Color[v] = G_Color[w]
    BY <1>2
  <2> QED
    BY <2>1, SetsAreColors
<1>3. f \in Bijection(R, Items)
  <2>1. f \in [R -> Items] /\ (\A v \in R : f[v] = item(v)) /\ \A y \in Items : \E v \in R : f[v] = y
    BY <1>1
  <2>2. \A v, w \in R : f[v] = f[w] => v = w
    BY <1>2, <2>1
  <2> HIDE DEF f, item, R
  <2> QED
    BY <2>1, <2>2 DEF Bijection, Injection, Surjection, IsInjective
<1>4. IsFiniteSet(R)
  <2>1. R \subseteq Node
    BY DEF Roots, Colored
  <2> QED
    BY <2>1, NodesFinite
<1> QED
  BY <1>3, <1>4, FS_Bijection DEF ExistsBijection

\* The invariant says what the labels and the items are.
LEMMA InvLabelled == WccInv => Labelled
<1> SUFFICES ASSUME WccInv PROVE Labelled
  OBVIOUS
<1>1. ASSUME phase = "color", todo = Colored
      PROVE  \A v \in Colored : G_WCC[v] = Min({InitialLabel(w) : w \in Reached(v)})
  BY <1>1, LabelsLeast
<1>2. ASSUME phase = "done"
      PROVE  /\ \A w \in works : w.count = Cardinality(w.set) /\ w.count > 0 /\ w.set = OfColor(w.color)
             /\ UNION {w.set : w \in works} = Colored
             /\ POOL - pool_cnt = Cardinality(works)
  <2>1. works = Items /\ POOL - pool_cnt = Cardinality(Roots(Colored))
    BY <1>2 DEF WccInv, PoolOK
  <2>2. ASSUME NEW w \in works
        PROVE  w.count = Cardinality(w.set) /\ w.count > 0 /\ w.set = OfColor(w.color) /\ w.set \subseteq Colored
    <3>1. PICK v \in Roots(Colored) :
            w = [color |-> G_Color[v], count |-> Cardinality(SetOf(v)), set |-> SetOf(v)]
      BY <2>1 DEF Items
    <3>2. SetOf(v) = OfColor(G_Color[v]) /\ Cardinality(SetOf(v)) > 0 /\ SetOf(v) \subseteq Colored
      BY <1>2, SetsAreColors DEF SetOf
    <3>3. w.color = G_Color[v] /\ w.count = Cardinality(SetOf(v)) /\ w.set = SetOf(v)
      BY <3>1
    <3> QED
      BY <3>2, <3>3
  <2>3. ASSUME NEW v \in Colored PROVE \E w \in works : v \in w.set
    <3>1. PICK r \in Colored : r = GET_WCC_ROOT(v) /\ IsRoot(r)
      BY <1>2 DEF WccInv, After, Rooted
    <3>2. r \in Roots(Colored) /\ v \in SetOf(r)
      BY <3>1 DEF Roots, SetOf
    <3> DEFINE w == [color |-> G_Color[r], count |-> Cardinality(SetOf(r)), set |-> SetOf(r)]
    <3>3. w \in works /\ w.set = SetOf(r)
      BY <2>1, <3>2 DEF Items
    <3> QED
      BY <3>2, <3>3
  <2>4. Cardinality(works) = Cardinality(Roots(Colored))
    BY <1>2, <2>1, ItemsOfRoots
  <2> QED
    BY <2>1, <2>2, <2>3, <2>4
<1> QED
  BY <1>1, <1>2 DEF Labelled

\* The rounds end with the smallest labels reached, and each label becomes one item.
THEOREM LabelsAreRight == Spec => []Labelled
BY WccInvariant, InvLabelled, PTL

-----------------------------------------------------------------------------
(* The labels cut the classes of FwBw.                                     *)

ClassOf(v) == {w \in Colored : ColorOf(w) = ColorOf(v)}

\* The names of FwBw, of FwBwProofs and of the start are one.
LEMMA SameSCC ==
  /\ \A R, S, p : FBP!Reachable(R, S, p) = FB0!Reachable(R, S, p)
  /\ FBP!Reverse(E) = FB0!Reverse(E)
  /\ \A v : FB!SCC(v) = FBP!SCC(v)
  /\ FBP!Partitioned <=> FB!Partitioned
  /\ FBP!WholeSCCs <=> FB!WholeSCCs
<1>1. \A R, S, p : FBP!Reachable(R, S, p) = FB0!Reachable(R, S, p) /\ FB!Reachable(R, S, p) = FB0!Reachable(R, S, p)
  BY DEF FBP!Reachable, FBP!Closed, FB!Reachable, FB!Closed, FB0!Reachable, FB0!Closed
<1>2. FBP!Reverse(E) = FB0!Reverse(E) /\ FB!Reverse(E) = FB0!Reverse(E)
  BY DEF FBP!Reverse, FB!Reverse, FB0!Reverse
<1>3. \A v : FB!SCC(v) = FBP!SCC(v)
  BY <1>1, <1>2 DEF FBP!SCC, FB!SCC
<1>4. FBP!WholeSCCs <=> FB!WholeSCCs
  BY <1>3 DEF FBP!WholeSCCs, FB!WholeSCCs, Parts
<1>5. FBP!Partitioned <=> FB!Partitioned
  BY DEF FBP!Partitioned, FB!Partitioned, Parts
<1> QED
  BY <1>1, <1>2, <1>3, <1>4, <1>5

\* In every state the classes are sets of nodes without an SCC, and hold all of these.
LEMMA ClassesPartition ==
  ASSUME Typed
  PROVE  FBP!Partitioned /\ FBP!TypeOK
<1>1. Parts = {ClassOf(v) : v \in Colored}
  BY DEF Parts, ClassOf
<1>2. \A v \in Colored : v \in ClassOf(v) /\ ClassOf(v) \subseteq Colored
  BY DEF ClassOf
<1>3. \A v, w \in Colored : ClassOf(v) # ClassOf(w) => ClassOf(v) \cap ClassOf(w) = {}
  BY DEF ClassOf
<1>4. Colored = {v \in Node : G_SCC[v] = NIL}
  BY DEF Colored, Typed
<1>5. {} \notin Parts /\ (\A S, T \in Parts : S # T => S \cap T = {}) /\ UNION Parts = Colored
  BY <1>1, <1>2, <1>3
<1>6. Parts \subseteq SUBSET Node
  BY <1>1, <1>2, <1>4
<1> QED
  BY <1>4, <1>5, <1>6 DEF Typed, FBP!Partitioned, FBP!TypeOK

\* The global FW-BW found the SCC of its pivot, and the nodes of an SCC are reached
\* from the pivot together, and reach it together.
LEMMA StartWhole == Init => FBP!Inv
<1> SUFFICES ASSUME Init PROVE FBP!Inv
  OBVIOUS
<1>0. WccInv /\ phase = "hook" /\ Typed
  BY WccInit DEF Init, WccInv
<1>1. FBP!Partitioned /\ FBP!TypeOK
  BY <1>0, ClassesPartition
<1>2. PICK p \in Node :
        LET fw == FB0!Reachable(E, Node, p)
            bw == FB0!Reachable(FB0!Reverse(E), Node, p)
        IN  /\ G_Color = [v \in Node |-> IF v \in fw \cap bw THEN -2
                                         ELSE IF v \in fw THEN -3 ELSE IF v \in bw THEN -4 ELSE -1]
            /\ G_SCC = [v \in Node |-> IF v \in fw \cap bw THEN p ELSE NIL]
  BY DEF Init
<1> DEFINE R(x) == FBP!Reachable(E, Node, x)
           B(x) == FBP!Reachable(FBP!Reverse(E), Node, x)
<1>3. \A v \in Node : /\ G_Color[v] = IF v \in R(p) \cap B(p) THEN -2
                                      ELSE IF v \in R(p) THEN -3 ELSE IF v \in B(p) THEN -4 ELSE -1
                      /\ G_SCC[v] = IF v \in R(p) \cap B(p) THEN p ELSE NIL
  BY <1>2, SameSCC
<1>4. \A v : FBP!SCC(v) = R(v) \cap B(v)
  BY DEF FBP!SCC
<1>5. NIL \notin Node /\ Graphs \subseteq SUBSET (Node \X Node)
  BY WccAssumption
<1>6. ASSUME NEW v \in Node
      PROVE  /\ v \in FBP!SCC(v) /\ FBP!SCC(v) \subseteq Node
             /\ \A w \in FBP!SCC(v) : FBP!SCC(w) = FBP!SCC(v)
  BY <1>1, <1>5, FBP!SCCEquivalence
<1>7. ASSUME NEW v \in Node, NEW w \in FBP!SCC(v)
      PROVE  (v \in R(p) => w \in R(p)) /\ (v \in B(p) => w \in B(p))
  <2>1. w \in R(v) /\ w \in B(v)
    BY <1>4, <1>7
  <2>2. v \in R(p) => R(v) \subseteq R(p)
    BY <1>5, FBP!ReachTransitive
  <2>3. v \in B(p) => B(v) \subseteq B(p)
    BY <1>5, FBP!ReachTransitive
  <2> QED
    BY <2>1, <2>2, <2>3
<1>8. ASSUME NEW v \in Node, NEW w \in FBP!SCC(v)
      PROVE  w \in Node /\ G_Color[w] = G_Color[v] /\ G_SCC[w] = G_SCC[v]
  <2>1. w \in Node /\ v \in FBP!SCC(w)
    BY <1>6, <1>8
  <2>2. (v \in R(p) <=> w \in R(p)) /\ (v \in B(p) <=> w \in B(p))
    BY <1>7, <1>8, <2>1
  <2> HIDE DEF R, B
  <2> QED
    BY <1>3, <2>1, <2>2
<1>9. FBP!WholeSCCs
  <2> SUFFICES ASSUME NEW x \in Colored, NEW v \in ClassOf(x), NEW w \in FBP!SCC(v)
               PROVE  w \in ClassOf(x)
    BY DEF FBP!WholeSCCs, Parts, ClassOf
  <2>1. v \in Node /\ G_Color[v] = G_Color[x] /\ G_Color[x] # -2
    BY <1>0 DEF ClassOf, Colored, ColorOf
  <2>2. w \in Node /\ G_Color[w] = G_Color[x]
    BY <1>8, <2>1
  <2> QED
    BY <1>0, <2>1, <2>2 DEF ClassOf, Colored, ColorOf
<1>10. FBP!Identified
  <2> SUFFICES ASSUME NEW v \in Node, G_SCC[v] # NIL
               PROVE  G_SCC[v] \in FBP!SCC(v) /\ \A w \in FBP!SCC(v) : G_SCC[w] = G_SCC[v]
    BY DEF FBP!Identified
  <2>1. G_SCC[v] = p /\ v \in FBP!SCC(p)
    BY <1>3, <1>4
  <2>2. p \in FBP!SCC(v)
    BY <1>6, <2>1
  <2> QED
    BY <1>8, <2>1, <2>2
<1> QED
  BY <1>1, <1>9, <1>10 DEF FBP!Inv

\* What leaves the colours alone leaves the classes alone.
LEMMA ClassesStay ==
  ASSUME E' = E, G_SCC' = G_SCC, Colored' = Colored, \A v \in Colored : ColorOf(v)' = ColorOf(v)
  PROVE  UNCHANGED FB!vars
<1>1. Parts' = Parts
  BY DEF Parts
<1> QED
  BY <1>1 DEF FB!vars, Parts

\* A root cuts its class: no edge leads from what has its label or a larger one to a
\* smaller one, nor from what has a larger one to what has not.
LEMMA RootCuts ==
  ASSUME WccInv, NEW t \in Thread, ColorRoot(t), NEW v \in Colored, IsRoot(v),
         G_Color' = [G_Color EXCEPT ![v] = NewColor(t)]
  PROVE  FB!Next
<1>1. phase = "color" /\ phase' = phase /\ G_WCC' = G_WCC /\ E' = E /\ G_SCC' = G_SCC
  BY DEF ColorRoot
<1>2. PICK c : c = NewColor(t)
  OBVIOUS
<1>3. /\ Colored' = Colored
      /\ \A w \in Node : c # G_Color[w]
      /\ \A w \in Colored : /\ GET_WCC_ROOT(w) \in Node
                            /\ ColorOf(w) = G_Color[GET_WCC_ROOT(w)]
                            /\ ColorOf(w)' = IF GET_WCC_ROOT(w) = v THEN c ELSE ColorOf(w)
  BY <1>1, <1>2, RootColored
<1>4. Rooted /\ Ordered
  BY <1>1 DEF WccInv, InColor
<1> DEFINE S == ClassOf(v)
           T == {w \in Colored : GET_WCC_ROOT(w) = v}
           A == {w \in S : G_WCC[v] <= G_WCC[w]}
           B == {w \in S : G_WCC[v] < G_WCC[w]}
<1>5. v \in T /\ T \subseteq S /\ S \subseteq Colored /\ S \in Parts
  <2>1. GET_WCC_ROOT(v) = v
    BY DEF IsRoot
  <2>2. ColorOf(v) = G_Color[v]
    BY <1>3, <2>1
  <2>3. \A w \in T : ColorOf(w) = G_Color[v]
    BY <1>3
  <2> QED
    BY <2>1, <2>2, <2>3 DEF ClassOf, Parts
<1>6. \A w \in Colored : G_WCC[w] \in Int
  <2> TAKE w \in Colored
  <2>1. PICK r \in Colored : G_WCC[w] = InitialLabel(r)
    BY <1>4 DEF Rooted
  <2> QED
    BY <2>1, LabelRoot DEF Colored
<1>7. A \in FB!Final(S) /\ B \in FB!Final(S)
  <2>1. ASSUME NEW x \in S, NEW y \in S, <<x, y>> \in E PROVE G_WCC[x] <= G_WCC[y]
    <3>1. x \in Colored /\ y \in Colored /\ y \in Neighbors(x) /\ ColorOf(x) = ColorOf(y)
      BY <1>5, <2>1 DEF ClassOf, Neighbors, Colored
    <3> QED
      BY <1>4, <3>1 DEF Ordered
  <2>2. \A x \in S : x \in Colored /\ G_WCC[x] \in Int /\ G_WCC[v] \in Int
    BY <1>5, <1>6
  <2>3. ASSUME NEW x \in A, NEW y \in S \ A, <<x, y>> \in E PROVE FALSE
    <3>1. x \in S /\ y \in S /\ G_WCC[v] <= G_WCC[x] /\ ~(G_WCC[v] <= G_WCC[y])
      BY <2>3
    <3> QED
      BY <2>1, <2>2, <2>3, <3>1
  <2>4. ASSUME NEW x \in B, NEW y \in S \ B, <<x, y>> \in E PROVE FALSE
    <3>1. x \in S /\ y \in S /\ G_WCC[v] < G_WCC[x] /\ ~(G_WCC[v] < G_WCC[y])
      BY <2>4
    <3> QED
      BY <2>1, <2>2, <2>4, <3>1
  <2> QED
    BY <2>3, <2>4 DEF FB!Final
<1>8. A \ B = T
  <2>1. ASSUME NEW w \in S PROVE w \in A \ B <=> G_WCC[w] = G_WCC[v]
    BY <1>5, <1>6
  <2>2. ASSUME NEW w \in S PROVE G_WCC[w] = G_WCC[v] <=> GET_WCC_ROOT(w) = v
    <3>1. G_WCC[w] = G_WCC[v] => GET_WCC_ROOT(w) = v
      BY DEF IsRoot, GET_WCC_ROOT
    <3>2. w \in Colored /\ G_WCC[w] = InitialLabel(GET_WCC_ROOT(w)) /\ G_WCC[v] = InitialLabel(v)
      BY <1>4, <1>5 DEF Rooted, IsRoot
    <3> QED
      BY <3>1, <3>2
  <2> QED
    BY <1>5, <2>1, <2>2
<1>9. Parts' = ((Parts \ {S}) \cup {T, S \ T}) \ {{}}
  <2>1. Parts = {ClassOf(u) : u \in Colored} /\ Parts' = {ClassOf(u)' : u \in Colored}
    BY <1>3 DEF Parts, ClassOf
  <2>2. \A w \in Colored : ColorOf(w) # c
    BY <1>3
  <2>3. ASSUME NEW u \in T PROVE ClassOf(u)' = T
    <3>1. ClassOf(u)' = {w \in Colored : ColorOf(w)' = ColorOf(u)'}
      BY <1>3 DEF ClassOf
    <3>2. u \in Colored /\ ColorOf(u)' = c
      BY <1>3, <1>5, <2>3
    <3> QED
      BY <1>3, <1>5, <2>2, <3>1, <3>2
  <2>4. ASSUME NEW u \in S \ T PROVE ClassOf(u)' = S \ T
    <3>1. ClassOf(u)' = {w \in Colored : ColorOf(w)' = ColorOf(u)'}
      BY <1>3 DEF ClassOf
    <3>2. u \in Colored /\ ColorOf(u)' = ColorOf(u) /\ ColorOf(u) = ColorOf(v)
      BY <1>3, <1>5, <2>4 DEF ClassOf
    <3>3. \A w \in Colored : ColorOf(w)' = ColorOf(u)' <=> w \in S /\ w \notin T
      BY <1>3, <1>5, <2>2, <3>2 DEF ClassOf
    <3> QED
      BY <1>5, <3>1, <3>3
  <2>5. ASSUME NEW u \in Colored \ S
        PROVE  ClassOf(u)' = ClassOf(u) /\ ClassOf(u) # S /\ ClassOf(u) # {}
    <3>1. ClassOf(u) \cap S = {} /\ u \in ClassOf(u)
      BY <2>5 DEF ClassOf
    <3> QED
      BY <1>3, <1>5, <2>2, <2>5, <3>1 DEF ClassOf
  <2>6. ASSUME NEW X \in Parts' PROVE X \in ((Parts \ {S}) \cup {T, S \ T}) \ {{}}
    <3>1. PICK u \in Colored : X = ClassOf(u)'
      BY <2>1
    <3> QED
      BY <1>5, <2>1, <2>3, <2>4, <2>5, <3>1
  <2>7. ASSUME NEW X \in ((Parts \ {S}) \cup {T, S \ T}) \ {{}} PROVE X \in Parts'
    <3>1. CASE X \in Parts /\ X # S
      <4>1. PICK u \in Colored : X = ClassOf(u)
        BY <2>1, <3>1
      <4>2. u \notin S
        BY <3>1, <4>1 DEF ClassOf
      <4> QED
        BY <2>1, <2>5, <4>1, <4>2
    <3>2. CASE X = T
      BY <1>5, <2>1, <2>3, <3>2
    <3>3. CASE X = S \ T
      <4>1. PICK u \in S \ T : TRUE
        BY <2>7, <3>3
      <4>2. u \in Colored /\ ClassOf(u)' = S \ T
        BY <1>5, <2>4
      <4> QED
        BY <2>1, <3>3, <4>2
    <3> QED
      BY <2>7, <3>1, <3>2, <3>3
  <2> QED
    BY <2>6, <2>7
<1>10. FB!Separate(S, T)
  <2> HIDE DEF S, T
  <2> QED
    BY <1>1, <1>9 DEF FB!Separate, Parts
<1> QED
  <2> HIDE DEF S, T, A, B
  <2>1. \E A2, B2 \in FB!Final(S) : FB!Separate(S, A2 \ B2)
    BY <1>7, <1>8, <1>10
  <2> QED
    BY <1>5, <2>1 DEF FB!Next, Parts

\* Every step is a cut of FwBw or leaves the classes alone.
LEMMA RefinementStep ==
  ASSUME WccInv, [Next]_vars
  PROVE  [FB!Next]_(FB!vars)
<1>1. ASSUME E' = E, G_SCC' = G_SCC, G_Color' = G_Color, phase' = phase \/ "color" \notin {phase, phase'},
             phase = "color" => G_WCC' = G_WCC
      PROVE  UNCHANGED FB!vars
  <2>1. Colored' = Colored
    BY <1>1 DEF Colored
  <2>2. \A v \in Colored : ColorOf(v)' = ColorOf(v)
    BY <1>1 DEF ColorOf, GET_WCC_ROOT
  <2> QED
    BY <1>1, <2>1, <2>2, ClassesStay
<1>2. CASE NextLoop
  <2>0. E' = E /\ G_SCC' = G_SCC /\ LoopDone /\ UNCHANGED <<colorVars, E, G_SCC, G_WCC, pool_cnt, th>>
    BY <1>2 DEF NextLoop
  <2>1. CASE phase = "shortcut" /\ ~Again /\ Goto("color", Colored) /\ UNCHANGED <<G_Color, finished, works>>
    <3>1. finished /\ UNCHANGED <<G_Color, works, finished>>
      BY <2>1 DEF Again
    <3>2. Colored' = Colored /\ \A v \in Colored : ColorOf(v)' = ColorOf(v)
      BY <2>0, <2>1, <3>1, RoundsEnd DEF Colored
    <3> QED
      BY <2>0, <3>2, ClassesStay
  <2>2. CASE phase = "color" /\ Goto("pool", Colored) /\ CopyColors /\ UNCHANGED <<finished, works>>
    <3>1. Colored' = Colored /\ \A v \in Colored : ColorOf(v)' = ColorOf(v)
      BY <2>0, <2>2, ColorsCopied
    <3> QED
      BY <2>0, <3>1, ClassesStay
  <2>3. CASE /\ phase \in {"hook", "shortcut", "pool"} /\ phase' \in {"hook", "shortcut", "done"}
             /\ G_Color' = G_Color
    BY <1>1, <2>0, <2>3
  <2> QED
    BY <1>2, <2>1, <2>2, <2>3 DEF NextLoop, Goto
<1>3. ASSUME NEW t \in Thread, Step(t)
      PROVE  [FB!Next]_(FB!vars)
  <2>1. CASE HookBegin(t) \/ ShortcutTest(t) \/ TakeSet(t) \/ HookRead(t)
    <3>1. E' = E /\ G_SCC' = G_SCC /\ G_Color' = G_Color /\ phase' = phase /\ G_WCC' = G_WCC
      BY <2>1 DEF HookBegin, ShortcutTest, TakeSet, HookRead
    <3> QED
      BY <1>1, <3>1
  <2>2. CASE HookEnd(t) \/ Shortcut(t)
    <3>1. E' = E /\ G_SCC' = G_SCC /\ G_Color' = G_Color /\ phase' = phase /\ ~Free(t)
      BY <2>2 DEF HookEnd, Shortcut, Free
    <3>2. phase # "color"
      BY <3>1, AllFree
    <3> QED
      BY <1>1, <3>1, <3>2
  <2>3. CASE ColorRoot(t)
    <3>1. PICK v \in todo :
            IF IsRoot(v)
            THEN G_Color' = [G_Color EXCEPT ![v] = NewColor(t)] /\ get_new_color(t)
            ELSE UNCHANGED <<G_Color, colorVars>>
      BY <2>3 DEF ColorRoot
    <3>2. v \in Colored
      BY DEF WccInv, Typed
    <3>3. CASE IsRoot(v)
      BY <2>3, <3>1, <3>2, <3>3, RootCuts
    <3>4. CASE ~IsRoot(v)
      <4>1. E' = E /\ G_SCC' = G_SCC /\ G_Color' = G_Color /\ phase' = phase /\ G_WCC' = G_WCC
        BY <2>3, <3>1, <3>4 DEF ColorRoot
      <4> QED
        BY <1>1, <4>1
    <3> QED
      BY <3>3, <3>4
  <2> QED
    BY <1>3, <2>1, <2>2, <2>3 DEF Step
<1>4. CASE UNCHANGED vars
  <2>1. E' = E /\ G_SCC' = G_SCC /\ G_Color' = G_Color /\ phase' = phase /\ G_WCC' = G_WCC
    BY <1>4 DEF vars, local
  <2> QED
    BY <1>1, <2>1
<1> QED
  BY <1>2, <1>3, <1>4 DEF Next

\* The rounds of labels, read by some threads while others write them, and the colours
\* of the roots implement the cuts of FwBw.
THEOREM WccImplementsFwBw == Spec => Refinement
<1>1. Init => FB!Partitioned /\ FB!WholeSCCs
  BY StartWhole, SameSCC DEF FBP!Inv
<1>2. WccInv /\ [Next]_vars => [FB!Next]_(FB!vars)
  BY RefinementStep
<1> QED
  BY <1>1, <1>2, WccInvariant, PTL DEF Spec, Refinement

\* So no item ever holds a part of an SCC only.
WholeItems == phase = "done" => \A w \in works : \A v \in w.set : FB!SCC(v) \subseteq w.set

\* The invariant of FwBw is inductive for the labels.
LEMMA AbstractInductive == FBP!Inv /\ [FB!Next]_(FB!vars) => FBP!Inv'
<1>0. NIL \notin Node /\ Graphs \subseteq SUBSET (Node \X Node)
  BY WccAssumption
<1>1. FBP!Inv /\ [FBP!Next]_(FBP!vars) => FBP!Inv'
  BY <1>0, FBP!NextInv
<1>2. [FB!Next]_(FB!vars) => [FBP!Next]_(FBP!vars)
  BY DEF FB!Next, FBP!Next, FB!vars, FBP!vars, FB!Trim, FBP!Trim, FB!Split, FBP!Split, FB!Trim2, FBP!Trim2,
         FB!Separate, FBP!Separate, FB!Pair, FBP!Pair, FB!Pieces, FBP!Pieces, FB!Final, FBP!Final,
         FB!Assign, FBP!Assign, FB!Reachable, FBP!Reachable, FB!Closed, FBP!Closed, FB!Reverse, FBP!Reverse,
         FB!Trimmable, FBP!Trimmable, Parts
<1> QED
  BY <1>1, <1>2

\* The set of an item is a class.
LEMMA ItemsWhole == WccInv /\ FBP!Inv => WholeItems
<1> SUFFICES ASSUME WccInv, FBP!Inv, phase = "done", NEW w \in works, NEW v \in w.set
             PROVE  FBP!SCC(v) \subseteq w.set
  BY SameSCC DEF WholeItems
<1>1. w.set = OfColor(w.color) /\ w.set \subseteq Colored
  <2>1. Labelled
    BY InvLabelled
  <2> QED
    BY <2>1 DEF Labelled
<1>2. v \in Colored /\ w.set = ClassOf(v)
  BY <1>1 DEF OfColor, ClassOf, ColorOf, Colored
<1> QED
  BY <1>2 DEF FBP!Inv, FBP!WholeSCCs, Parts, ClassOf

\* Each item of the queue that the labels fill holds whole SCCs.
THEOREM WccKeepsSCCs == Spec => []WholeItems
<1>1. Init => FBP!Inv
  BY StartWhole
<1>2. WccInv /\ FBP!Inv /\ [Next]_vars => FBP!Inv'
  BY RefinementStep, AbstractInductive
<1>3. WccInv /\ FBP!Inv => WholeItems
  BY ItemsWhole
<1> QED
  BY <1>1, <1>2, <1>3, WccInvariant, PTL DEF Spec
=============================================================================
