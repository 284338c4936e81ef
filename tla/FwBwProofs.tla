----------------------------- MODULE FwBwProofs -----------------------------
(***************************************************************************)
(* FW-BW is correct on every graph: trimming and splitting keep whole SCCs *)
(* together and record exactly the SCC of the pivot.  The heart is         *)
(* ComponentInside: a class that holds the whole component of p also holds *)
(* every path inside it, so looking for it inside the class finds all of   *)
(* it.                                                                     *)
(***************************************************************************)
EXTENDS FwBw, TLAPS

-----------------------------------------------------------------------------
(* Reachability inside a set of nodes                                      *)

\* What p reaches inside S contains p and is closed under the edges inside S.
LEMMA ReachClosed ==
  ASSUME NEW R, NEW S, NEW p \in S
  PROVE  Reachable(R, S, p) \in Closed(R, S, p)
BY DEF Reachable, Closed

\* It is the least such set.
LEMMA ReachLeast ==
  ASSUME NEW R, NEW S, NEW p, NEW T \in Closed(R, S, p)
  PROVE  Reachable(R, S, p) \subseteq T
BY DEF Reachable

\* Reachability is transitive.
LEMMA ReachTransitive ==
  ASSUME NEW R, NEW S, NEW p \in S, NEW v \in Reachable(R, S, p)
  PROVE  Reachable(R, S, v) \subseteq Reachable(R, S, p)
<1>1. Reachable(R, S, p) \in Closed(R, S, p)
  BY ReachClosed
<1>2. Reachable(R, S, p) \in Closed(R, S, v)
  BY <1>1 DEF Closed
<1> QED
  BY <1>2, ReachLeast

\* An edge inside S extends what is reached.
LEMMA ReachStep ==
  ASSUME NEW R, NEW S, NEW p \in S, NEW v \in Reachable(R, S, p), NEW w \in S, <<v, w>> \in R
  PROVE  w \in Reachable(R, S, p)
BY ReachClosed DEF Closed

\* What is reached inside S is reached inside a larger set.
LEMMA ReachMonotone ==
  ASSUME NEW R, NEW N, NEW S \in SUBSET N, NEW p \in S
  PROVE  Reachable(R, S, p) \subseteq Reachable(R, N, p)
<1> DEFINE T == S \cap Reachable(R, N, p)
<1>1. Reachable(R, N, p) \in Closed(R, N, p)
  BY ReachClosed
<1>2. T \in Closed(R, S, p)
  BY <1>1 DEF Closed
<1> QED
  BY <1>2, ReachLeast

\* Reversing twice gives the edges back.
LEMMA ReverseTwice ==
  ASSUME NEW R \in SUBSET (Node \X Node)
  PROVE  Reverse(R) \in SUBSET (Node \X Node) /\ Reverse(Reverse(R)) = R
<1>1. ASSUME NEW Q \in SUBSET (Node \X Node)
      PROVE  /\ Reverse(Q) \in SUBSET (Node \X Node)
             /\ \A v, w \in Node : <<v, w>> \in Reverse(Q) <=> <<w, v>> \in Q
  BY DEF Reverse
<1> DEFINE RR == Reverse(Reverse(R))
<1>2. RR \in SUBSET (Node \X Node)
  BY <1>1
<1>3. \A v, w \in Node : <<v, w>> \in RR <=> <<v, w>> \in R
  BY <1>1
<1> HIDE DEF RR
<1>4. \A e \in Node \X Node : e \in RR <=> e \in R
  BY <1>3
<1>5. RR = R
  BY <1>2, <1>4
<1> QED
  BY <1>1, <1>5 DEF RR

\* If p reaches v, then v reaches p by the reversed edges.
LEMMA ReachReversed ==
  ASSUME NEW R \in SUBSET (Node \X Node), NEW p \in Node, NEW v \in Reachable(R, Node, p)
  PROVE  p \in Reachable(Reverse(R), Node, v)
<1> DEFINE B(x) == Reachable(Reverse(R), Node, x)
           U == {x \in Node : p \in B(x)}
<1>1. p \in U
  BY ReachClosed DEF Closed
<1>2. ASSUME NEW x \in U, NEW y \in Node, <<x, y>> \in R
      PROVE  y \in U
  <2>1. <<y, x>> \in Reverse(R)
    BY <1>2 DEF Reverse
  <2>2. y \in B(y)
    BY ReachClosed DEF Closed
  <2>3. x \in B(y)
    BY <2>1, <2>2, ReachStep
  <2>4. B(x) \subseteq B(y)
    BY <2>3, ReachTransitive
  <2> QED
    BY <2>4
<1>3. U \in Closed(R, Node, p)
  BY <1>1, <1>2 DEF Closed
<1> QED
  BY <1>3, ReachLeast

-----------------------------------------------------------------------------
(* Components                                                              *)

Component(R, p) == Reachable(R, Node, p) \cap Reachable(Reverse(R), Node, p)

\* Reversing the edges does not change a component.
LEMMA ComponentReversed ==
  ASSUME NEW R \in SUBSET (Node \X Node), NEW p \in Node
  PROVE  Component(Reverse(R), p) = Component(R, p)
BY ReverseTwice DEF Component

\* Two nodes are in one component exactly if each reaches the other.
LEMMA ComponentMembers ==
  ASSUME NEW R \in SUBSET (Node \X Node), NEW p \in Node, NEW v \in Node
  PROVE  v \in Component(R, p) <=> v \in Reachable(R, Node, p) /\ p \in Reachable(R, Node, v)
<1>1. v \in Reachable(Reverse(R), Node, p) => p \in Reachable(R, Node, v)
  BY ReachReversed, ReverseTwice
<1>2. p \in Reachable(R, Node, v) => v \in Reachable(Reverse(R), Node, p)
  BY ReachReversed
<1> QED
  BY <1>1, <1>2 DEF Component

\* Being in one component is an equivalence.
LEMMA ComponentEquivalence ==
  ASSUME NEW R \in SUBSET (Node \X Node), NEW p \in Node
  PROVE  /\ p \in Component(R, p)
         /\ Component(R, p) \subseteq Node
         /\ \A v \in Component(R, p) : Component(R, v) = Component(R, p)
<1>1. Component(R, p) \subseteq Node
  BY DEF Component, Reachable
<1>2. p \in Component(R, p)
  BY ReachClosed DEF Component, Closed
<1>3. ASSUME NEW q \in Node, NEW v \in Component(R, q)
      PROVE  Component(R, v) \subseteq Component(R, q)
  <2>1. v \in Node
    BY DEF Component, Reachable
  <2>2. Reachable(R, Node, v) \subseteq Reachable(R, Node, q)
    BY <1>3, ReachTransitive DEF Component
  <2>3. Reachable(Reverse(R), Node, v) \subseteq Reachable(Reverse(R), Node, q)
    BY <1>3, ReachTransitive DEF Component
  <2> QED
    BY <2>2, <2>3 DEF Component
<1>4. ASSUME NEW v \in Component(R, p)
      PROVE  Component(R, v) = Component(R, p)
  <2>1. v \in Node
    BY <1>1
  <2>2. p \in Component(R, v)
    BY <2>1, ComponentMembers
  <2> QED
    BY <1>3, <2>1, <2>2
<1> QED
  BY <1>1, <1>2, <1>4

\* A class with the whole component of p: inside it p still reaches all of it.
LEMMA ComponentInside ==
  ASSUME NEW R \in SUBSET (Node \X Node), NEW S \in SUBSET Node, NEW p \in S,
         Component(R, p) \subseteq S
  PROVE  Component(R, p) \subseteq Reachable(R, S, p)
<1> DEFINE F(x) == Reachable(R, Node, x)
<1>1. SUFFICES ASSUME NEW v \in Component(R, p), NEW T \in Closed(R, S, p)
               PROVE  v \in T
  BY DEF Reachable
<1> DEFINE U == (T \cap F(p)) \cup {x \in F(p) : p \notin F(x)}
<1>2. p \in U
  BY ReachClosed DEF Closed
<1>3. ASSUME NEW x \in U, NEW y \in Node, <<x, y>> \in R
      PROVE  y \in U
  <2>1. x \in F(p) /\ x \in Node
    BY DEF Reachable
  <2>2. y \in F(p)
    BY <1>3, <2>1, ReachStep
  <2>3. CASE p \notin F(y)
    BY <2>2, <2>3
  <2>4. CASE p \in F(y)
    <3>1. x \in F(x)
      BY <2>1, ReachClosed DEF Closed
    <3>2. y \in F(x)
      BY <1>3, <2>1, <3>1, ReachStep
    <3>3. p \in F(x)
      BY <2>1, <2>4, <3>2, ReachTransitive
    <3>4. x \in T
      BY <3>3
    <3>5. y \in S
      BY <2>2, <2>4, ComponentMembers
    <3>6. y \in T
      BY <1>3, <3>4, <3>5 DEF Closed
    <3> QED
      BY <2>2, <3>6
  <2> QED
    BY <2>3, <2>4
<1>4. U \in Closed(R, Node, p)
  BY <1>2, <1>3 DEF Closed, Reachable
<1>5. F(p) \subseteq U
  BY <1>4, ReachLeast
<1>6. v \in F(p) /\ p \in F(v)
  BY ComponentMembers DEF Component, Reachable
<1> QED
  BY <1>5, <1>6

-----------------------------------------------------------------------------
(* Classes of whole components                                             *)

Whole(S) == \A v \in S : SCC(v) \subseteq S

\* SCC(p) is the component of p by the edges of the graph.
LEMMA SCCIsComponent ==
  ASSUME TypeOK, NEW p \in Node
  PROVE  /\ E \in SUBSET (Node \X Node)
         /\ SCC(p) = Component(E, p)
         /\ SCC(p) = Component(Reverse(E), p)
BY GraphsAssumption, ComponentReversed DEF TypeOK, SCC, Component

\* Being in one SCC is an equivalence.
LEMMA SCCEquivalence ==
  ASSUME TypeOK, NEW p \in Node
  PROVE  /\ p \in SCC(p) /\ SCC(p) \subseteq Node
         /\ \A v \in SCC(p) : SCC(v) = SCC(p)
BY SCCIsComponent, ComponentEquivalence

\* What is left of a class of whole components without another one is whole.
LEMMA WholeDifference ==
  ASSUME TypeOK, NEW S \in SUBSET Node, NEW T \in SUBSET Node, Whole(S), Whole(T)
  PROVE  Whole(S \ T)
<1> SUFFICES ASSUME NEW v \in S \ T, NEW w \in SCC(v)
             PROVE  w \in S \ T
  BY DEF Whole
<1>1. w \in S
  BY DEF Whole
<1>2. w \in T => v \in T
  BY SCCEquivalence DEF Whole
<1> QED
  BY <1>1, <1>2

\* The nodes reached forward and backward inside a class of whole components
\* are whole, and their intersection is the component of the pivot.
LEMMA SplitWhole ==
  ASSUME TypeOK, NEW S \in SUBSET Node, Whole(S), NEW p \in S
  PROVE  LET fw == Reachable(E, S, p)
             bw == Reachable(Reverse(E), S, p)
         IN  Whole(fw) /\ Whole(bw) /\ fw \cap bw = SCC(p)
<1> DEFINE fw == Reachable(E, S, p)
           bw == Reachable(Reverse(E), S, p)
<1>0. E \in SUBSET (Node \X Node) /\ Reverse(E) \in SUBSET (Node \X Node)
  BY SCCIsComponent, ReverseTwice
<1>1. ASSUME NEW v \in S
      PROVE  SCC(v) \subseteq Reachable(E, S, v) /\ SCC(v) \subseteq Reachable(Reverse(E), S, v)
  <2>1. SCC(v) \subseteq S
    BY DEF Whole
  <2> QED
    BY <1>0, <2>1, SCCIsComponent, ComponentInside
<1>2. fw \subseteq S /\ bw \subseteq S
  BY DEF Reachable
<1>3. Whole(fw)
  <2> SUFFICES ASSUME NEW v \in fw PROVE SCC(v) \subseteq fw
    BY DEF Whole
  <2> QED
    BY <1>1, <1>2, ReachTransitive
<1>4. Whole(bw)
  <2> SUFFICES ASSUME NEW v \in bw PROVE SCC(v) \subseteq bw
    BY DEF Whole
  <2> QED
    BY <1>1, <1>2, ReachTransitive
<1>5. fw \cap bw \subseteq SCC(p)
  BY ReachMonotone DEF SCC
<1> QED
  BY <1>1, <1>3, <1>4, <1>5

\* A node that can be trimmed from a class of whole components is one.
LEMMA TrimWhole ==
  ASSUME TypeOK, NEW S \in SUBSET Node, Whole(S), NEW v \in S, Trimmable(S, v)
  PROVE  SCC(v) = {v}
<1>1. CASE \A w \in S \ {v} : <<v, w>> \notin E
  <2>1. {v} \in Closed(E, S, v)
    BY <1>1 DEF Closed
  <2> QED
    BY <2>1, ReachLeast, SplitWhole, SCCEquivalence
<1>2. CASE \A w \in S \ {v} : <<w, v>> \notin E
  <2>0. E \in SUBSET (Node \X Node)
    BY SCCIsComponent
  <2>1. {v} \in Closed(Reverse(E), S, v)
    BY <1>2, <2>0 DEF Closed, Reverse
  <2> QED
    BY <2>1, ReachLeast, SplitWhole, SCCEquivalence
<1> QED
  BY <1>1, <1>2 DEF Trimmable

\* Two nodes that can be trimmed together from a class of whole components are one.
LEMMA PairWhole ==
  ASSUME TypeOK, NEW S \in SUBSET Node, Whole(S), NEW v \in S, NEW w \in S, Pair(S, v, w)
  PROVE  SCC(v) = {v, w}
<1> DEFINE fw == Reachable(E, S, v)
           bw == Reachable(Reverse(E), S, v)
<1>0. E \in SUBSET (Node \X Node) /\ <<v, w>> \in E /\ <<v, w>> \in Reverse(E)
  <2>1. v \in Node /\ <<v, w>> \in E /\ <<w, v>> \in E
    BY DEF Pair
  <2>2. <<v, w>> \in Reverse(E)
    BY <2>1 DEF Reverse
  <2> QED
    BY <2>1, <2>2, SCCIsComponent
<1>1. v \in fw /\ v \in bw
  BY ReachClosed DEF Closed
<1>2. w \in fw /\ w \in bw
  BY <1>0, <1>1, ReachStep
<1>3. fw \cap bw = SCC(v)
  BY SplitWhole
<1>4. CASE \A x \in {v, w}, y \in S \ {v, w} : <<x, y>> \notin E
  <2>1. {v, w} \in Closed(E, S, v)
    BY <1>4 DEF Closed
  <2>2. fw \subseteq {v, w}
    BY <2>1, ReachLeast
  <2> QED
    BY <1>1, <1>2, <1>3, <2>2
<1>5. CASE \A x \in {v, w}, y \in S \ {v, w} : <<y, x>> \notin E
  <2>1. {v, w} \in Closed(Reverse(E), S, v)
    BY <1>5, <1>0 DEF Closed, Reverse
  <2>2. bw \subseteq {v, w}
    BY <2>1, ReachLeast
  <2> QED
    BY <1>1, <1>2, <1>3, <2>2
<1> QED
  BY <1>4, <1>5 DEF Pair

\* A part of a class that no edge leaves holds whole components.
LEMMA FinalWhole ==
  ASSUME TypeOK, NEW S \in SUBSET Node, Whole(S), NEW T \in Final(S)
  PROVE  Whole(T)
<1> SUFFICES ASSUME NEW v \in T PROVE SCC(v) \subseteq T
  BY DEF Whole
<1>0. T \subseteq S
  BY DEF Final
<1>1. SCC(v) \subseteq Reachable(E, S, v)
  BY <1>0, SplitWhole
<1>2. T \in Closed(E, S, v)
  BY <1>0 DEF Closed, Final
<1> QED
  BY <1>1, <1>2, ReachLeast

-----------------------------------------------------------------------------
(* The invariant                                                           *)

Inv == TypeOK /\ Partitioned /\ WholeSCCs /\ Identified

\* Identifying the component of a node of a class and replacing the class by
\* disjoint whole parts of the rest keeps the invariant.
LEMMA Replace ==
  ASSUME Inv, NEW S \in classes, NEW p \in S, NEW X \in SUBSET SUBSET S,
         \A T \in X : Whole(T),
         \A T, T2 \in X : T # T2 => T \cap T2 = {},
         UNION X = S \ SCC(p),
         G_SCC' = Assign(SCC(p), p),
         classes' = ((classes \ {S}) \cup X) \ {{}},
         E' = E
  PROVE  Inv'
<1> USE DEF Inv
<1>0. S \subseteq Node /\ p \in Node /\ Whole(S) /\ SCC(p) \subseteq S
  BY DEF TypeOK, WholeSCCs, Whole
<1>1. TypeOK'
  BY <1>0 DEF TypeOK, Assign
<1>2. \A v \in Node : SCC(v)' = SCC(v)
  BY DEF SCC, Reachable, Closed, Reverse
<1>3. \A v \in Node : G_SCC'[v] = IF v \in SCC(p) THEN p ELSE G_SCC[v]
  BY DEF Assign
<1>4. Partitioned'
  <2>1. {} \notin classes'
    OBVIOUS
  <2>2. ASSUME NEW T \in classes', NEW T2 \in classes', T # T2
        PROVE  T \cap T2 = {}
    BY <2>2 DEF Partitioned
  <2>3. UNION classes' = (UNION classes) \ SCC(p)
    <3>1. ASSUME NEW v \in UNION classes' PROVE v \in (UNION classes) \ SCC(p)
      BY <1>0 DEF Partitioned
    <3>2. ASSUME NEW v \in (UNION classes) \ SCC(p) PROVE v \in UNION classes'
      <4>1. PICK T \in classes : v \in T
        OBVIOUS
      <4>2. CASE T = S
        <5>1. PICK T2 \in X : v \in T2
          BY <4>1, <4>2
        <5> QED
          BY <5>1
      <4>3. CASE T # S
        BY <4>1, <4>3
      <4> QED
        BY <4>2, <4>3
    <3> QED
      BY <3>1, <3>2
  <2>4. UNION classes' = {v \in Node : G_SCC'[v] = NIL}
    BY <1>0, <1>3, <2>3, NilAssumption DEF Partitioned
  <2> QED
    BY <2>1, <2>2, <2>4 DEF Partitioned
<1>5. WholeSCCs'
  <2> SUFFICES ASSUME NEW T \in classes', NEW v \in T
               PROVE  SCC(v)' \subseteq T
    BY DEF WholeSCCs
  <2>1. v \in Node
    BY <1>1 DEF TypeOK
  <2>2. SCC(v) \subseteq T
    BY DEF WholeSCCs, Whole
  <2> QED
    BY <1>2, <2>1, <2>2
<1>6. Identified'
  <2> SUFFICES ASSUME NEW v \in Node, G_SCC'[v] # NIL
               PROVE  G_SCC'[v] \in SCC(v) /\ \A w \in SCC(v) : G_SCC'[w] = G_SCC'[v]
    BY <1>2 DEF Identified
  <2>0. SCC(v) \subseteq Node /\ v \in SCC(v)
    BY SCCEquivalence
  <2>1. CASE v \in SCC(p)
    <3>1. SCC(v) = SCC(p) /\ p \in SCC(p)
      BY <1>0, <2>1, SCCEquivalence
    <3> QED
      BY <1>3, <2>0, <2>1, <3>1
  <2>2. CASE v \notin SCC(p)
    <3>1. G_SCC[v] # NIL /\ G_SCC'[v] = G_SCC[v]
      BY <1>3, <2>2
    <3>2. \A w \in SCC(v) : w \notin SCC(p)
      BY <1>0, <2>0, <2>2, SCCEquivalence
    <3>3. G_SCC[v] \in SCC(v) /\ \A w \in SCC(v) : G_SCC[w] = G_SCC[v]
      BY <3>1 DEF Identified
    <3> QED
      BY <1>3, <2>0, <3>1, <3>2, <3>3
  <2> QED
    BY <2>1, <2>2
<1> QED
  BY <1>1, <1>4, <1>5, <1>6

\* Cutting a class into two whole parts keeps the invariant.
LEMMA Cut ==
  ASSUME Inv, NEW S \in classes, NEW T \in SUBSET S, Whole(T), Separate(S, T)
  PROVE  Inv'
<1> USE DEF Inv
<1>0. S \subseteq Node /\ Whole(S)
  BY DEF TypeOK, WholeSCCs, Whole
<1>1. E' = E /\ G_SCC' = G_SCC /\ classes' = ((classes \ {S}) \cup {T, S \ T}) \ {{}}
  BY DEF Separate
<1>2. Whole(S \ T)
  BY <1>0, WholeDifference
<1>3. TypeOK'
  BY <1>0, <1>1 DEF TypeOK
<1>4. Partitioned'
  <2>1. {} \notin classes'
    BY <1>1
  <2>2. ASSUME NEW A \in classes', NEW B \in classes', A # B
        PROVE  A \cap B = {}
    BY <1>1, <2>2 DEF Partitioned
  <2>3. UNION classes' = UNION classes
    <3>1. ASSUME NEW v \in UNION classes' PROVE v \in UNION classes
      BY <1>1
    <3>2. ASSUME NEW v \in UNION classes PROVE v \in UNION classes'
      <4>1. PICK A \in classes : v \in A
        OBVIOUS
      <4>2. CASE v \in T
        <5>1. T \in classes'
          BY <1>1, <4>2
        <5> QED
          BY <4>2, <5>1
      <4>3. CASE v \in S \ T
        <5>1. S \ T \in classes'
          BY <1>1, <4>3
        <5> QED
          BY <4>3, <5>1
      <4>4. CASE v \notin S
        <5>1. A \in classes'
          BY <1>1, <4>1, <4>4
        <5> QED
          BY <4>1, <5>1
      <4> QED
        BY <4>2, <4>3, <4>4
    <3> QED
      BY <3>1, <3>2
  <2> QED
    BY <1>1, <2>1, <2>2, <2>3 DEF Partitioned
<1>5. \A v \in Node : SCC(v)' = SCC(v)
  BY <1>1 DEF SCC, Reachable, Closed, Reverse
<1>6. WholeSCCs'
  <2> SUFFICES ASSUME NEW A \in classes', NEW v \in A
               PROVE  SCC(v)' \subseteq A
    BY DEF WholeSCCs
  <2>1. v \in Node
    BY <1>3 DEF TypeOK
  <2>2. SCC(v) \subseteq A
    BY <1>1, <1>2 DEF WholeSCCs, Whole
  <2> QED
    BY <1>5, <2>1, <2>2
<1>7. Identified'
  BY <1>1, <1>5 DEF Identified
<1> QED
  BY <1>3, <1>4, <1>6, <1>7

\* The invariant holds initially.
LEMMA InitInv == Init => Inv
<1> SUFFICES ASSUME Init PROVE Inv
  OBVIOUS
<1>1. TypeOK
  BY DEF Init, TypeOK
<1>2. Partitioned
  BY DEF Init, Partitioned
<1>3. WholeSCCs
  BY DEF Init, WholeSCCs, SCC, Reachable
<1>4. Identified
  BY DEF Init, Identified
<1> QED
  BY <1>1, <1>2, <1>3, <1>4 DEF Inv

\* Every step keeps it.
LEMMA NextInv == Inv /\ [Next]_vars => Inv'
<1> SUFFICES ASSUME Inv, [Next]_vars PROVE Inv'
  OBVIOUS
<1>1. CASE UNCHANGED vars
  <2>1. UNCHANGED <<E, G_SCC, classes>>
    BY <1>1 DEF vars
  <2>2. TypeOK' /\ Partitioned'
    BY <2>1 DEF Inv, TypeOK, Partitioned
  <2>3. \A v \in Node : SCC(v)' = SCC(v)
    BY <2>1 DEF SCC, Reachable, Closed, Reverse
  <2>4. WholeSCCs'
    BY <2>1, <2>3 DEF Inv, TypeOK, WholeSCCs
  <2>5. Identified'
    BY <2>1, <2>3 DEF Inv, Identified
  <2> QED
    BY <2>2, <2>4, <2>5 DEF Inv
<1>2. ASSUME NEW S \in classes, NEW p \in S, Trim(S, p)
      PROVE  Inv'
  <2>1. S \in SUBSET Node /\ Whole(S)
    BY DEF Inv, TypeOK, WholeSCCs, Whole
  <2>2. SCC(p) = {p}
    BY <1>2, <2>1, TrimWhole DEF Inv, Trim
  <2>3. Whole({p})
    BY <2>2 DEF Whole
  <2>4. Whole(S \ {p})
    BY <2>1, <2>3, WholeDifference DEF Inv
  <2> DEFINE X == {S \ {p}}
  <2>5. X \in SUBSET SUBSET S /\ UNION X = S \ SCC(p) /\ \A T \in X : Whole(T)
    BY <2>2, <2>4
  <2>6. \A T, T2 \in X : T # T2 => T \cap T2 = {}
    OBVIOUS
  <2>7. G_SCC' = Assign(SCC(p), p) /\ classes' = ((classes \ {S}) \cup X) \ {{}} /\ E' = E
    BY <1>2, <2>2 DEF Trim
  <2> HIDE DEF X
  <2> QED
    BY <2>5, <2>6, <2>7, Replace
<1>3. ASSUME NEW S \in classes, NEW p \in S, Split(S, p)
      PROVE  Inv'
  <2> DEFINE fw == Reachable(E, S, p)
             bw == Reachable(Reverse(E), S, p)
             X  == Pieces(S, fw, bw)
  <2>1. S \in SUBSET Node /\ Whole(S)
    BY DEF Inv, TypeOK, WholeSCCs, Whole
  <2>2. Whole(fw) /\ Whole(bw) /\ fw \cap bw = SCC(p)
    BY <2>1, SplitWhole DEF Inv
  <2>3. fw \subseteq S /\ bw \subseteq S
    BY DEF Reachable
  <2>4. G_SCC' = Assign(SCC(p), p) /\ classes' = ((classes \ {S}) \cup X) \ {{}} /\ E' = E
    BY <1>3, <2>2 DEF Split
  <2> HIDE DEF fw, bw
  <2>5. Whole(fw \ bw) /\ Whole(bw \ fw)
    BY <2>1, <2>2, <2>3, WholeDifference DEF Inv
  <2>6. Whole(S \ (fw \cup bw))
    <3>1. Whole(fw \cup bw)
      BY <2>2 DEF Whole
    <3> QED
      BY <2>1, <2>3, <3>1, WholeDifference DEF Inv
  <2>7. \A T \in X : Whole(T)
    BY <2>5, <2>6 DEF Pieces
  <2>8. X \in SUBSET SUBSET S /\ UNION X = S \ SCC(p)
    BY <2>2, <2>3 DEF Pieces
  <2>9. \A T, T2 \in X : T # T2 => T \cap T2 = {}
    BY DEF Pieces
  <2> HIDE DEF X
  <2> QED
    BY <2>4, <2>7, <2>8, <2>9, Replace
<1>4. ASSUME NEW S \in classes, NEW v \in S, NEW w \in S, Trim2(S, v, w)
      PROVE  Inv'
  <2>1. S \in SUBSET Node /\ Whole(S) /\ TypeOK
    BY DEF Inv, TypeOK, WholeSCCs, Whole
  <2>2. SCC(v) = {v, w}
    BY <1>4, <2>1, PairWhole DEF Trim2
  <2>3. Whole({v, w})
    <3>1. v \in Node /\ \A x \in SCC(v) : SCC(x) = SCC(v)
      BY <2>1, SCCEquivalence
    <3> QED
      BY <2>2, <3>1 DEF Whole
  <2>4. Whole(S \ {v, w})
    BY <2>1, <2>3, WholeDifference
  <2> DEFINE X == {S \ {v, w}}
  <2>5. X \in SUBSET SUBSET S /\ UNION X = S \ SCC(v) /\ \A T \in X : Whole(T)
    BY <2>2, <2>4
  <2>6. \A T, T2 \in X : T # T2 => T \cap T2 = {}
    OBVIOUS
  <2>7. G_SCC' = Assign(SCC(v), v) /\ classes' = ((classes \ {S}) \cup X) \ {{}} /\ E' = E
    BY <1>4, <2>2 DEF Trim2
  <2> HIDE DEF X
  <2> QED
    BY <2>5, <2>6, <2>7, Replace
<1>5. ASSUME NEW S \in classes, NEW A \in Final(S), NEW B \in Final(S), Separate(S, A \ B)
      PROVE  Inv'
  <2>1. S \in SUBSET Node /\ Whole(S) /\ TypeOK
    BY DEF Inv, TypeOK, WholeSCCs, Whole
  <2>2. A \subseteq S /\ B \subseteq S
    BY DEF Final
  <2>3. Whole(A) /\ Whole(B)
    BY <2>1, FinalWhole
  <2>4. Whole(A \ B)
    BY <2>1, <2>2, <2>3, WholeDifference
  <2>5. (A \ B) \in SUBSET S
    BY <2>2
  <2> QED
    BY <1>5, <2>4, <2>5, Cut
<1> QED
  BY <1>1, <1>2, <1>3, <1>4, <1>5 DEF Next

\* The classes and the identified nodes always partition the nodes.
THEOREM ClassesPartition == Spec => []Partitioned
<1>1. Inv => Partitioned
  BY DEF Inv
<1> QED
  BY InitInv, NextInv, <1>1, PTL DEF Spec

\* No SCC is ever cut in two by trimming or splitting.
THEOREM ComponentsStayWhole == Spec => []WholeSCCs
<1>1. Inv => WholeSCCs
  BY DEF Inv
<1> QED
  BY InitInv, NextInv, <1>1, PTL DEF Spec

\* On every graph, what trimming and the tasks record is the SCC of the node.
THEOREM Correct == Spec => []Identified
<1>1. Inv => Identified
  BY DEF Inv
<1> QED
  BY InitInv, NextInv, <1>1, PTL DEF Spec
=============================================================================
