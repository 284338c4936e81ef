----------------------------- MODULE UFSCCProofs ----------------------------
(***************************************************************************)
(* Theorems about the UFSCC algorithm, for every graph, every number of    *)
(* workers and every width of the worker set: its types, the order of its  *)
(* parents, what sameset answers and where the bits are. Then what the     *)
(* invariant of its search, Search, says of one worker: of its stack of    *)
(* roots, its trail of calls, its bits, and what it knows in every call.   *)
(* Last, what the steps of others leave of it, and its own steps: inside   *)
(* the union-find, and in scc_ufscc_recurse.                               *)
(***************************************************************************)
EXTENDS UFSCC, UFSetsProofs, FiniteSetTheorems

Frame == [v_p : Slot, k : Nat, v : Slot]
Tls == [i : Nat, roots : Seq(Slot), v : Slot, v_p : Slot, w : Slot,
        rec : Seq(Frame), k : Nat, unique : Nat]

OwnTyped ==
  /\ G \in Graphs
  /\ tls \in [Worker -> Tls]
  /\ total \in Nat
  /\ G_SCC \in [Node -> Slot]

Types == Typed(Callers) /\ OwnTyped

\* The inductive typing implies the type invariant.
LEMMA TypesTypeOK == Types => TypeOK
BY TypedUFTypeOK DEF Types, OwnTyped, TypeOK, Tls, Frame

-----------------------------------------------------------------------------
(* The static schedule of the initial states (line 672) *)

\* OpenMP's static schedule gives every thread a chunk inside the states.
LEMMA ChunkBounds ==
  ASSUME NEW t \in 0 .. NWorkers
  PROVE  ChunkFirst(t) \in 1 .. N+1
<1> DEFINE d == N \div NWorkers
           m == N % NWorkers
<1>1. N \in Nat /\ NWorkers \in Nat /\ NWorkers > 0
  BY UFConstants
<1>2. d \in Nat /\ m \in Nat /\ N = NWorkers * d + m
  BY <1>1
<1>3. NWorkers - t \in Nat /\ t \in Nat
  BY <1>1
<1>4. t * d \in Nat /\ (NWorkers - t) * d \in Nat
  BY <1>2, <1>3
<1>5. NWorkers * d = t * d + (NWorkers - t) * d
  BY <1>1, <1>2, <1>3
<1>6. LeastOf(t, m) \in 0 .. m
  BY <1>2, <1>3 DEF LeastOf
<1>7. ChunkFirst(t) = 1 + t * d + LeastOf(t, m)
  BY DEF ChunkFirst
<1> HIDE DEF d, m
<1>. QED
  BY <1>2, <1>4, <1>5, <1>6, <1>7

\* It holds initially.
LEMMA InitTypes == Init => Types
<1> SUFFICES ASSUME Init PROVE Types
  OBVIOUS
<1>1. uf_node \in Entry
  BY SlotZero DEF uf_node, Entry, WorkerSet
<1>2. [first |-> FALSE, same |-> NoSame, pick |-> NoPick, unite |-> NoUnite] \in Locals
  BY NoneTyped DEF Locals
<1>3. UfTyped /\ LocTyped
  BY <1>1, <1>2 DEF Init, UFInit, UfTyped, LocTyped
<1>4. ControlTyped(Callers)
  <2>1. pc \in [Worker -> Labels \cup Callers] /\ \A w \in Worker : pc[w] = "next"
    BY DEF Init, Callers
  <2>2. stack \in [Worker -> Seq(Back(Callers))] /\ path \in [Worker -> Seq(Slot)]
    BY DEF Init, UFInit
  <2>3. ret \in [Worker -> [code : Codes, node : Slot]]
    BY SlotZero DEF Init, UFInit, NoRet, Codes
  <2>. QED
    BY <2>1, <2>2, <2>3 DEF ControlTyped
<1>5. \A t \in Worker : [i |-> ChunkFirst(t), roots |-> <<>>, rec |-> <<>>,
                        v |-> 0, v_p |-> 0, k |-> 0, w |-> 0, unique |-> 0] \in Tls
  <2> TAKE t \in Worker
  <2>1. ChunkFirst(t) \in Nat
    BY ChunkBounds, UFConstants DEF Worker
  <2>. QED
    BY <2>1, SlotZero DEF Tls
<1>6. OwnTyped
  BY <1>5, SlotZero DEF Init, OwnTyped
<1>. QED
  BY <1>3, <1>4, <1>6 DEF Types, Typed
-----------------------------------------------------------------------------
(* The steps of scc_ufscc_recurse and do_ufscc_all *)

\* The types of a thread's own state, field by field.
LEMMA TlsTyped ==
  ASSUME OwnTyped, NEW t \in Worker
  PROVE  /\ tls[t] \in Tls
         /\ tls[t].i \in Nat /\ tls[t].k \in Nat /\ tls[t].unique \in Nat
         /\ tls[t].v \in Slot /\ tls[t].v_p \in Slot /\ tls[t].w \in Slot
         /\ tls[t].roots \in Seq(Slot) /\ tls[t].rec \in Seq(Frame)
BY DEF OwnTyped, Tls

\* The top of a stack of slots, 0 if it is empty, is a slot.
LEMMA TopTyped ==
  ASSUME NEW s \in Seq(Slot)
  PROVE  Top(s) \in Slot
BY SlotZero DEF Top

\* Popping keeps the type of a stack.
LEMMA PopTyped ==
  ASSUME NEW S, NEW s \in Seq(S)
  PROVE  Pop(s) \in Seq(S) /\ (s # <<>> => s[Len(s)] \in S)
<1>1. Len(s) \in Nat /\ \A i \in 1 .. Len(s) : s[i] \in S
  OBVIOUS
<1>2. \A i \in 1 .. Len(s) - 1 : s[i] \in S
  BY <1>1
<1>3. Pop(s) \in Seq(S)
  BY <1>1, <1>2, SubSeqProperties DEF Pop
<1>. QED
  BY <1>1, <1>3, EmptySeq

\* A remainder as an index.
LEMMA RemainderBounds ==
  ASSUME NEW a \in Nat, NEW b \in Nat, b > 0
  PROVE  a % b \in 0 .. b - 1 /\ 1 + (a % b) \in 1 .. b
OBVIOUS

\* The rotated edge order stays within the successors.
LEMMA SuccessorTyped ==
  ASSUME OwnTyped, NEW t \in Worker, NEW n \in Slot, NEW k \in Nat, k < Len(G[n])
  PROVE  Successor(t, n, k) \in Slot
<1>1. G[n] \in Seq(Node)
  BY GraphsAssumption DEF OwnTyped
<1>2. t \in Nat /\ Len(G[n]) \in Nat \ {0}
  BY <1>1, UFConstants DEF Worker
<1>3. k + t \in Nat
  BY <1>2
<1>4. 1 + ((k + t) % Len(G[n])) \in 1 .. Len(G[n])
  <2> DEFINE len == Len(G[n])
  <2>1. len \in Nat /\ len > 0
    BY <1>2
  <2> HIDE DEF len
  <2>2. 1 + ((k + t) % len) \in 1 .. len
    BY <1>3, <2>1, RemainderBounds
  <2>. QED
    BY <2>2 DEF len
<1>5. Successor(t, n, k) \in Node
  BY <1>1, <1>4 DEF Successor
<1>. QED
  BY <1>5 DEF Node, Slot

\* The call of sameset keeps the types.
LEMMA SamesetTyped ==
  ASSUME Types, NEW t \in Worker, NEW a \in Slot, NEW b \in Slot, NEW back \in Back(Callers),
         CallSameset(t, a, b, back)
  PROVE  LocTyped' /\ ControlTyped(Callers)'
<1>1. CASE a = b
  <2>1. UNCHANGED <<stack, path, loc>> /\ pc' = [pc EXCEPT ![t] = back]
        /\ ret' = [ret EXCEPT ![t] = [code |-> "same", node |-> 0]]
    BY <1>1 DEF CallSameset
  <2>2. pc' \in [Worker -> Labels \cup Callers] /\ pc'[t] \notin {"find", "compress"}
    BY <2>1 DEF Types, Typed, ControlTyped, Back
  <2>3. ret' \in [Worker -> [code : Codes, node : Slot]]
    BY <2>1, SlotZero DEF Types, Typed, ControlTyped, Codes
  <2>. QED
    BY <2>1, <2>2, <2>3 DEF Types, Typed, ControlTyped, LocTyped
<1>2. CASE a # b
  <2>1. loc' = [loc EXCEPT ![t].same.a = a] /\ CallFind(t, b, <<back, "same_b">>)
    BY <1>2 DEF CallSameset
  <2>2. LocTyped'
    BY <2>1 DEF Types, Typed, LocTyped, Locals, Sames
  <2>3. <<back, "same_b">> \in Seq(Back(Callers))
    <3>1. "same_b" \in Back(Callers)
      BY DEF Back, Labels
    <3>. QED
      BY <3>1
  <2>. QED
    BY <2>1, <2>2, <2>3, CallFindTyped DEF Types, Typed
<1>. QED
  BY <1>1, <1>2

\* The calls of pick_from_list and remove_from_list keep the types.
LEMMA CallPickTyped ==
  ASSUME Types, NEW t \in Worker, NEW s \in Slot, NEW label \in {"pick_a", "remove"},
         NEW back \in Back(Callers), loc' = [loc EXCEPT ![t].pick = [NoPick EXCEPT !.a = s]],
         Call(t, label, <<back>>), UNCHANGED path
  PROVE  LocTyped' /\ ControlTyped(Callers)'
<1>1. [NoPick EXCEPT !.a = s] \in Picks
  BY NoneTyped DEF Picks
<1>2. LocTyped'
  BY <1>1 DEF Types, Typed, LocTyped, Locals
<1>3. label \in Back(Callers)
  BY DEF Back, Labels
<1>4. <<back>> \in Seq(Back(Callers))
  OBVIOUS
<1>. QED
  BY <1>2, <1>3, <1>4, CallTyped DEF Types, Typed

\* The steps of scc_ufscc_recurse keep the types.
LEMMA RecurseTypes ==
  ASSUME Types, NEW t \in Worker, Recurse(t), UNCHANGED <<G, total, G_SCC>>
  PROVE  Types'
<1> DEFINE me == tls[t]
<1>1. ret[t].node \in Slot
  BY DEF Types, Typed, ControlTyped
<1>2. {"enter", "entered", "explore", "edge", "claimed", "found", "united", "backtrack", "is_dead",
       "next", "claim_dead"} \subseteq Back(Callers)
  BY DEF Back, Labels, Callers
<1>3. /\ me \in Tls /\ me.i \in Nat /\ me.k \in Nat /\ me.unique \in Nat
      /\ me.v \in Slot /\ me.v_p \in Slot /\ me.w \in Slot
      /\ me.roots \in Seq(Slot) /\ me.rec \in Seq(Frame)
  BY TlsTyped DEF Types
<1>4. UNCHANGED <<uf, G_Color>> => UfTyped'
  BY DEF Types, Typed, UfTyped
<1>5. UNCHANGED loc => LocTyped'
  BY DEF Types, Typed, LocTyped
<1>6. UNCHANGED tls => OwnTyped'
  BY DEF Types, OwnTyped
<1>7. ASSUME NEW next \in Tls, tls' = [tls EXCEPT ![t] = next]
      PROVE  OwnTyped'
  BY <1>7 DEF Types, OwnTyped
<1>8. \A label \in Back(Callers) : Goto(t, label) /\ UNCHANGED path => ControlTyped(Callers)'
  BY GotoTyped DEF Types, Typed
<1>9. \A label \in Back(Callers) : Resume(t, label) /\ UNCHANGED path => ControlTyped(Callers)'
  BY ResumeTyped DEF Types, Typed
<1>10. ASSUME NEW s \in Slot, NEW back \in Back(Callers), CallFind(t, s, <<back>>)
       PROVE  ControlTyped(Callers)'
  BY <1>10, CallFindOnceTyped DEF Types, Typed
<1>11. \A s \in Slot, back \in Back(Callers) :
         CallPick(t, s, <<back>>) /\ UNCHANGED path => LocTyped' /\ ControlTyped(Callers)'
  BY CallPickTyped DEF CallPick
<1>12. \A s \in Slot, back \in Back(Callers) :
         CallRemove(t, s, back) /\ UNCHANGED path => LocTyped' /\ ControlTyped(Callers)'
  BY CallPickTyped DEF CallRemove
<1>13. \A a, b \in Slot, back \in Back(Callers) :
         CallSameset(t, a, b, back) => LocTyped' /\ ControlTyped(Callers)'
  BY SamesetTyped
<1>14. me.rec # <<>> => me.rec[Len(me.rec)] \in Frame /\ Pop(me.rec) \in Seq(Frame)
  BY <1>3, PopTyped
<1>15. ASSUME NextEdge(t), UNCHANGED path
       PROVE  OwnTyped' /\ ControlTyped(Callers)'
  <2>1. me.k + 1 \in Nat /\ 0 \in Slot
    BY <1>3, SlotZero
  <2>2. [me EXCEPT !.k = @ + 1, !.w = 0] \in Tls
    BY <1>3, <2>1 DEF Tls
  <2>. QED
    BY <1>2, <1>7, <1>9, <1>15, <2>2 DEF NextEdge
<1>16. CASE Enter(t)
  <2>1. me.rec # <<>> => me.rec[Len(me.rec)].v \in Slot
    BY <1>14 DEF Frame
  <2>. QED
    BY <1>2, <1>3, <1>4, <1>6, <1>11, <1>13, <1>16, <2>1 DEF Types, Typed, Enter
<1>17. CASE Entered(t)
  BY <1>2, <1>3, <1>4, <1>5, <1>6, <1>9, <1>11, <1>17 DEF Types, Typed, Entered
<1>18. CASE Explore(t)
  <2>1. [me EXCEPT !.v_p = ret[t].node, !.k = 0] \in Tls
    BY <1>1, <1>3 DEF Tls
  <2>. QED
    BY <1>2, <1>4, <1>5, <1>6, <1>7, <1>9, <1>18, <2>1 DEF Types, Typed, Explore
<1>19. CASE Edge(t)
  <2>1. [me EXCEPT !.k = @ + 1] \in Tls
    BY <1>3 DEF Tls
  <2>2. ASSUME NEW w \in Slot
        PROVE  [me EXCEPT !.w = w] \in Tls
    BY <1>3, <2>2 DEF Tls
  <2>3. ASSUME ~(me.k >= Len(G[me.v_p]))
        PROVE  Successor(t, me.v_p, me.k) \in Slot
    <3>1. Len(G[me.v_p]) \in Nat
      BY <1>3, GraphsAssumption DEF Types, OwnTyped
    <3>. QED
      BY <1>3, <2>3, <3>1, SuccessorTyped DEF Types
  <2>4. ASSUME NEW w \in Slot, CallClaim(t, w, "claimed")
        PROVE  ControlTyped(Callers)'
    <3>1. <<"claimed", "claim_dead">> \in Seq(Back(Callers))
      BY <1>2
    <3>. QED
      BY <2>4, <3>1, CallFindTyped DEF Types, Typed, CallClaim
  <2>5. CASE me.k >= Len(G[me.v_p])
    BY <1>2, <1>3, <1>4, <1>6, <1>12, <1>19, <2>5 DEF Types, Typed, Edge
  <2>6. CASE ~(me.k >= Len(G[me.v_p])) /\ Successor(t, me.v_p, me.k) = me.v_p
    <3>1. UNCHANGED <<control, path, loc, uf, G_Color>> /\ tls' = [tls EXCEPT ![t].k = @ + 1]
      BY <1>19, <2>6 DEF Edge
    <3>2. ControlTyped(Callers)'
      BY <3>1 DEF Types, Typed, ControlTyped, control
    <3>. QED
      BY <1>4, <1>5, <1>7, <2>1, <3>1, <3>2 DEF Types, Typed
  <2>7. CASE ~(me.k >= Len(G[me.v_p])) /\ Successor(t, me.v_p, me.k) # me.v_p
    <3> DEFINE w == Successor(t, me.v_p, me.k)
    <3>1. tls' = [tls EXCEPT ![t].w = w] /\ CallClaim(t, w, "claimed") /\ UNCHANGED <<loc, uf, G_Color>>
      BY <1>19, <2>7 DEF Edge
    <3>2. w \in Slot
      BY <2>3, <2>7
    <3> HIDE DEF w
    <3>. QED
      BY <1>4, <1>5, <1>7, <2>2, <2>4, <3>1, <3>2 DEF Types, Typed
  <2>. QED
    BY <2>5, <2>6, <2>7
<1>20. CASE Claimed(t)
  <2> DEFINE next == [me EXCEPT !.unique = @ + First(t),
                                !.rec = Append(@, [v_p |-> me.v_p, k |-> me.k, v |-> me.v]),
                                !.roots = Append(@, me.w),
                                !.v = me.w, !.w = 0]
  <2>1. [v_p |-> me.v_p, k |-> me.k, v |-> me.v] \in Frame
    BY <1>3 DEF Frame
  <2>2. /\ Append(me.rec, [v_p |-> me.v_p, k |-> me.k, v |-> me.v]) \in Seq(Frame)
        /\ Append(me.roots, me.w) \in Seq(Slot)
        /\ me.unique + First(t) \in Nat
    BY <1>3, <2>1 DEF First
  <2>3. next \in Tls
    BY <1>3, <2>2, SlotZero DEF Tls
  <2>4. CASE ret[t].code = "CLAIM_DEAD"
    BY <1>4, <1>5, <1>15, <1>20, <2>4 DEF Types, Typed, Claimed
  <2>5. CASE ret[t].code \in {"CLAIM_FIRST", "CLAIM_SUCCESS"}
    <3>1. /\ tls' = [tls EXCEPT ![t].unique = @ + First(t),
                                ![t].rec = Append(@, [v_p |-> me.v_p, k |-> me.k, v |-> me.v]),
                                ![t].roots = Append(@, me.w),
                                ![t].v = me.w, ![t].w = 0]
          /\ Resume(t, "enter") /\ UNCHANGED <<path, loc, uf, G_Color>>
      BY <1>20, <2>5 DEF Claimed
    <3>2. tls' = [tls EXCEPT ![t] = next]
      BY <1>3, <3>1 DEF Types, OwnTyped, Tls
    <3>3. OwnTyped'
      BY <1>7, <2>3, <3>2
    <3>. QED
      BY <1>2, <1>4, <1>5, <1>9, <3>1, <3>3 DEF Types, Typed
  <2>6. CASE ret[t].code = "CLAIM_FOUND"
    BY <1>2, <1>3, <1>4, <1>6, <1>13, <1>20, <2>6 DEF Types, Typed, Claimed
  <2>. QED
    BY <1>20, <2>4, <2>5, <2>6 DEF Claimed
<1>21. CASE Found(t)
  <2> DEFINE rest == Pop(me.roots)
  <2>1. rest \in Seq(Slot)
    BY <1>3, PopTyped
  <2>2. [me EXCEPT !.roots = rest] \in Tls
    BY <1>3, <2>1 DEF Tls
  <2>3. Top(rest) \in Slot /\ Top(me.roots) \in Slot
    BY <1>3, <2>1, TopTyped
  <2>4. ASSUME NEW a \in Slot, NEW b \in Slot, CallUnite(t, a, b, "united")
        PROVE  LocTyped' /\ ControlTyped(Callers)'
    <3>1. [NoUnite EXCEPT !.a = a, !.b = b] \in Unites
      BY NoneTyped DEF Unites
    <3>2. LocTyped'
      BY <2>4, <3>1 DEF Types, Typed, LocTyped, Locals, CallUnite
    <3>3. <<"united", "unite_a">> \in Seq(Back(Callers))
      <4>1. "unite_a" \in Back(Callers)
        BY DEF Back, Labels
      <4>. QED
        BY <1>2, <4>1
    <3>. QED
      BY <2>4, <3>2, <3>3, CallFindTyped DEF Types, Typed, CallUnite
  <2>5. CASE ret[t].code = "same"
    BY <1>4, <1>5, <1>15, <1>21, <2>5 DEF Types, Typed, Found
  <2>6. CASE ret[t].code = "different"
    <3>1. /\ tls' = [tls EXCEPT ![t].roots = rest]
          /\ CallUnite(t, Top(rest), Top(me.roots), "united")
          /\ UNCHANGED <<uf, G_Color>>
      BY <1>21, <2>6 DEF Found
    <3>. QED
      BY <1>4, <1>7, <2>2, <2>3, <2>4, <3>1 DEF Types, Typed
  <2>. QED
    BY <1>21, <2>5, <2>6 DEF Found
<1>22. CASE United(t)
  BY <1>2, <1>3, <1>4, <1>6, <1>13, <1>22 DEF Types, Typed, United
<1>23. CASE Backtrack(t)
  <2>1. RootsLeft(t) \in Seq(Slot)
    BY <1>3, PopTyped DEF RootsLeft
  <2>2. CASE me.rec = <<>>
    <3> DEFINE next == [me EXCEPT !.roots = RootsLeft(t), !.i = @ + 1, !.v = 0, !.v_p = 0, !.k = 0]
    <3>1. next \in Tls
      <4>1. me.i + 1 \in Nat /\ 0 \in Slot /\ 0 \in Nat
        BY <1>3, SlotZero
      <4>. QED
        BY <1>3, <2>1, <4>1 DEF Tls
    <3>2. /\ tls' = [tls EXCEPT ![t].roots = RootsLeft(t), ![t].i = @ + 1, ![t].v = 0, ![t].v_p = 0,
                                ![t].k = 0]
          /\ Goto(t, "next") /\ UNCHANGED <<path, uf, G_Color, loc>>
      BY <1>23, <2>2 DEF Backtrack
    <3>3. tls' = [tls EXCEPT ![t] = next]
      BY <1>3, <3>2 DEF Types, OwnTyped, Tls
    <3>4. OwnTyped'
      BY <1>7, <3>1, <3>3
    <3>. QED
      BY <1>2, <1>4, <1>5, <1>8, <3>2, <3>4 DEF Types, Typed
  <2>3. CASE me.rec # <<>>
    <3> DEFINE frame == me.rec[Len(me.rec)]
               next  == [me EXCEPT !.roots = RootsLeft(t), !.rec = Pop(@),
                                   !.v = frame.v, !.v_p = frame.v_p, !.k = frame.k]
    <3>1. frame.v \in Slot /\ frame.v_p \in Slot /\ frame.k \in Nat
      BY <1>14, <2>3 DEF Frame
    <3>2. next \in Tls
      BY <1>3, <1>14, <2>1, <2>3, <3>1 DEF Tls
    <3>3. /\ tls' = [tls EXCEPT ![t].roots = RootsLeft(t), ![t].rec = Pop(@),
                                ![t].v = frame.v, ![t].v_p = frame.v_p, ![t].k = frame.k]
          /\ CallFind(t, frame.v, <<"is_dead">>) /\ UNCHANGED <<uf, G_Color, loc>>
      BY <1>23, <2>3 DEF Backtrack
    <3>4. tls' = [tls EXCEPT ![t] = next]
      BY <1>3, <3>3 DEF Types, OwnTyped, Tls
    <3>5. OwnTyped'
      BY <1>7, <3>2, <3>4
    <3>6. ControlTyped(Callers)'
      BY <1>2, <1>10, <3>1, <3>3
    <3>. QED
      BY <1>4, <1>5, <3>3, <3>5, <3>6 DEF Types, Typed
  <2>. QED
    BY <2>2, <2>3
<1>24. CASE IsDead(t)
  BY <1>2, <1>3, <1>4, <1>5, <1>6, <1>12, <1>15, <1>24 DEF Types, Typed, IsDead
<1>. QED
  BY <1>16, <1>17, <1>18, <1>19, <1>20, <1>21, <1>22, <1>23, <1>24 DEF Recurse

\* The steps of the loop over initial states keep the types.
LEMMA LoopTypes ==
  ASSUME Types, NEW t \in Worker, NextState(t) \/ Start(t), UNCHANGED <<G, total, G_SCC>>
  PROVE  Types'
<1> DEFINE me == tls[t]
<1>1. /\ me \in Tls /\ me.i \in Nat /\ me.unique \in Nat /\ me.v \in Slot /\ me.roots \in Seq(Slot)
  BY TlsTyped DEF Types
<1>2. {"join", "start", "enter", "claim_dead"} \subseteq Back(Callers)
  BY DEF Back, Labels, Callers
<1>3. UNCHANGED <<uf, G_Color, loc>> => UfTyped' /\ LocTyped'
  BY DEF Types, Typed, UfTyped, LocTyped
<1>4. CASE NextState(t)
  <2>1. ChunkFirst(t + 1) \in 1 .. N+1
    <3>1. t + 1 \in 0 .. NWorkers
      BY UFConstants DEF Worker
    <3>. QED
      BY <3>1, ChunkBounds
  <2>2. CASE me.i = ChunkFirst(t + 1) /\ Goto(t, "join") /\ UNCHANGED <<path, tls>>
    <3>1. OwnTyped'
      BY <2>2 DEF Types, OwnTyped
    <3>. QED
      BY <1>2, <1>3, <1>4, <2>2, <3>1, GotoTyped DEF Types, Typed, NextState
  <2>3. CASE tls' = [tls EXCEPT ![t].i = me.i + 1] /\ UNCHANGED <<control, path>>
    <3>1. OwnTyped'
      <4>1. me.i + 1 \in Nat
        BY <1>1
      <4>. QED
        BY <2>3, <4>1 DEF Types, OwnTyped, Tls
    <3>2. ControlTyped(Callers)'
      BY <2>3 DEF Types, Typed, ControlTyped, control
    <3>. QED
      BY <1>3, <1>4, <3>1, <3>2 DEF Types, Typed, NextState
  <2>4. CASE me.i < ChunkFirst(t + 1) /\ tls' = [tls EXCEPT ![t].v = me.i] /\ CallClaim(t, me.i, "start")
    <3>1. me.i \in Slot
      BY <1>1, <2>1, <2>4, UFConstants DEF Slot
    <3>2. OwnTyped'
      BY <1>1, <2>4, <3>1 DEF Types, OwnTyped, Tls
    <3>3. <<"start", "claim_dead">> \in Seq(Back(Callers))
      BY <1>2
    <3>4. ControlTyped(Callers)'
      BY <2>4, <3>1, <3>3, CallFindTyped DEF Types, Typed, CallClaim
    <3>. QED
      BY <1>3, <1>4, <3>2, <3>4 DEF Types, Typed, NextState
  <2>. QED
    BY <1>4, <2>2, <2>3, <2>4 DEF NextState
<1>5. CASE Start(t)
  <2>1. me.unique + First(t) \in Nat /\ Append(me.roots, me.v) \in Seq(Slot)
    BY <1>1 DEF First
  <2>2. [me EXCEPT !.unique = @ + First(t), !.roots = Append(@, me.v)] \in Tls
    BY <1>1, <2>1 DEF Tls
  <2>3. tls' = [tls EXCEPT ![t] = [me EXCEPT !.unique = @ + First(t), !.roots = Append(@, me.v)]]
    BY <1>1, <1>5 DEF Types, OwnTyped, Tls, Start
  <2>4. OwnTyped'
    BY <2>2, <2>3 DEF Types, OwnTyped
  <2>. QED
    BY <1>2, <1>3, <1>5, <2>4, ResumeTyped DEF Types, Typed, Start
<1>. QED
  BY <1>4, <1>5

\* The steps after the barrier keep the types.
LEMMA ReportTypes ==
  ASSUME Types, (\E t \in Worker : Join(t)) \/ Report
  PROVE  Types'
<1>1. {"done", "collect", "collected", "end"} \subseteq Back(Callers)
  BY DEF Back, Labels, Callers
<1>2. UNCHANGED <<uf, G_Color, loc>> => UfTyped' /\ LocTyped'
  BY DEF Types, Typed, UfTyped, LocTyped
<1>3. 0 \in Worker
  BY UFConstants DEF Worker
<1>4. tls[0].i \in Nat
  BY <1>3, TlsTyped DEF Types
<1>5. ASSUME NEW t \in Worker, Join(t)
      PROVE  Types'
  <2>1. tls[t].unique \in Nat
    BY TlsTyped DEF Types
  <2>2. total + tls[t].unique \in Nat /\ 0 \in Nat
    BY <2>1 DEF Types, OwnTyped
  <2>3. tls' \in [Worker -> Tls]
    BY <1>5, <2>2 DEF Types, OwnTyped, Tls, Join
  <2>4. OwnTyped'
    BY <1>5, <2>2, <2>3 DEF Types, OwnTyped, Join
  <2>. QED
    BY <1>1, <1>2, <1>5, <2>4, GotoTyped DEF Types, Typed, Join
<1>6. CASE Barrier
  <2>1. OwnTyped'
    BY <1>3, <1>6 DEF Types, OwnTyped, Tls, Barrier
  <2>. QED
    BY <1>1, <1>2, <1>3, <1>6, <2>1, GotoTyped DEF Types, Typed, Barrier
<1>7. CASE Collect
  <2>1. OwnTyped'
    BY <1>7 DEF Types, OwnTyped, Collect
  <2>2. tls[0].i <= N => tls[0].i \in Slot
    BY <1>4, UFConstants DEF Slot
  <2>. QED
    BY <1>1, <1>2, <1>3, <1>7, <2>1, <2>2, GotoTyped, CallFindOnceTyped DEF Types, Typed, Collect
<1>8. CASE Collected
  <2>1. ret[0].node \in Slot
    BY <1>3 DEF Types, Typed, ControlTyped
  <2>2. G_SCC' \in [Node -> Slot] /\ tls' \in [Worker -> Tls]
    <3>1. tls[0].i + 1 \in Nat
      BY <1>4
    <3>2. tls' \in [Worker -> Tls]
      BY <1>3, <1>8, <3>1 DEF Types, OwnTyped, Tls, Collected
    <3>. QED
      BY <1>8, <2>1, <3>2 DEF Types, OwnTyped, Collected
  <2>3. OwnTyped'
    BY <1>8, <2>2 DEF Types, OwnTyped, Collected
  <2>. QED
    BY <1>1, <1>2, <1>3, <1>8, <2>3, ResumeTyped DEF Types, Typed, Collected
<1>. QED
  BY <1>5, <1>6, <1>7, <1>8 DEF Report

\* Every step keeps the types.
LEMMA NextTypes == Types /\ [Next]_vars => Types'
<1> SUFFICES ASSUME Types, [Next]_vars
             PROVE  Types'
  OBVIOUS
<1>1. ASSUME NEW t \in Worker, UFStep(t), UNCHANGED <<G, tls, total, G_SCC>>
      PROVE  Types'
  <2>1. Typed(Callers)'
    BY <1>1, UFStepTyped DEF Types
  <2>. QED
    BY <1>1, <2>1 DEF Types, OwnTyped
<1>2. ASSUME NEW t \in Worker, Recurse(t) \/ NextState(t) \/ Start(t), UNCHANGED <<G, total, G_SCC>>
      PROVE  Types'
  BY <1>2, RecurseTypes, LoopTypes
<1>3. CASE (\E t \in Worker : Join(t)) \/ Report
  BY <1>3, ReportTypes
<1>4. CASE UNCHANGED vars
  BY <1>4 DEF vars, ufVars, control, Types, Typed, UfTyped, LocTyped, ControlTyped, OwnTyped
<1>. QED
  BY <1>1, <1>2, <1>3, <1>4 DEF Next, Step, Terminated

\* Every variable has its type in every reachable state: what find,
\* pick_from_list and the stacks hand on are nodes or "no node".
THEOREM TypeCorrect == Spec => []TypeOK
<1>1. Spec => []Types
  BY InitTypes, NextTypes, PTL DEF Spec
<1>. QED
  BY <1>1, TypesTypeOK, PTL

-----------------------------------------------------------------------------
(* Parents, locks and what is never undone *)

Inv == Types /\ Upward /\ Locked

\* The inductive invariant holds initially.
LEMMA InitInv == Init => Inv
<1> SUFFICES ASSUME Init PROVE Inv
  OBVIOUS
<1>1. \A w \in Worker : /\ pc[w] = "next" /\ path[w] = <<>>
                        /\ loc[w].unite.q = 0 /\ loc[w].unite.r = 0
                        /\ loc[w].unite.al = 0 /\ loc[w].unite.bl = 0
  BY DEF Init, UFInit, NoUnite
<1>2. ParentIncreasing
  BY DEF Init, UFInit, uf_node, ParentIncreasing
<1>3. \A w \in Worker : Ascending(path[w])
  BY <1>1 DEF Ascending
<1>4. Upward
  BY <1>1, <1>2, <1>3 DEF Upward
<1>5. \A w \in Worker : HoldsUf(w) = {} /\ HoldsList(w) = {}
  BY <1>1 DEF HoldsUf, HoldsList
<1>6. Locked
  BY <1>1, <1>5 DEF Locked
<1>. QED
  BY <1>4, <1>6, InitTypes DEF Inv

\* The caller's labels are not those of the union-find.
LEMMA CallersOutside == Outside(Callers)
BY DEF Outside, Callers, Labels

\* The search uses the union-find only as CallerStep says.
LEMMA RecurseCalls ==
  ASSUME Types, NEW t \in Worker, Recurse(t) \/ NextState(t) \/ Start(t) \/ Join(t)
  PROVE  CallerStep(t, Callers)
<1> DEFINE me == tls[t]
<1>1. /\ me.v \in Slot /\ me.v_p \in Slot /\ me.w \in Slot
      /\ me.roots \in Seq(Slot) /\ me.rec \in Seq(Frame) /\ me.k \in Nat /\ me.i \in Nat
  BY TlsTyped DEF Types
<1>2. {"next", "start", "enter", "entered", "explore", "edge", "claimed", "found", "united", "backtrack",
       "is_dead", "join", "done"} \subseteq Callers
  BY DEF Callers
<1>3. UNCHANGED <<uf, G_Color>>
  BY DEF Recurse, Enter, Entered, Explore, Edge, Claimed, Found, United, Backtrack, IsDead,
         NextState, Start, Join
<1>4. pc[t] \in Callers
  BY DEF Recurse, Enter, Entered, Explore, Edge, Claimed, Found, United, Backtrack, IsDead,
         NextState, Start, Join, Callers
<1>5. me.rec # <<>> => me.rec[Len(me.rec)].v \in Slot
  <2>1. me.rec # <<>> => me.rec[Len(me.rec)] \in Frame
    BY <1>1, PopTyped
  <2>. QED
    BY <2>1 DEF Frame
<1>6. Top(Pop(me.roots)) \in Slot /\ Top(me.roots) \in Slot
  BY <1>1, PopTyped, TopTyped
<1>7. CASE Enter(t)
  BY <1>1, <1>2, <1>3, <1>4, <1>5, <1>7 DEF Enter, CallerStep
<1>8. CASE Entered(t)
  BY <1>1, <1>2, <1>3, <1>4, <1>8 DEF Entered, CallerStep
<1>9. CASE Explore(t)
  BY <1>1, <1>2, <1>3, <1>4, <1>9 DEF Explore, CallerStep
<1>10. CASE Edge(t)
  <2>1. CASE me.k >= Len(G[me.v_p])
    BY <1>1, <1>2, <1>3, <1>4, <1>10, <2>1 DEF Edge, CallerStep
  <2>2. CASE ~(me.k >= Len(G[me.v_p])) /\ Successor(t, me.v_p, me.k) = me.v_p
    BY <1>1, <1>2, <1>3, <1>4, <1>10, <2>2 DEF Edge, CallerStep
  <2>3. CASE ~(me.k >= Len(G[me.v_p])) /\ Successor(t, me.v_p, me.k) # me.v_p
    <3>1. Successor(t, me.v_p, me.k) \in Slot
      <4>1. Len(G[me.v_p]) \in Nat
        BY <1>1, GraphsAssumption DEF Types, OwnTyped
      <4>. QED
        BY <1>1, <2>3, <4>1, SuccessorTyped DEF Types
    <3>2. CallClaim(t, Successor(t, me.v_p, me.k), "claimed") /\ UNCHANGED loc
      BY <1>10, <2>3 DEF Edge
    <3>. QED
      BY <1>2, <1>3, <1>4, <3>1, <3>2 DEF CallerStep
  <2>. QED
    BY <2>1, <2>2, <2>3
<1>11. CASE Claimed(t)
  BY <1>1, <1>2, <1>3, <1>4, <1>11 DEF Claimed, NextEdge, CallerStep
<1>12. CASE Found(t)
  BY <1>2, <1>3, <1>4, <1>6, <1>12 DEF Found, NextEdge, CallerStep
<1>13. CASE United(t)
  BY <1>1, <1>2, <1>3, <1>4, <1>13 DEF United, CallerStep
<1>14. CASE Backtrack(t)
  <2>1. \/ Goto(t, "next") /\ UNCHANGED path
        \/ me.rec # <<>> /\ CallFind(t, me.rec[Len(me.rec)].v, <<"is_dead">>)
    BY <1>14 DEF Backtrack
  <2>2. UNCHANGED loc
    BY <1>14 DEF Backtrack
  <2>. QED
    BY <1>1, <1>2, <1>3, <1>4, <1>5, <2>1, <2>2 DEF CallerStep
<1>15. CASE IsDead(t)
  BY <1>1, <1>2, <1>3, <1>4, <1>15 DEF IsDead, NextEdge, CallerStep
<1>16. CASE NextState(t)
  <2>1. CASE (Goto(t, "join") \/ UNCHANGED control) /\ UNCHANGED path
    BY <1>1, <1>2, <1>3, <1>4, <1>16, <2>1 DEF NextState, CallerStep
  <2>2. CASE me.i < ChunkFirst(t + 1) /\ CallClaim(t, me.i, "start")
    <3>1. ChunkFirst(t + 1) \in 1 .. N+1
      <4>1. t + 1 \in 0 .. NWorkers
        BY UFConstants DEF Worker
      <4>. QED
        BY <4>1, ChunkBounds
    <3>2. me.i \in Slot
      BY <1>1, <2>2, <3>1, UFConstants DEF Slot
    <3>3. UNCHANGED loc
      BY <1>16 DEF NextState
    <3>. QED
      BY <1>2, <1>3, <1>4, <2>2, <3>2, <3>3 DEF CallerStep
  <2>. QED
    BY <1>16, <2>1, <2>2 DEF NextState
<1>17. CASE Start(t)
  BY <1>1, <1>2, <1>3, <1>4, <1>17 DEF Start, CallerStep
<1>18. CASE Join(t)
  BY <1>1, <1>2, <1>3, <1>4, <1>18 DEF Join, CallerStep
<1>. QED
  BY <1>7, <1>8, <1>9, <1>10, <1>11, <1>12, <1>13, <1>14, <1>15, <1>16, <1>17, <1>18 DEF Recurse

\* So does the report.
LEMMA ReportCalls ==
  ASSUME Types, Report
  PROVE  0 \in Worker /\ CallerStep(0, Callers)
<1>1. 0 \in Worker
  BY UFConstants DEF Worker
<1>2. {"done", "collect", "collected", "end"} \subseteq Callers
  BY DEF Callers
<1>3. tls[0].i \in Nat /\ 0 \in Slot
  BY <1>1, TlsTyped, SlotZero DEF Types
<1>4. CASE Barrier
  <2>1. pc[0] = "done"
    BY <1>1, <1>4 DEF Barrier
  <2>. QED
    BY <1>1, <1>2, <1>3, <1>4, <2>1 DEF Barrier, CallerStep
<1>5. CASE Collect
  <2>1. tls[0].i <= N => tls[0].i \in Slot
    BY <1>3, UFConstants DEF Slot
  <2>. QED
    BY <1>1, <1>2, <1>3, <1>5, <2>1 DEF Collect, CallerStep
<1>6. CASE Collected
  BY <1>1, <1>2, <1>3, <1>6 DEF Collected, CallerStep
<1>. QED
  BY <1>1, <1>4, <1>5, <1>6 DEF Report

\* Every step keeps the inductive invariant, and undoes nothing.
LEMMA NextInv ==
  ASSUME Inv, [Next]_vars
  PROVE  Inv' /\ (NothingUndone \/ UNCHANGED uf)
<1>1. Types'
  BY NextTypes DEF Inv
<1>2. ASSUME NEW t \in Worker, CallerStep(t, Callers)
      PROVE  Upward' /\ Locked' /\ NothingUndone
  BY <1>2, CallersOutside, CallerStepKeeps DEF Inv, Types
<1>3. ASSUME NEW t \in Worker, UFStep(t)
      PROVE  Upward' /\ Locked' /\ NothingUndone
  BY <1>3, UFStepKeeps DEF Inv, Types
<1>4. ASSUME NEW t \in Worker, Step(t)
      PROVE  Inv' /\ NothingUndone
  BY <1>1, <1>2, <1>3, <1>4, RecurseCalls DEF Inv, Step
<1>5. CASE Report
  BY <1>1, <1>2, <1>5, ReportCalls DEF Inv
<1>6. CASE UNCHANGED vars
  <2>1. UNCHANGED <<uf, pc, ret, path, loc>>
    BY <1>6 DEF vars, ufVars, control
  <2>. QED
    BY <1>1, <2>1 DEF Inv, Upward, ParentIncreasing, Ascending, Locked, HoldsUf, HoldsList
<1>. QED
  BY <1>4, <1>5, <1>6 DEF Next, Terminated

\* Whatever the interleaving of unions with the path compression of other
\* workers, parents point to higher slots: find always ends at a root.
THEOREM ParentsIncrease == Spec => []ParentIncreasing
<1>1. Inv /\ [Next]_vars => Inv'
  BY NextInv
<1>2. Inv => ParentIncreasing
  BY DEF Inv, Upward
<1>. QED
  BY InitInv, <1>1, <1>2, PTL DEF Spec

\* No step takes back a completed SCC, an explored state, a union or a visit,
\* although every unlock and every path compression is an unconditional store.
THEOREM NothingIsUndone == Spec => Monotone
<1>1. Inv /\ [Next]_vars => Inv'
  BY NextInv
<1>2. Inv /\ [Next]_vars => [NothingUndone]_uf
  BY NextInv
<1>. QED
  BY InitInv, <1>1, <1>2, PTL DEF Spec, Monotone

-----------------------------------------------------------------------------
(* The sets, and the answers of sameset *)

\* What all workers know of the sets, besides the types and the locks
SetsKnown == Inv /\ SetsInv(Callers)

\* It holds initially.
LEMMA InitSets == Init => SetsKnown
<1> SUFFICES ASSUME Init PROVE SetsInv(Callers)
  BY InitInv DEF SetsKnown
<1>1. Typed(Callers) /\ Upward /\ Locked
  BY InitInv DEF Inv, Types
<1>2. \A w \in Worker : pc[w] = "next" /\ stack[w] = <<>> /\ loc[w].unite.q = 0 /\ loc[w].unite.r = 0
  BY DEF Init, UFInit, NoUnite
<1>3. OneHolder
  BY <1>2 DEF OneHolder, Holding
<1>4. ASSUME NEW w \in Worker
      PROVE  Knows(w, Callers)
  <2>1. InCall(w, Callers)
    BY <1>2 DEF InCall, Callers
  <2>2. \A l : ~Awaits(w, l)
    BY <1>2 DEF Awaits
  <2>3. ~Busy(w) /\ pc[w] \notin FindLabels
    BY <1>2, <2>2 DEF Busy, Region, RegionLabels, FindLabels
  <2>. QED
    BY <2>1, <2>3, IdleSets DEF Knows, PathOne
<1>. QED
  BY <1>1, <1>3, <1>4, CallersOutside DEF SetsInv

\* Every step keeps it, and takes no set apart.
LEMMA NextSets ==
  ASSUME SetsKnown, [Next]_vars
  PROVE  SetsKnown' /\ Coarser
<1>1. Inv'
  BY NextInv DEF SetsKnown
<1>2. Typed(Callers)' /\ Upward' /\ Locked'
  BY <1>1 DEF Inv, Types
<1>3. ASSUME NEW t \in Worker, UFStep(t)
      PROVE  SetsInv(Callers)' /\ Coarser
  BY <1>3, UFStepSets DEF SetsKnown
<1>4. ASSUME NEW t \in Worker, CallerStep(t, Callers)
      PROVE  SetsInv(Callers)' /\ Coarser
  BY <1>2, <1>4, CallerSets DEF SetsKnown, Coarser
<1>5. ASSUME NEW t \in Worker, Step(t)
      PROVE  SetsInv(Callers)' /\ Coarser
  BY <1>3, <1>4, <1>5, RecurseCalls DEF SetsKnown, Inv, Step
<1>6. ASSUME Report
      PROVE  SetsInv(Callers)' /\ Coarser
  BY <1>4, <1>6, ReportCalls DEF SetsKnown, Inv
<1>7. ASSUME UNCHANGED vars
      PROVE  SetsInv(Callers)' /\ Coarser
  <2>1. UNCHANGED <<uf, G_Color, pc, stack, ret, path, loc>>
    BY <1>7 DEF vars, ufVars, control
  <2>. QED
    BY <2>1, StutterKeeps DEF SetsKnown, Coarser
<1>. QED
  BY <1>1, <1>5, <1>6, <1>7 DEF SetsKnown, Next, Terminated

\* What sameset is asked at line 631, and at line 562
SameAsked(t) ==
  /\ Home(t) = "found" => SameSets(t, tls[t].w, tls[t].v)
  /\ Home(t) = "entered" => tls[t].rec # <<>> /\ SameSets(t, tls[t].rec[Len(tls[t].rec)].v, tls[t].v)

SameKnown == SetsKnown /\ \A t \in Worker : SameAsked(t)

\* At the start no worker has asked anything.
LEMMA InitSame == Init => SameKnown
<1>1. Init => \A t \in Worker : Home(t) = "next"
  BY DEF Init, UFInit, Home
<1>. QED
  BY <1>1, InitSets DEF SameKnown, SameAsked

\* The search asks for the states that it then takes to be in one set or not.
LEMMA RecurseSame ==
  ASSUME SameKnown, NEW t \in Worker, Recurse(t) \/ NextState(t) \/ Start(t) \/ Join(t), Root' = Root
  PROVE  SameAsked(t)'
<1> DEFINE me == tls[t]
           Asked == SameAsked(t)'
<1> SUFFICES Asked
  OBVIOUS
<1>1. Typed(Callers) /\ Outside(Callers) /\ InCall(t, Callers) /\ Types
  BY DEF SameKnown, SetsKnown, Inv, SetsInv, Knows
<1>2. /\ me.v \in Slot /\ me.w \in Slot /\ me.rec \in Seq(Frame) /\ tls \in [Worker -> Tls]
  BY <1>1, TlsTyped DEF Types, OwnTyped
<1>3. me.rec # <<>> => me.rec[Len(me.rec)].v \in Slot
  <2>1. me.rec # <<>> => me.rec[Len(me.rec)] \in Frame
    BY <1>2, PopTyped
  <2>. QED
    BY <2>1 DEF Frame
<1>4. pc[t] \in Callers
  BY DEF Recurse, Enter, Entered, Explore, Edge, Claimed, Found, United, Backtrack, IsDead,
         NextState, Start, Join, Callers
<1>5. ASSUME NEW back \in Callers \ {"found", "entered"}, NEW s, NEW s2,
             \/ Goto(t, back) \/ Resume(t, back)
             \/ CallFind(t, s, <<back>>) \/ CallClaim(t, s, back)
             \/ CallPick(t, s, <<back>>) \/ CallRemove(t, s, back)
             \/ CallUnite(t, s, s2, back)
      PROVE  Asked
  <2>1. Home(t)' = back
    BY <1>1, <1>4, <1>5, CallerHome
  <2>. QED
    BY <1>5, <2>1 DEF SameAsked
<1>6. ASSUME UNCHANGED control, pc[t] \notin {"found", "entered"}
      PROVE  Asked
  <2>1. Home(t)' = pc[t]
    <3>1. stack[t] = <<>>
      <4>1. pc[t] \notin Labels
        BY <1>1, <1>4 DEF Outside
      <4>2. pc[t] \notin FindLabels \cup PickLabels
        BY <4>1, LabelSets
      <4>. QED
        BY <1>1, <4>1, <4>2 DEF InCall
    <3>. QED
      BY <1>6, <3>1 DEF control, Home
  <2>. QED
    BY <1>6, <2>1 DEF SameAsked
<1>7. ASSUME NEW x \in Slot, NEW y \in Slot, NEW back \in {"found", "entered"}, CallSameset(t, x, y, back),
             back = "found" => tls'[t].w = x /\ tls'[t].v = y,
             back = "entered" => /\ tls'[t].rec # <<>> /\ tls'[t].v = y
                                 /\ tls'[t].rec[Len(tls'[t].rec)].v = x
      PROVE  Asked
  <2>1. back \in Callers
    BY <1>7 DEF Callers
  <2>2. SameSets(t, x, y)' /\ Home(t)' = back
    BY <1>1, <1>4, <1>7, <2>1, SamesetCalled
  <2>. QED
    BY <1>7, <2>2 DEF SameAsked
<1> HIDE DEF Asked
<1>8. CASE Enter(t)
  <2>1. CASE me.rec = <<>>
    BY <1>5, <1>8, <2>1 DEF Enter, Callers
  <2>2. CASE me.rec # <<>>
    <3>1. CallSameset(t, me.rec[Len(me.rec)].v, me.v, "entered") /\ tls' = tls
      BY <1>8, <2>2 DEF Enter
    <3>2. PICK x \in Slot, y \in Slot : x = me.rec[Len(me.rec)].v /\ y = me.v
      BY <1>2, <1>3, <2>2
    <3>. QED
      BY <1>7, <2>2, <3>1, <3>2
  <2>. QED
    BY <2>1, <2>2
<1>9. CASE Claimed(t)
  <2>1. CASE CallSameset(t, me.w, me.v, "found") /\ tls' = tls
    <3>1. PICK x \in Slot, y \in Slot : x = me.w /\ y = me.v
      BY <1>2
    <3>. QED
      BY <1>7, <2>1, <3>1
  <2>2. CASE Resume(t, "enter") \/ Resume(t, "edge")
    BY <1>5, <2>2 DEF Callers
  <2>. QED
    BY <1>9, <2>1, <2>2 DEF Claimed, NextEdge
<1>10. CASE United(t)
  <2>1. CallSameset(t, me.w, me.v, "found") /\ tls' = tls
    BY <1>10 DEF United
  <2>2. PICK x \in Slot, y \in Slot : x = me.w /\ y = me.v
    BY <1>2
  <2>. QED
    BY <1>7, <2>1, <2>2
<1>11. CASE Entered(t) \/ Explore(t)
  BY <1>5, <1>11 DEF Entered, Explore, Callers
<1>12. CASE Edge(t)
  BY <1>5, <1>6, <1>12 DEF Edge, Callers
<1>13. CASE Found(t)
  BY <1>5, <1>13 DEF Found, NextEdge, Callers
<1>14. CASE Backtrack(t) \/ IsDead(t)
  BY <1>5, <1>14 DEF Backtrack, IsDead, NextEdge, Callers
<1>15. CASE NextState(t)
  BY <1>5, <1>6, <1>15 DEF NextState, Callers
<1>16. CASE Start(t) \/ Join(t)
  BY <1>5, <1>16 DEF Start, Join, Callers
<1>. QED
  BY <1>8, <1>9, <1>10, <1>11, <1>12, <1>13, <1>14, <1>15, <1>16 DEF Recurse

\* So does the report, which never asks.
LEMMA ReportSame ==
  ASSUME SameKnown, Report
  PROVE  SameAsked(0)'
<1>1. 0 \in Worker /\ CallerStep(0, Callers)
  BY ReportCalls DEF SameKnown, SetsKnown, Inv
<1>2. Typed(Callers) /\ Outside(Callers) /\ InCall(0, Callers) /\ pc[0] \in Callers
  BY <1>1 DEF SameKnown, SetsKnown, SetsInv, Knows, CallerStep
<1>3. ASSUME NEW back \in {"collect", "collected", "end"}, NEW s,
             Goto(0, back) \/ Resume(0, back) \/ CallFind(0, s, <<back>>)
      PROVE  SameAsked(0)'
  <2>1. Home(0)' = back
    BY <1>1, <1>2, <1>3, CallerHome
  <2>. QED
    BY <1>3, <2>1 DEF SameAsked
<1>. QED
  BY <1>3 DEF Report, Barrier, Collect, Collected

\* Every step keeps what is known.
LEMMA NextSame ==
  ASSUME SameKnown, [Next]_vars
  PROVE  SameKnown'
<1>1. SetsKnown' /\ Coarser
  BY NextSets DEF SameKnown
<1>2. ASSUME NEW t \in Worker, NEW x \in Worker \ {t}, Alone(t), tls'[x] = tls[x]
      PROVE  SameAsked(x)'
  <2>1. /\ tls[x].v \in Slot /\ tls[x].w \in Slot
        /\ tls[x].rec # <<>> => tls[x].rec[Len(tls[x].rec)].v \in Slot
    <3>1. tls[x].v \in Slot /\ tls[x].w \in Slot /\ tls[x].rec \in Seq(Frame)
      BY TlsTyped DEF SameKnown, SetsKnown, Inv, Types
    <3>2. tls[x].rec # <<>> => tls[x].rec[Len(tls[x].rec)] \in Frame
      BY <3>1, PopTyped
    <3>. QED
      BY <3>1, <3>2 DEF Frame
  <2>2. Home(x)' = Home(x)
    BY <1>2 DEF Alone, OthersKept, Home
  <2>3. CASE Home(x) = "found"
    <3>1. PICK m \in Slot, n \in Slot : m = tls[x].w /\ n = tls[x].v
      BY <2>1
    <3>2. SameSets(x, m, n)
      BY <2>3, <3>1 DEF SameKnown, SameAsked
    <3>3. SameSets(x, m, n)'
      BY <1>1, <1>2, <3>2, OthersSame DEF SameKnown, SetsKnown
    <3>. QED
      BY <1>2, <2>2, <2>3, <3>1, <3>3 DEF SameAsked
  <2>4. CASE Home(x) = "entered"
    <3>1. tls[x].rec # <<>>
      BY <2>4 DEF SameKnown, SameAsked
    <3>2. PICK m \in Slot, n \in Slot : m = tls[x].rec[Len(tls[x].rec)].v /\ n = tls[x].v
      BY <2>1, <3>1
    <3>3. SameSets(x, m, n)
      BY <2>4, <3>2 DEF SameKnown, SameAsked
    <3>4. SameSets(x, m, n)'
      BY <1>1, <1>2, <3>3, OthersSame DEF SameKnown, SetsKnown
    <3>. QED
      BY <1>2, <2>2, <2>4, <3>1, <3>2, <3>4 DEF SameAsked
  <2>. QED
    BY <2>2, <2>3, <2>4 DEF SameAsked
<1>3. ASSUME NEW t \in Worker, UFStep(t), UNCHANGED <<G, tls, total, G_SCC>>
      PROVE  \A x \in Worker : SameAsked(x)'
  <2>1. Alone(t)
    BY <1>3, UFStepAlone DEF SameKnown, SetsKnown, SetsInv
  <2>2. Home(t)' = Home(t)
    BY <1>3, UFStepHome DEF SameKnown, SetsKnown, SetsInv, Knows
  <2>3. /\ tls[t].v \in Slot /\ tls[t].w \in Slot
        /\ tls[t].rec # <<>> => tls[t].rec[Len(tls[t].rec)].v \in Slot
    <3>1. tls[t].v \in Slot /\ tls[t].w \in Slot /\ tls[t].rec \in Seq(Frame)
      BY TlsTyped DEF SameKnown, SetsKnown, Inv, Types
    <3>2. tls[t].rec # <<>> => tls[t].rec[Len(tls[t].rec)] \in Frame
      BY <3>1, PopTyped
    <3>. QED
      BY <3>1, <3>2 DEF Frame
  <2>4. ASSUME NEW m \in Slot, NEW n \in Slot, SameSets(t, m, n)
        PROVE  SameSets(t, m, n)'
    BY <1>3, <2>4, UFStepSame DEF SameKnown, SetsKnown
  <2>5. CASE Home(t) = "found"
    <3>1. PICK m \in Slot, n \in Slot : m = tls[t].w /\ n = tls[t].v
      BY <2>3
    <3>2. SameSets(t, m, n)'
      BY <2>4, <2>5, <3>1 DEF SameKnown, SameAsked
    <3>. QED
      BY <1>2, <1>3, <2>1, <2>2, <2>5, <3>1, <3>2 DEF SameAsked
  <2>6. CASE Home(t) = "entered"
    <3>1. tls[t].rec # <<>>
      BY <2>6 DEF SameKnown, SameAsked
    <3>2. PICK m \in Slot, n \in Slot : m = tls[t].rec[Len(tls[t].rec)].v /\ n = tls[t].v
      BY <2>3, <3>1
    <3>3. SameSets(t, m, n)'
      BY <2>4, <2>6, <3>2 DEF SameKnown, SameAsked
    <3>. QED
      BY <1>2, <1>3, <2>1, <2>2, <2>6, <3>1, <3>2, <3>3 DEF SameAsked
  <2>7. SameAsked(t)'
    BY <2>2, <2>5, <2>6 DEF SameAsked
  <2>. QED
    BY <1>2, <1>3, <2>1, <2>7
<1>4. ASSUME NEW t \in Worker, Recurse(t) \/ NextState(t) \/ Start(t) \/ Join(t),
             \A x \in Worker \ {t} : tls'[x] = tls[x]
      PROVE  \A x \in Worker : SameAsked(x)'
  <2>1. CallerStep(t, Callers)
    BY <1>4, RecurseCalls DEF SameKnown, SetsKnown, Inv
  <2>2. Alone(t) /\ Root' = Root
    BY <1>1, <2>1, CallerMoves, CallerSets DEF SameKnown, SetsKnown, SetsInv, Inv, Types, Knows
  <2>3. SameAsked(t)'
    BY <1>4, <2>2, RecurseSame
  <2>. QED
    BY <1>2, <1>4, <2>2, <2>3
<1>5. ASSUME NEW t \in Worker, Step(t)
      PROVE  \A x \in Worker : SameAsked(x)'
  <2>1. CASE UFStep(t) /\ UNCHANGED <<G, tls, total, G_SCC>>
    BY <1>3, <2>1
  <2>2. CASE Recurse(t) \/ NextState(t) \/ Start(t) \/ Join(t)
    <3>1. \A x \in Worker \ {t} : tls'[x] = tls[x]
      BY <2>2 DEF Recurse, Enter, Entered, Explore, Edge, Claimed, Found, United, Backtrack, IsDead,
         NextState, Start, Join, NextEdge, SameKnown, SetsKnown, Inv, Types, OwnTyped
    <3>. QED
      BY <1>4, <2>2, <3>1
  <2>. QED
    BY <1>5, <2>1, <2>2 DEF Step
<1>6. ASSUME Report
      PROVE  \A x \in Worker : SameAsked(x)'
  <2>1. 0 \in Worker /\ CallerStep(0, Callers)
    BY <1>6, ReportCalls DEF SameKnown, SetsKnown, Inv
  <2>2. Alone(0)
    BY <2>1, CallerMoves DEF SameKnown, SetsKnown, SetsInv, Knows
  <2>3. \A x \in Worker \ {0} : tls'[x] = tls[x]
    BY <1>6, <2>1 DEF Report, Barrier, Collect, Collected, SameKnown, SetsKnown, Inv, Types, OwnTyped
  <2>. QED
    BY <1>2, <1>6, <2>1, <2>2, <2>3, ReportSame
<1>7. ASSUME UNCHANGED vars
      PROVE  \A x \in Worker : SameAsked(x)'
  <2>1. UNCHANGED <<uf, G_Color, pc, stack, ret, path, loc, tls>>
    BY <1>7 DEF vars, ufVars, control
  <2>2. Root' = Root
    BY <2>1 DEF Root
  <2>3. \A w \in Worker : (\A l : Awaits(w, l)' <=> Awaits(w, l)) /\ Home(w)' = Home(w)
    BY <2>1 DEF Awaits, Home
  <2>4. ASSUME NEW x \in Worker, NEW a, NEW b, SameSets(x, a, b)
        PROVE  SameSets(x, a, b)'
    BY <2>1, <2>2, <2>3, <2>4 DEF SameSets
  <2>5. ASSUME NEW x \in Worker PROVE SameAsked(x)'
    <3>1. SameAsked(x)
      BY DEF SameKnown
    <3>2. PICK r : r = tls[x]
      OBVIOUS
    <3>3. tls'[x] = r /\ Home(x)' = Home(x)
      BY <2>1, <2>3, <3>2
    <3>4. Home(x) = "found" => SameSets(x, r.w, r.v)'
      BY <2>4, <3>1, <3>2 DEF SameAsked
    <3>5. Home(x) = "entered" => r.rec # <<>> /\ SameSets(x, r.rec[Len(r.rec)].v, r.v)'
      BY <2>4, <3>1, <3>2 DEF SameAsked
    <3>. QED
      BY <3>3, <3>4, <3>5 DEF SameAsked, SameSets
  <2>. QED
    BY <2>5
<1>8. \A x \in Worker : SameAsked(x)'
  BY <1>5, <1>6, <1>7 DEF SameKnown, Next, Terminated
<1>. QED
  BY <1>1, <1>8 DEF SameKnown

\* sameset answers "same" only if the states are in one set, however unions and
\* path compressions of other workers fall between its two calls of find.
THEOREM SamesetIsSound == Spec => []SamesetSound
<1>1. SameKnown /\ [Next]_vars => SameKnown'
  BY NextSame
<1>2. SameKnown => SamesetSound
  <2> SUFFICES ASSUME SameKnown, NEW t \in Worker, ret[t].code = "same"
               PROVE  /\ pc[t] = "found" => Root[tls[t].w] = Root[tls[t].v]
                      /\ pc[t] = "entered" => Root[tls[t].rec[Len(tls[t].rec)].v] = Root[tls[t].v]
    BY DEF SamesetSound
  <2>1. pc[t] \in {"found", "entered"} => stack[t] = <<>>
    <3>1. InCall(t, Callers)
      BY DEF SameKnown, SetsKnown, SetsInv, Knows
    <3>2. {"found", "entered"} \cap (Labels \cup FindLabels \cup PickLabels) = {}
      BY DEF Labels, FindLabels, PickLabels
    <3>. QED
      BY <3>1, <3>2 DEF InCall
  <2>2. pc[t] \in {"found", "entered"} => Home(t) = pc[t]
    BY <2>1 DEF Home
  <2>3. SameAsked(t)
    BY DEF SameKnown
  <2>. QED
    BY <2>2, <2>3 DEF SameAsked, SameSets
<1>. QED
  BY InitSame, <1>1, <1>2, PTL DEF Spec

-----------------------------------------------------------------------------
(* The worker sets *)

BitsKnown == SetsKnown /\ BitsInv

\* They are empty initially.
LEMMA InitBits == Init => BitsKnown
<1>1. Init => UFInit /\ pc \in [Worker -> Callers]
  BY DEF Init, Callers
<1>. QED
  BY <1>1, InitSets, CallersOutside, BitsInit DEF BitsKnown

\* Every step keeps what is known of them.
LEMMA NextBits ==
  ASSUME BitsKnown, [Next]_vars
  PROVE  BitsKnown'
<1>1. SetsKnown' /\ Coarser
  BY NextSets DEF BitsKnown
<1>2. ASSUME NEW t \in Worker, UFStep(t)
      PROVE  BitsInv'
  BY <1>2, UFStepBits DEF BitsKnown, SetsKnown
<1>3. ASSUME NEW t \in Worker, CallerStep(t, Callers)
      PROVE  BitsInv'
  <2>1. Root' = Root
    BY <1>1, <1>3, CallerSets DEF BitsKnown, SetsKnown, Inv, Types
  <2>. QED
    BY <1>3, <2>1, CallerBits DEF BitsKnown, SetsKnown
<1>4. ASSUME UNCHANGED vars
      PROVE  BitsInv'
  BY <1>4, StutterBits DEF BitsKnown, vars, ufVars, control
<1>5. ASSUME NEW t \in Worker, Step(t)
      PROVE  BitsInv'
  BY <1>2, <1>3, <1>5, RecurseCalls DEF BitsKnown, SetsKnown, Inv, Step
<1>6. ASSUME Report
      PROVE  BitsInv'
  BY <1>3, <1>6, ReportCalls DEF BitsKnown, SetsKnown, Inv
<1>. QED
  BY <1>1, <1>4, <1>5, <1>6 DEF BitsKnown, Next, Terminated

\* No worker's bit is left behind at a state that stopped being a representative,
\* while make_claim (line 234) and unite (lines 350-360) race with other unions.
THEOREM BitsStayAtRoots == Spec => []BitsAtRoot
<1>1. BitsKnown => BitsAtRoot
  BY BitsArrive DEF BitsKnown, SetsKnown
<1>2. BitsKnown /\ [Next]_vars => BitsKnown'
  BY NextBits
<1>. QED
  BY InitBits, <1>1, <1>2, PTL DEF Spec

-----------------------------------------------------------------------------
(* The walk of a worker                                                    *)

\* Position j of the trail v is rooted, and its value is not repeated, up to i,
\* beyond another root.
Good(P, v, j, i) ==
  /\ j \in P
  /\ \A x \in j+1 .. i : x \notin P /\ v[x] = v[j] => \A y \in P : ~(j < y /\ y < x)

\* The class of u occurs between position i and the next root, or w is in it.
Near(L, P, v, c, w, i, u) ==
  \/ \E x \in i .. L : (\A y \in P : ~(i < y /\ y <= x)) /\ c[v[x]] = c[u]
  \/ w # 0 /\ (\A y \in P : y <= i) /\ c[w] = c[u]

Link(P, v, c, i) ==
  \E j \in P : j < i /\ Good(P, v, j, i) /\ c[v[j]] = c[v[i]]

Guard(L, P, v, c, w, i) ==
  \E j \in P : j < i /\ Good(P, v, j, i) /\ v[j] # v[i] /\ Near(L, P, v, c, w, i, v[j])

Safe(L, P, v, c, w) ==
  \A i \in 1 .. L : i \notin P => Link(P, v, c, i) /\ Guard(L, P, v, c, w, i)

\* Every state on the trail is in the class of a root at or before it.
LEMMA SafeRoots ==
  ASSUME NEW L \in Nat, NEW P \in SUBSET (1 .. L), NEW v, NEW c, NEW w, Safe(L, P, v, c, w)
  PROVE  /\ \A i \in 1 .. L : \E j \in P : j <= i /\ c[v[j]] = c[v[i]]
         /\ L > 0 => 1 \in P
<1>1. ASSUME NEW i \in 1 .. L
      PROVE  \E j \in P : j <= i /\ c[v[j]] = c[v[i]]
  <2>1. CASE i \in P
    BY <2>1
  <2>2. CASE i \notin P
    BY <2>2 DEF Safe, Link
  <2>. QED
    BY <2>1, <2>2
<1>2. L > 0 => 1 \in P
  <2> SUFFICES ASSUME L > 0 PROVE 1 \in P
    OBVIOUS
  <2>1. PICK j \in P : j <= 1
    BY <1>1
  <2>. QED
    BY <2>1
<1>. QED
  BY <1>1, <1>2

\* Coarser classes keep it.
LEMMA SafeCoarser ==
  ASSUME NEW L \in Nat, NEW P \in SUBSET (1 .. L), NEW v, NEW c, NEW d, NEW w, NEW S,
         Safe(L, P, v, c, w), \A i \in 1 .. L : v[i] \in S, w = 0 \/ w \in S,
         \A x, y \in S : c[x] = c[y] => d[x] = d[y]
  PROVE  Safe(L, P, v, d, w)
<1> SUFFICES ASSUME NEW i \in 1 .. L, i \notin P
             PROVE  Link(P, v, d, i) /\ Guard(L, P, v, d, w, i)
  BY DEF Safe
<1>1. Link(P, v, d, i)
  BY DEF Safe, Link
<1>2. PICK j \in P : j < i /\ Good(P, v, j, i) /\ v[j] # v[i] /\ Near(L, P, v, c, w, i, v[j])
  BY DEF Safe, Guard
<1>3. Near(L, P, v, d, w, i, v[j])
  BY <1>2 DEF Near
<1>. QED
  BY <1>1, <1>2, <1>3 DEF Guard

\* A new root at the end.
LEMMA SafePush ==
  ASSUME NEW L \in Nat, NEW P \in SUBSET (1 .. L), NEW v, NEW v2, NEW c,
         Safe(L, P, v, c, 0), \A i \in 1 .. L : v2[i] = v[i]
  PROVE  Safe(L + 1, P \cup {L + 1}, v2, c, 0)
<1> DEFINE Q == P \cup {L + 1}
<1> SUFFICES ASSUME NEW i \in 1 .. L, i \notin P
             PROVE  Link(Q, v2, c, i) /\ Guard(L + 1, Q, v2, c, 0, i)
  BY DEF Safe
<1>1. ASSUME NEW j \in P, j < i, Good(P, v, j, i)
      PROVE  Good(Q, v2, j, i)
  BY <1>1 DEF Good
<1>2. Link(Q, v2, c, i)
  BY <1>1 DEF Safe, Link
<1>3. PICK j \in P : j < i /\ Good(P, v, j, i) /\ v[j] # v[i] /\ Near(L, P, v, c, 0, i, v[j])
  BY DEF Safe, Guard
<1>4. Near(L + 1, Q, v2, c, 0, i, v2[j])
  <2>1. PICK x \in i .. L : (\A y \in P : ~(i < y /\ y <= x)) /\ c[v[x]] = c[v[j]]
    BY <1>3 DEF Near
  <2>. QED
    BY <2>1 DEF Near
<1>. QED
  BY <1>1, <1>2, <1>3, <1>4 DEF Guard

\* The search looks at state w.
LEMMA SafeLook ==
  ASSUME NEW L \in Nat, NEW P \in SUBSET (1 .. L), NEW v, NEW c, NEW w, Safe(L, P, v, c, 0)
  PROVE  Safe(L, P, v, c, w)
<1> SUFFICES ASSUME NEW i \in 1 .. L, i \notin P
             PROVE  Guard(L, P, v, c, w, i)
  BY DEF Safe
<1>. QED
  BY DEF Safe, Guard, Near

\* It has come into the set of the last state.
LEMMA SafeLooked ==
  ASSUME NEW L \in Nat, NEW P \in SUBSET (1 .. L), NEW v, NEW c, NEW w, Safe(L, P, v, c, w),
         c[w] = c[v[L]]
  PROVE  Safe(L, P, v, c, 0)
<1> SUFFICES ASSUME NEW i \in 1 .. L, i \notin P
             PROVE  Guard(L, P, v, c, 0, i)
  BY DEF Safe
<1>1. PICK j \in P : j < i /\ Good(P, v, j, i) /\ v[j] # v[i] /\ Near(L, P, v, c, w, i, v[j])
  BY DEF Safe, Guard
<1>2. CASE w # 0 /\ (\A y \in P : y <= i) /\ c[w] = c[v[j]]
  <2>1. L \in i .. L /\ (\A y \in P : ~(i < y /\ y <= L)) /\ c[v[L]] = c[v[j]]
    BY <1>2
  <2>2. Near(L, P, v, c, 0, i, v[j])
    BY <2>1 DEF Near
  <2>. QED
    BY <1>1, <2>2 DEF Guard
<1>3. CASE ~(w # 0 /\ (\A y \in P : y <= i) /\ c[w] = c[v[j]])
  BY <1>1, <1>3 DEF Near, Guard
<1>. QED
  BY <1>2, <1>3

\* Back from a state that is itself the last root.
LEMMA SafeBackRoot ==
  ASSUME NEW L \in Nat, NEW P \in SUBSET (1 .. L), NEW v, NEW c, Safe(L, P, v, c, 0), L \in P
  PROVE  Safe(L - 1, P \ {L}, v, c, 0)
<1> DEFINE Q == P \ {L}
<1> SUFFICES ASSUME NEW i \in 1 .. L - 1, i \notin Q
             PROVE  Link(Q, v, c, i) /\ Guard(L - 1, Q, v, c, 0, i)
  BY DEF Safe
<1>0. i \notin P /\ i \in 1 .. L
  OBVIOUS
<1>1. ASSUME NEW j \in P, j < i, Good(P, v, j, i)
      PROVE  j \in Q /\ Good(Q, v, j, i)
  BY <1>1 DEF Good
<1>2. Link(Q, v, c, i)
  BY <1>0, <1>1 DEF Safe, Link
<1>3. PICK j \in P : j < i /\ Good(P, v, j, i) /\ v[j] # v[i] /\ Near(L, P, v, c, 0, i, v[j])
  BY <1>0 DEF Safe, Guard
<1>4. PICK x \in i .. L : (\A y \in P : ~(i < y /\ y <= x)) /\ c[v[x]] = c[v[j]]
  BY <1>3 DEF Near
<1>5. x \in i .. L - 1
  BY <1>4
<1>6. Near(L - 1, Q, v, c, 0, i, v[j])
  BY <1>4, <1>5 DEF Near
<1>. QED
  BY <1>1, <1>2, <1>3, <1>6 DEF Guard

\* Back from a state without a root of its own to one of its class, without a pop.
LEMMA SafeBackPlain ==
  ASSUME NEW L \in Nat, NEW P \in SUBSET (1 .. L), NEW v, NEW c, Safe(L, P, v, c, 0), L \notin P,
         c[v[L]] = c[v[L - 1]]
  PROVE  Safe(L - 1, P, v, c, 0)
<1> SUFFICES ASSUME NEW i \in 1 .. L - 1, i \notin P
             PROVE  Link(P, v, c, i) /\ Guard(L - 1, P, v, c, 0, i)
  BY DEF Safe
<1>1. Link(P, v, c, i)
  BY DEF Safe
<1>2. PICK j \in P : j < i /\ Good(P, v, j, i) /\ v[j] # v[i] /\ Near(L, P, v, c, 0, i, v[j])
  BY DEF Safe, Guard
<1>3. PICK x \in i .. L : (\A y \in P : ~(i < y /\ y <= x)) /\ c[v[x]] = c[v[j]]
  BY <1>2 DEF Near
<1>4. Near(L - 1, P, v, c, 0, i, v[j])
  <2>1. CASE x = L
    <3>1. L - 1 \in i .. L - 1 /\ (\A y \in P : ~(i < y /\ y <= L - 1)) /\ c[v[L - 1]] = c[v[j]]
      BY <1>3, <2>1
    <3>. QED
      BY <3>1 DEF Near
  <2>2. CASE x # L
    <3>1. x \in i .. L - 1
      BY <2>2
    <3>. QED
      BY <1>3, <3>1 DEF Near
  <2>. QED
    BY <2>1, <2>2
<1>. QED
  BY <1>1, <1>2, <1>4 DEF Guard

\* The same when the last root, of another position, has its value and is popped.
LEMMA SafeBackWrong ==
  ASSUME NEW L \in Nat, NEW P \in SUBSET (1 .. L), NEW v, NEW c, Safe(L, P, v, c, 0), L \notin P,
         L > 0, c[v[L]] = c[v[L - 1]], NEW t \in P, \A y \in P : y <= t, v[t] = v[L]
  PROVE  Safe(L - 1, P \ {t}, v, c, 0)
<1> DEFINE Q == P \ {t}
<1>1. PICK g \in P : g < L /\ Good(P, v, g, L) /\ v[g] # v[L] /\ Near(L, P, v, c, 0, L, v[g])
  BY DEF Safe, Guard
<1>2. c[v[g]] = c[v[L]] /\ g < t /\ g \in Q
  BY <1>1 DEF Near
<1> SUFFICES ASSUME NEW i \in 1 .. L - 1, i \notin Q
             PROVE  Link(Q, v, c, i) /\ Guard(L - 1, Q, v, c, 0, i)
  BY DEF Safe
<1>3. ASSUME NEW j \in Q, Good(P, v, j, i), i < t \/ v[j] # v[t]
      PROVE  Good(Q, v, j, i)
  BY <1>3 DEF Good
<1>4. CASE i < t
  <2>1. i \notin P
    BY <1>4
  <2>2. Link(Q, v, c, i)
    BY <1>3, <1>4, <2>1 DEF Safe, Link
  <2>3. PICK j \in P : j < i /\ Good(P, v, j, i) /\ v[j] # v[i] /\ Near(L, P, v, c, 0, i, v[j])
    BY <2>1 DEF Safe, Guard
  <2>4. PICK x \in i .. L : (\A y \in P : ~(i < y /\ y <= x)) /\ c[v[x]] = c[v[j]]
    BY <2>3 DEF Near
  <2>5. x \in i .. L - 1
    BY <1>4, <2>4
  <2>6. Near(L - 1, Q, v, c, 0, i, v[j])
    BY <2>4, <2>5 DEF Near
  <2>7. j \in Q
    BY <1>4, <2>3
  <2>8. Good(Q, v, j, i)
    BY <1>3, <1>4, <2>3, <2>7
  <2>. QED
    BY <2>2, <2>3, <2>6, <2>7, <2>8 DEF Guard
<1>5. CASE i >= t
  <2>1. Good(P, v, g, i)
    BY <1>1 DEF Good
  <2>2. Good(Q, v, g, i) /\ g < i
    BY <1>1, <1>2, <1>3, <1>5, <2>1
  <2>3. v[g] # v[i]
    <3>1. CASE i = t
      BY <1>1, <3>1
    <3>2. CASE i # t
      <4>1. i \notin P /\ i \in g+1 .. L /\ g < t /\ t < i
        BY <1>2, <1>5, <3>2
      <4>. QED
        BY <1>1, <4>1 DEF Good
    <3>. QED
      BY <3>1, <3>2
  <2>4. L - 1 \in i .. L - 1 /\ (\A y \in Q : ~(i < y /\ y <= L - 1)) /\ c[v[L - 1]] = c[v[g]]
    BY <1>2, <1>5
  <2>5. Near(L - 1, Q, v, c, 0, i, v[g])
    BY <2>4 DEF Near
  <2>6. Guard(L - 1, Q, v, c, 0, i)
    BY <1>2, <2>2, <2>3, <2>5 DEF Guard
  <2>7. CASE c[v[i]] = c[v[L]]
    BY <1>2, <2>2, <2>6, <2>7 DEF Link
  <2>8. CASE c[v[i]] # c[v[L]]
    <3>1. i \notin P
      BY <2>8
    <3>2. PICK j \in P : j < i /\ Good(P, v, j, i) /\ c[v[j]] = c[v[i]]
      BY <3>1 DEF Safe, Link
    <3>3. j \in Q /\ v[j] # v[t]
      BY <2>8, <3>2
    <3>. QED
      BY <1>3, <2>6, <3>2, <3>3 DEF Link
  <2>. QED
    BY <2>7, <2>8
<1>6. i \in Int /\ t \in Int
  OBVIOUS
<1>7. i < t \/ i >= t
  BY <1>6
<1>. QED
  BY <1>4, <1>5, <1>7

\* Position t is the last of P.
Last(P, t) == t \in P /\ \A y \in P : y <= t
HasLast(P) == \E t \in P : Last(P, t)

\* A nonempty set of positions has a last one.
LEMMA LastPosition ==
  ASSUME NEW L \in Nat, NEW P \in SUBSET (1 .. L), P # {}
  PROVE  \E t \in P : Last(P, t)
<1> DEFINE T == {n \in Nat : L - n \in P}
<1>1. PICK a \in P : TRUE
  OBVIOUS
<1>2. L - a \in Nat /\ L - (L - a) = a
  OBVIOUS
<1>3. PICK m \in T : \A k \in T : m <= k
  <2>1. L - a \in T
    BY <1>2
  <2>2. T # {} /\ T \subseteq Nat
    BY <2>1
  <2>. QED
    BY <2>2, LeastNumber
<1>4. ASSUME NEW y \in P
      PROVE  y <= L - m
  <2>1. L - y \in T
    OBVIOUS
  <2>2. m <= L - y /\ m \in Nat
    BY <1>3, <2>1
  <2>. QED
    BY <2>2
<1>. QED
  BY <1>4 DEF Last

\* A class with a root has one whose value is not repeated beyond another root.
Sole(L, P, v, c, j, u) == Good(P, v, j, L) /\ c[v[j]] = c[u]

\* Every root has a witness that no later root repeats.
LEMMA SafeWitness ==
  ASSUME NEW L \in Nat, NEW P \in SUBSET (1 .. L), NEW v, NEW c, NEW w, Safe(L, P, v, c, w),
         NEW k \in P
  PROVE  \E j \in P : Sole(L, P, v, c, j, v[k])
<1> DEFINE X == {x \in 1 .. L : x \notin P /\ c[v[x]] = c[v[k]]}
<1>1. CASE X = {}
  BY <1>1 DEF Good, Sole
<1>2. CASE X # {}
  <2>1. PICK x \in X : \A y \in X : y <= x
    BY <1>2, LastPosition DEF Last
  <2>2. PICK j \in P : j < x /\ Good(P, v, j, x) /\ c[v[j]] = c[v[x]]
    BY <2>1 DEF Safe, Link
  <2>3. Good(P, v, j, L)
    BY <2>1, <2>2 DEF Good
  <2>. QED
    BY <2>1, <2>2, <2>3 DEF Sole
<1>. QED
  BY <1>1, <1>2

\* Before a unite there are two roots at least.
LEMMA SafeTwoRoots ==
  ASSUME NEW L \in Nat, NEW P \in SUBSET (1 .. L), NEW v, NEW c, NEW w, Safe(L, P, v, c, w),
         L > 0, NEW k \in P, c[v[k]] = c[w], c[w] # c[v[L]], NEW t \in P, Last(P, t)
  PROVE  HasLast(P \ {t})
<1>1. PICK j \in P : j <= L /\ c[v[j]] = c[v[L]]
  BY SafeRoots
<1>2. P \ {t} # {} /\ P \ {t} \in SUBSET (1 .. L)
  BY <1>1
<1>. QED
  BY <1>2, LastPosition DEF HasLast

\* Classes d are classes c with those of a and b joined.
Joins(c, d, S, a, b) ==
  \A x, y \in S : d[x] = d[y] <=> c[x] = c[y] \/ (c[x] \in {c[a], c[b]} /\ c[y] \in {c[a], c[b]})

\* The last root is popped and its class joined with that of the root below.
LEMMA SafeUnite ==
  ASSUME NEW L \in Nat, NEW P \in SUBSET (1 .. L), NEW v, NEW c, NEW d, NEW w, NEW S,
         Safe(L, P, v, c, w), w # 0, w \in S, \A i \in 1 .. L : v[i] \in S,
         L > 0, c[w] # c[v[L]], NEW k \in P, c[v[k]] = c[w],
         NEW t \in P, Last(P, t), NEW s \in P \ {t}, Last(P \ {t}, s),
         Joins(c, d, S, v[t], v[s])
  PROVE  Safe(L, P \ {t}, v, d, w)
<1> DEFINE Q == P \ {t}
           A == c[v[t]]
           B == c[v[s]]
<1>1. /\ \A x, y \in S : c[x] = c[y] => d[x] = d[y]
      /\ \A x \in S : c[x] \in {A, B} <=> d[x] = d[v[s]]
      /\ v[t] \in S /\ v[s] \in S
  BY DEF Joins
<1>2. s \in Q /\ s \in P /\ s < t /\ (\A y \in Q : y <= s) /\ \A y \in P : y <= t
  <2>1. s \in Q /\ s \in P /\ (\A y \in Q : y <= s) /\ \A y \in P : y <= t
    BY DEF Last
  <2>2. s <= t /\ s # t /\ s \in Int /\ t \in Int
    BY <2>1
  <2>. QED
    BY <2>1, <2>2
<1> SUFFICES ASSUME NEW i \in 1 .. L, i \notin Q
             PROVE  Link(Q, v, d, i) /\ Guard(L, Q, v, d, w, i)
  BY DEF Safe
<1>3. ASSUME NEW j \in Q, Good(P, v, j, i), i < t \/ v[j] # v[t]
      PROVE  Good(Q, v, j, i)
  BY <1>3 DEF Good
<1>4. i < s \/ s < i
  <2>1. i \in Int /\ s \in Int /\ i # s
    BY <1>2
  <2>. QED
    BY <2>1
<1>5. CASE i < s
  <2>1. i \notin P /\ i < t
    <3>1. i \in Int /\ s \in Int /\ t \in Int /\ s < t
      BY <1>2
    <3>. QED
      BY <1>5, <3>1
  <2>2. PICK j \in P : j < i /\ Good(P, v, j, i) /\ c[v[j]] = c[v[i]]
    BY <2>1 DEF Safe, Link
  <2>3. Link(Q, v, d, i)
    <3>1. j \in Q /\ d[v[j]] = d[v[i]]
      BY <1>1, <2>1, <2>2
    <3>. QED
      BY <1>3, <2>1, <2>2, <3>1 DEF Link
  <2>4. PICK g \in P : g < i /\ Good(P, v, g, i) /\ v[g] # v[i] /\ Near(L, P, v, c, w, i, v[g])
    BY <2>1 DEF Safe, Guard
  <2>5. PICK x \in i .. L : (\A y \in P : ~(i < y /\ y <= x)) /\ c[v[x]] = c[v[g]]
    BY <1>5, <2>4 DEF Near
  <2>6. Near(L, Q, v, d, w, i, v[g])
    BY <1>1, <2>5 DEF Near
  <2>7. g \in Q
    BY <2>1, <2>4
  <2>. QED
    BY <1>3, <2>1, <2>3, <2>4, <2>6, <2>7 DEF Guard
<1>6. CASE s < i
  <2>1. Good(Q, v, s, i)
    BY <1>2 DEF Good
  <2>2. ASSUME NEW u \in S, NEW x \in i .. L, d[v[x]] = d[u]
        PROVE  Near(L, Q, v, d, w, i, u)
    BY <1>2, <1>6, <2>2 DEF Near
  <2>3. ASSUME NEW u \in S, d[w] = d[u]
        PROVE  Near(L, Q, v, d, w, i, u)
    <3>1. \A y \in Q : y <= i
      BY <1>2, <1>6
    <3>. QED
      BY <2>3, <3>1 DEF Near
  <2>4. ASSUME NEW u \in S, Near(L, P, v, c, w, i, u)
        PROVE  Near(L, Q, v, d, w, i, u)
    BY <1>1, <2>2, <2>3, <2>4 DEF Near
  <2>5. ASSUME NEW j \in P, c[v[j]] \notin {A, B}
        PROVE  j \in Q /\ v[j] # v[t]
    BY <2>5
  <2>6. Link(Q, v, d, i)
    <3>1. CASE c[v[i]] \in {A, B}
      BY <1>1, <1>2, <1>6, <2>1, <3>1 DEF Link
    <3>2. CASE c[v[i]] \notin {A, B}
      <4>1. i \notin P
        BY <3>2
      <4>2. PICK j \in P : j < i /\ Good(P, v, j, i) /\ c[v[j]] = c[v[i]]
        BY <4>1 DEF Safe, Link
      <4>3. j \in Q /\ v[j] # v[t] /\ d[v[j]] = d[v[i]]
        BY <1>1, <2>5, <3>2, <4>2
      <4>. QED
        BY <1>3, <4>2, <4>3 DEF Link
    <3>. QED
      BY <3>1, <3>2
  <2>7. ASSUME v[s] # v[i], NEW x \in i .. L, d[v[x]] = d[v[s]]
        PROVE  Guard(L, Q, v, d, w, i)
    BY <1>1, <1>2, <1>6, <2>1, <2>2, <2>7 DEF Guard
  <2>8. CASE c[v[i]] \notin {A, B}
    <3>1. i \notin P /\ v[i] # v[s]
      BY <2>8
    <3>2. CASE i < t
      <4>1. t \in i .. L /\ d[v[t]] = d[v[s]]
        BY <1>1, <3>2
      <4>. QED
        BY <2>6, <2>7, <3>1, <4>1
    <3>3. CASE t < i
      <4>1. PICK j \in P : j < i /\ Good(P, v, j, i) /\ v[j] # v[i] /\ Near(L, P, v, c, w, i, v[j])
        BY <3>1 DEF Safe, Guard
      <4>2. v[j] \in S /\ Near(L, Q, v, d, w, i, v[j])
        BY <2>4, <4>1
      <4>3. CASE c[v[j]] \in {A, B}
        <5>1. Near(L, Q, v, d, w, i, v[s])
          <6>1. d[v[j]] = d[v[s]]
            BY <1>1, <4>2, <4>3
          <6>. QED
            BY <4>2, <6>1 DEF Near
        <5>2. s \in Q /\ v[s] # v[i]
          BY <1>2, <3>1
        <5>3. Guard(L, Q, v, d, w, i)
          BY <1>6, <2>1, <5>1, <5>2 DEF Guard
        <5>. QED
          BY <2>6, <5>3
      <4>4. CASE c[v[j]] \notin {A, B}
        BY <1>3, <2>5, <2>6, <4>1, <4>2, <4>4 DEF Guard
      <4>. QED
        BY <4>3, <4>4
    <3>4. i \in Int /\ t \in Int /\ i # t
      BY <3>1
    <3>. QED
      BY <3>2, <3>3, <3>4
  <2>9. CASE c[v[i]] \in {A, B} /\ v[s] # v[i]
    <3>1. i \in i .. L /\ d[v[i]] = d[v[s]]
      BY <1>1, <2>9
    <3>. QED
      BY <2>6, <2>7, <2>9, <3>1
  <2>10. CASE v[s] = v[i] /\ A = B
    <3>1. PICK u \in {w, v[L]} : c[u] \notin {A, B}
      BY <2>10
    <3>2. PICK r \in P : c[v[r]] = c[u]
      <4>1. \A x \in 1 .. L : \E r \in P : r <= x /\ c[v[r]] = c[v[x]]
        BY SafeRoots
      <4>. QED
        BY <3>1, <4>1
    <3>3. PICK j \in P : Good(P, v, j, L) /\ c[v[j]] = c[u]
      <4>1. \E j \in P : Sole(L, P, v, c, j, v[r])
        BY SafeWitness
      <4>. QED
        BY <3>2, <4>1 DEF Sole
    <3>4. j \in Q /\ v[j] # v[t] /\ v[j] # v[i] /\ j < i
      BY <1>2, <1>6, <2>5, <2>10, <3>1, <3>3
    <3>5. Good(P, v, j, i)
      BY <3>3 DEF Good
    <3>6. Near(L, Q, v, d, w, i, v[j])
      <4>1. d[v[j]] = d[u] /\ v[j] \in S
        BY <1>1, <3>1, <3>3
      <4>2. CASE u = w
        BY <2>3, <4>1, <4>2
      <4>3. CASE u = v[L]
        <5>1. L \in i .. L
          OBVIOUS
        <5>. QED
          BY <2>2, <4>1, <4>3, <5>1
      <4>. QED
        BY <3>1, <4>2, <4>3
    <3>. QED
      BY <1>3, <2>6, <3>4, <3>5, <3>6 DEF Guard
  <2>11. CASE v[s] = v[i] /\ A # B
    <3>1. i # t /\ i \notin P
      BY <2>11
    <3>2. CASE i < t
      <4>1. PICK j \in P : j < i /\ Good(P, v, j, i) /\ v[j] # v[i] /\ Near(L, P, v, c, w, i, v[j])
        BY <3>1 DEF Safe, Guard
      <4>2. v[j] \in S /\ j \in Q
        BY <3>2, <4>1
      <4>. QED
        BY <1>3, <2>4, <2>6, <3>2, <4>1, <4>2 DEF Guard
    <3>3. CASE t < i
      <4>1. PICK j \in P : j < i /\ Good(P, v, j, i) /\ c[v[j]] = c[v[i]]
        BY <3>1 DEF Safe, Link
      <4>2. j \in Q /\ v[j] # v[t] /\ v[j] \in S /\ d[v[j]] = d[v[i]]
        BY <1>1, <2>11, <4>1
      <4>3. v[j] # v[i]
        <5>1. ASSUME v[j] = v[i] PROVE ~(j < t /\ t < i)
          BY <3>1, <4>1, <5>1 DEF Good
        <5>2. j < t
          BY <1>2, <4>2
        <5>. QED
          BY <3>3, <5>1, <5>2
      <4>4. Near(L, Q, v, d, w, i, v[j])
        <5>1. i \in i .. L
          OBVIOUS
        <5>. QED
          BY <2>2, <4>2, <5>1
      <4>. QED
        BY <1>3, <2>6, <4>1, <4>2, <4>3, <4>4 DEF Guard
    <3>4. i \in Int /\ t \in Int
      OBVIOUS
    <3>. QED
      BY <3>1, <3>2, <3>3, <3>4
  <2>. QED
    BY <2>6, <2>8, <2>9, <2>10, <2>11
<1>. QED
  BY <1>4, <1>5, <1>6

\* The roots rts are those of positions of the trail v, in the order of the trail.
At(L, v, rts, p) ==
  /\ p \in [1 .. Len(rts) -> 1 .. L]
  /\ \A a, b \in 1 .. Len(rts) : a < b => p[a] < p[b]
  /\ \A a \in 1 .. Len(rts) : rts[a] = v[p[a]]

Walk(L, v, rts, c, w) ==
  \E p \in [1 .. Len(rts) -> 1 .. L] :
    At(L, v, rts, p) /\ Safe(L, {p[a] : a \in 1 .. Len(rts)}, v, c, w)

\* A walk stays one when classes are united.
LEMMA WalkCoarser ==
  ASSUME NEW L \in Nat, NEW v, NEW rts, NEW c, NEW d, NEW w, NEW S,
         Walk(L, v, rts, c, w), \A i \in 1 .. L : v[i] \in S, w = 0 \/ w \in S,
         \A x, y \in S : c[x] = c[y] => d[x] = d[y]
  PROVE  Walk(L, v, rts, d, w)
<1>1. PICK p \in [1 .. Len(rts) -> 1 .. L] :
        At(L, v, rts, p) /\ Safe(L, {p[a] : a \in 1 .. Len(rts)}, v, c, w)
  BY DEF Walk
<1> DEFINE P == {p[a] : a \in 1 .. Len(rts)}
<1>2. P \in SUBSET (1 .. L)
  OBVIOUS
<1> HIDE DEF P
<1>3. Safe(L, P, v, c, w)
  BY <1>1 DEF P
<1>4. Safe(L, P, v, d, w)
  BY <1>2, <1>3, SafeCoarser
<1>. QED
  BY <1>1, <1>4 DEF Walk, P

\* The trail may be given by another function.
LEMMA WalkSame ==
  ASSUME NEW L \in Nat, NEW v, NEW v2, NEW rts, NEW c, NEW w, Walk(L, v, rts, c, w),
         \A i \in 1 .. L : v2[i] = v[i]
  PROVE  Walk(L, v2, rts, c, w)
<1>1. PICK p \in [1 .. Len(rts) -> 1 .. L] :
        At(L, v, rts, p) /\ Safe(L, {p[a] : a \in 1 .. Len(rts)}, v, c, w)
  BY DEF Walk
<1> DEFINE P == {p[a] : a \in 1 .. Len(rts)}
<1>2. P \in SUBSET (1 .. L)
  OBVIOUS
<1>3. At(L, v2, rts, p)
  BY <1>1 DEF At
<1> HIDE DEF P
<1>4. Safe(L, P, v, c, w)
  BY <1>1 DEF P
<1>5. ASSUME NEW i \in 1 .. L, i \notin P
      PROVE  Link(P, v2, c, i) /\ Guard(L, P, v2, c, w, i)
  <2>1. ASSUME NEW j \in P, Good(P, v, j, i)
        PROVE  Good(P, v2, j, i)
    BY <1>2, <2>1 DEF Good
  <2>2. Link(P, v2, c, i)
    BY <1>2, <1>4, <1>5, <2>1 DEF Safe, Link
  <2>3. PICK j \in P : j < i /\ Good(P, v, j, i) /\ v[j] # v[i] /\ Near(L, P, v, c, w, i, v[j])
    BY <1>4, <1>5 DEF Safe, Guard
  <2>4. v2[j] # v2[i] /\ v2[j] = v[j]
    BY <1>2, <2>3
  <2>5. Near(L, P, v2, c, w, i, v[j])
    BY <2>3 DEF Near
  <2>. QED
    BY <2>1, <2>2, <2>3, <2>4, <2>5 DEF Guard
<1>6. Safe(L, P, v2, c, w)
  BY <1>5 DEF Safe
<1>. QED
  BY <1>3, <1>6 DEF Walk, P

\* The first state of a search.
LEMMA WalkStart ==
  ASSUME NEW v, NEW c, NEW rts, rts = <<v[1]>>
  PROVE  Walk(1, v, rts, c, 0)
<1> DEFINE p == [a \in 1 .. 1 |-> 1]
<1>1. Len(rts) = 1 /\ rts[1] = v[1]
  OBVIOUS
<1>2. p \in [1 .. Len(rts) -> 1 .. 1] /\ {p[a] : a \in 1 .. Len(rts)} = {1}
  BY <1>1
<1>3. At(1, v, rts, p)
  BY <1>1, <1>2 DEF At
<1>4. Safe(1, {1}, v, c, 0)
  BY DEF Safe
<1>. QED
  BY <1>2, <1>3, <1>4 DEF Walk

\* The state claimed at the end of the trail becomes its last root.
LEMMA WalkPush ==
  ASSUME NEW L \in Nat, NEW v, NEW v2, NEW S, NEW rts \in Seq(S), NEW x \in S, NEW c, Walk(L, v, rts, c, 0),
         \A i \in 1 .. L : v2[i] = v[i], v2[L + 1] = x
  PROVE  Walk(L + 1, v2, Append(rts, x), c, 0)
<1>1. PICK p \in [1 .. Len(rts) -> 1 .. L] :
        At(L, v, rts, p) /\ Safe(L, {p[a] : a \in 1 .. Len(rts)}, v, c, 0)
  BY DEF Walk
<1> DEFINE n == Len(rts)
           P == {p[a] : a \in 1 .. n}
           q == [a \in 1 .. n + 1 |-> IF a <= n THEN p[a] ELSE L + 1]
           all == Append(rts, x)
<1>2. P \in SUBSET (1 .. L)
  OBVIOUS
<1>3. n \in Nat /\ Len(all) = n + 1 /\ all[n + 1] = x /\ \A a \in 1 .. n : all[a] = rts[a]
  OBVIOUS
<1>4. q \in [1 .. n + 1 -> 1 .. L + 1]
  OBVIOUS
<1>5. {q[a] : a \in 1 .. n + 1} = P \cup {L + 1}
  BY <1>3
<1> HIDE DEF P
<1>6. Safe(L, P, v, c, 0)
  BY <1>1 DEF P
<1>7. Safe(L + 1, P \cup {L + 1}, v2, c, 0)
  BY <1>2, <1>6, SafePush
<1>8. At(L + 1, v2, all, q)
  <2>1. ASSUME NEW a \in 1 .. n + 1, NEW b \in 1 .. n + 1, a < b
        PROVE  q[a] < q[b]
    <3>1. a \in 1 .. n /\ q[a] = p[a] /\ p[a] \in 1 .. L
      BY <1>3, <2>1
    <3>2. CASE b \in 1 .. n
      BY <1>1, <2>1, <3>1, <3>2 DEF At
    <3>3. CASE b = n + 1
      BY <1>3, <3>1, <3>3
    <3>. QED
      BY <1>3, <3>2, <3>3
  <2>2. ASSUME NEW a \in 1 .. n + 1
        PROVE  all[a] = v2[q[a]]
    <3>1. CASE a \in 1 .. n
      <4>1. all[a] = rts[a] /\ rts[a] = v[p[a]] /\ p[a] \in 1 .. L /\ q[a] = p[a]
        BY <1>1, <1>3, <3>1 DEF At
      <4>. QED
        BY <4>1
    <3>2. CASE a = n + 1
      BY <1>3, <3>2
    <3>. QED
      BY <1>3, <3>1, <3>2
  <2>. QED
    BY <1>3, <1>4, <2>1, <2>2 DEF At
<1>9. q \in [1 .. Len(all) -> 1 .. L + 1]
  BY <1>3, <1>4
<1>10. Safe(L + 1, {q[a] : a \in 1 .. Len(all)}, v2, c, 0)
  <2>1. {q[a] : a \in 1 .. Len(all)} = P \cup {L + 1}
    BY <1>3, <1>5
  <2> HIDE DEF q, all, n
  <2>. QED
    BY <1>7, <2>1
<1>11. Walk(L + 1, v2, all, c, 0)
  <2> HIDE DEF q, all, n
  <2>. QED
    BY <1>8, <1>9, <1>10 DEF Walk
<1>. QED
  BY <1>11

\* Looking at a state w asks less of a walk than looking at none.
LEMMA WalkLook ==
  ASSUME NEW L \in Nat, NEW v, NEW rts, NEW c, NEW w, Walk(L, v, rts, c, 0)
  PROVE  Walk(L, v, rts, c, w)
<1>1. PICK p \in [1 .. Len(rts) -> 1 .. L] :
        At(L, v, rts, p) /\ Safe(L, {p[a] : a \in 1 .. Len(rts)}, v, c, 0)
  BY DEF Walk
<1> DEFINE P == {p[a] : a \in 1 .. Len(rts)}
<1>2. P \in SUBSET (1 .. L)
  OBVIOUS
<1> HIDE DEF P
<1>3. Safe(L, P, v, c, w)
  BY <1>1, <1>2, SafeLook DEF P
<1>. QED
  BY <1>1, <1>3 DEF Walk, P

\* A state of the current class adds nothing to the walk.
LEMMA WalkLooked ==
  ASSUME NEW L \in Nat, NEW v, NEW rts, NEW c, NEW w, Walk(L, v, rts, c, w), c[w] = c[v[L]]
  PROVE  Walk(L, v, rts, c, 0)
<1>1. PICK p \in [1 .. Len(rts) -> 1 .. L] :
        At(L, v, rts, p) /\ Safe(L, {p[a] : a \in 1 .. Len(rts)}, v, c, w)
  BY DEF Walk
<1> DEFINE P == {p[a] : a \in 1 .. Len(rts)}
<1>2. P \in SUBSET (1 .. L)
  OBVIOUS
<1> HIDE DEF P
<1>3. Safe(L, P, v, c, 0)
  BY <1>1, <1>2, SafeLooked DEF P
<1>. QED
  BY <1>1, <1>3 DEF Walk, P

\* The state at i of the trail is in the class of a root from a position at or before it.
Covered(v, rts, c, i) ==
  \E a \in 1 .. Len(rts) : \E j \in 1 .. i : rts[a] = v[j] /\ c[rts[a]] = c[v[i]]

\* Every state of the trail is.
LEMMA WalkRoots ==
  ASSUME NEW L \in Nat, NEW v, NEW S, NEW rts \in Seq(S), NEW c, NEW w, Walk(L, v, rts, c, w),
         NEW i \in 1 .. L
  PROVE  rts # <<>> /\ Covered(v, rts, c, i)
<1>1. PICK p \in [1 .. Len(rts) -> 1 .. L] :
        At(L, v, rts, p) /\ Safe(L, {p[a] : a \in 1 .. Len(rts)}, v, c, w)
  BY DEF Walk
<1> DEFINE P == {p[a] : a \in 1 .. Len(rts)}
<1>2. P \in SUBSET (1 .. L)
  OBVIOUS
<1>3. PICK j \in P : j <= i /\ c[v[j]] = c[v[i]]
  <2> HIDE DEF P
  <2>1. Safe(L, P, v, c, w)
    BY <1>1 DEF P
  <2>. QED
    BY <1>2, <2>1, SafeRoots
<1>4. PICK a \in 1 .. Len(rts) : j = p[a]
  OBVIOUS
<1>5. j \in 1 .. i /\ rts[a] = v[j]
  BY <1>1, <1>3, <1>4 DEF At
<1>. QED
  BY <1>3, <1>5 DEF Covered

\* One of the roots is the first state of the trail.
LEMMA WalkFirst ==
  ASSUME NEW L \in Nat, L > 0, NEW v, NEW S, NEW rts \in Seq(S), NEW c, NEW w, Walk(L, v, rts, c, w)
  PROVE  rts # <<>> /\ v[1] \in {rts[a] : a \in 1 .. Len(rts)}
<1>1. PICK i \in 1 .. L : i = 1
  OBVIOUS
<1>2. rts # <<>> /\ Covered(v, rts, c, i)
  BY WalkRoots
<1>3. \A j \in 1 .. i : j = 1
  BY <1>1
<1>. QED
  BY <1>2, <1>3 DEF Covered

\* A trail of one state has one root.
LEMMA WalkAlone ==
  ASSUME NEW L \in Nat, L = 1, NEW v, NEW S, NEW rts \in Seq(S), NEW c, NEW w, Walk(L, v, rts, c, w)
  PROVE  Len(rts) = 1 /\ rts[1] = v[1]
<1>1. PICK p \in [1 .. Len(rts) -> 1 .. L] : At(L, v, rts, p)
  BY DEF Walk
<1>2. rts # <<>> /\ \E a \in 1 .. Len(rts) : rts[a] = v[1]
  <2>1. rts # <<>> /\ v[1] \in {rts[a] : a \in 1 .. Len(rts)}
    BY WalkFirst
  <2>. QED
    BY <2>1
<1> DEFINE n == Len(rts)
<1>3. n \in Nat /\ n # 0
  BY <1>2
<1>4. ~(n >= 2)
  <2>1. SUFFICES ASSUME n >= 2 PROVE FALSE
    OBVIOUS
  <2>2. p[1] < p[2] /\ p[1] = 1 /\ p[2] = 1
    BY <1>1, <1>3, <2>1 DEF At
  <2>. QED
    BY <2>2
<1>5. n = 1
  <2> HIDE DEF n
  <2>. QED
    BY <1>3, <1>4
<1>. QED
  BY <1>2, <1>5

\* The roots rts without the last one are those of the positions without the last.
Without(L, v, rts, n, p, q, P, t) ==
  /\ n \in Nat \ {0} /\ Len(Pop(rts)) = n - 1 /\ Top(rts) = v[t]
  /\ P \in SUBSET (1 .. L) /\ t \in P
  /\ \A y \in P : y \in Int /\ y <= t
  /\ At(L, v, Pop(rts), q)
  /\ {q[a] : a \in 1 .. n - 1} = P \ {t}
  /\ p \in [1 .. n -> 1 .. L] /\ q \in [1 .. n - 1 -> 1 .. L]

\* The top root is the value of the last rooted position, and the others stay
\* where they are.
LEMMA WalkPop ==
  ASSUME NEW L \in Nat, NEW v, NEW S, NEW rts \in Seq(S), rts # <<>>, NEW p, At(L, v, rts, p)
  PROVE  Without(L, v, rts, Len(rts), p, [a \in 1 .. Len(rts) - 1 |-> p[a]],
                 {p[a] : a \in 1 .. Len(rts)}, p[Len(rts)])
<1> DEFINE n == Len(rts)
           P == {p[a] : a \in 1 .. n}
           q == [a \in 1 .. n - 1 |-> p[a]]
           all == Pop(rts)
<1>1. n \in Nat /\ n # 0
  OBVIOUS
<1>2. Len(all) = n - 1 /\ \A a \in 1 .. n - 1 : all[a] = rts[a]
  <2> DEFINE k == n - 1
  <2>1. k \in Nat /\ \A i \in 1 .. k : rts[i] \in S
    BY <1>1
  <2>2. all = SubSeq(rts, 1, k)
    BY DEF Pop
  <2> HIDE DEF k, all
  <2>3. Len(all) = k /\ \A i \in 1 .. k : all[i] = rts[i]
    BY <2>1, <2>2, SubSeqProperties
  <2>. QED
    BY <2>3 DEF k
<1>3. n \in 1 .. n
  BY <1>1
<1>4. Top(rts) = v[p[n]] /\ p \in [1 .. n -> 1 .. L]
  BY <1>3 DEF Top, At
<1>5. P \in SUBSET (1 .. L) /\ p[n] \in P
  BY <1>3, <1>4
<1>6. \A a \in 1 .. n : a # n => p[a] < p[n]
  BY <1>1, <1>3 DEF At
<1>7. \A y \in P : y <= p[n]
  BY <1>4, <1>6
<1>8. At(L, v, all, q)
  <2>1. 1 .. n - 1 \subseteq 1 .. n
    BY <1>1
  <2>2. q \in [1 .. Len(all) -> 1 .. L] /\ \A a \in 1 .. n - 1 : q[a] = p[a]
    BY <1>2, <1>4, <2>1
  <2>3. \A a \in 1 .. n - 1 : all[a] = v[q[a]]
    BY <1>2, <2>1, <2>2 DEF At
  <2>4. \A a, b \in 1 .. n - 1 : a < b => q[a] < q[b]
    BY <2>1, <2>2 DEF At
  <2> HIDE DEF q, all, n
  <2>. QED
    BY <1>2, <2>2, <2>3, <2>4 DEF At
<1>9. {q[a] : a \in 1 .. n - 1} = P \ {p[n]}
  <2>1. \A a \in 1 .. n - 1 : q[a] = p[a] /\ a \in 1 .. n /\ p[a] \in P /\ p[a] # p[n]
    <3> TAKE a \in 1 .. n - 1
    <3>1. a \in 1 .. n /\ a # n
      BY <1>1
    <3>2. p[a] < p[n] /\ p[a] \in Int /\ p[n] \in Int
      BY <1>3, <1>4, <1>6, <3>1
    <3>. QED
      BY <3>1, <3>2
  <2>2. \A y \in P \ {p[n]} : \E a \in 1 .. n - 1 : y = q[a]
    <3> TAKE y \in P \ {p[n]}
    <3>1. PICK a \in 1 .. n : y = p[a]
      OBVIOUS
    <3>2. a # n
      BY <3>1
    <3>3. a \in 1 .. n - 1
      BY <1>1, <3>2
    <3>. QED
      BY <3>1, <3>3
  <2> HIDE DEF q
  <2>. QED
    BY <2>1, <2>2
<1>10. q \in [1 .. n - 1 -> 1 .. L]
  <2>1. 1 .. n - 1 \subseteq 1 .. n
    BY <1>1
  <2>. QED
    BY <1>4, <2>1
<1>11. \A y \in P : y \in Int
  BY <1>5
<1> DEFINE t == p[n]
<1>12. Top(rts) = v[t] /\ t \in P /\ (\A y \in P : y <= t) /\ {q[a] : a \in 1 .. n - 1} = P \ {t}
  BY <1>4, <1>5, <1>7, <1>9
<1>13. Without(L, v, rts, n, p, q, P, t)
  <2> HIDE DEF q, P, n, all, t
  <2>1. At(L, v, Pop(rts), q) /\ Len(Pop(rts)) = n - 1
    BY <1>2, <1>8 DEF all
  <2>. QED
    BY <1>1, <1>4, <1>5, <1>10, <1>11, <1>12, <2>1 DEF Without
<1>. QED
  BY <1>13

\* Backtracking, from a state that has a root of its own or is in the class of the state below.
LEMMA WalkBack ==
  ASSUME NEW L \in Nat, L > 1, NEW v, NEW S, NEW rts \in Seq(S), NEW c, Walk(L, v, rts, c, 0),
         (\E j \in 1 .. L - 1 : c[v[j]] = c[v[L]]) => c[v[L - 1]] = c[v[L]]
  PROVE  Walk(L - 1, v, IF Top(rts) = v[L] THEN Pop(rts) ELSE rts, c, 0)
<1>1. PICK p \in [1 .. Len(rts) -> 1 .. L] :
        At(L, v, rts, p) /\ Safe(L, {p[a] : a \in 1 .. Len(rts)}, v, c, 0)
  BY DEF Walk
<1>2. rts # <<>>
  <2>1. L \in 1 .. L
    OBVIOUS
  <2>. QED
    BY <2>1, WalkRoots
<1> DEFINE n == Len(rts)
           P == {p[a] : a \in 1 .. n}
           q == [a \in 1 .. n - 1 |-> p[a]]
           t == p[n]
<1>3. Without(L, v, rts, n, p, q, P, t)
  BY <1>1, <1>2, WalkPop
<1>4. Safe(L, P, v, c, 0)
  BY <1>1
<1> HIDE DEF n, q, t, P
<1>5. n \in Nat \ {0} /\ Len(Pop(rts)) = n - 1 /\ Top(rts) = v[t]
  BY <1>3 DEF Without
<1>6. P \in SUBSET (1 .. L) /\ t \in P /\ \A y \in P : y \in Int /\ y <= t
  BY <1>3 DEF Without
<1>7. At(L, v, Pop(rts), q) /\ {q[a] : a \in 1 .. n - 1} = P \ {t}
  BY <1>3 DEF Without
<1>8. q \in [1 .. n - 1 -> 1 .. L] /\ p \in [1 .. n -> 1 .. L]
  BY <1>3 DEF Without
<1>9. ASSUME NEW Q \in SUBSET P, L \notin Q
      PROVE  \A y \in Q : y \in 1 .. L - 1
  <2> TAKE y \in Q
  <2>1. y \in 1 .. L /\ y # L
    BY <1>6, <1>9
  <2>. QED
    BY <2>1
<1>10. ASSUME Safe(L - 1, P \ {t}, v, c, 0), L \notin P \ {t}
       PROVE  Walk(L - 1, v, Pop(rts), c, 0)
  <2>1. \A y \in P \ {t} : y \in 1 .. L - 1
    BY <1>9, <1>10
  <2>2. \A a \in 1 .. n - 1 : q[a] \in 1 .. L - 1
    BY <1>7, <2>1
  <2>3. q \in [1 .. Len(Pop(rts)) -> 1 .. L - 1]
    BY <1>5, <1>8, <2>2
  <2>4. At(L - 1, v, Pop(rts), q)
    BY <1>7, <2>3 DEF At
  <2>5. Safe(L - 1, {q[a] : a \in 1 .. Len(Pop(rts))}, v, c, 0)
    BY <1>5, <1>7, <1>10
  <2>. QED
    BY <2>3, <2>4, <2>5 DEF Walk
<1>11. CASE L \in P
  <2>1. L = t
    <3>1. t \in 1 .. L /\ L <= t
      BY <1>6, <1>11
    <3>. QED
      BY <3>1
  <2>2. Safe(L - 1, P \ {L}, v, c, 0)
    BY <1>4, <1>6, <1>11, SafeBackRoot
  <2>3. Walk(L - 1, v, Pop(rts), c, 0)
    BY <1>10, <2>1, <2>2
  <2>. QED
    BY <1>5, <2>1, <2>3
<1>12. CASE L \notin P
  <2>1. c[v[L - 1]] = c[v[L]]
    <3>1. PICK j \in P : j < L /\ c[v[j]] = c[v[L]]
      BY <1>4, <1>12 DEF Safe, Link
    <3>2. j \in 1 .. L - 1
      BY <1>6, <3>1
    <3>. QED
      BY <3>1, <3>2
  <2>2. CASE v[t] = v[L]
    <3>1. Safe(L - 1, P \ {t}, v, c, 0)
      <4>1. \A y \in P : y <= t
        BY <1>6
      <4>. QED
        BY <1>4, <1>6, <1>12, <2>1, <2>2, <4>1, SafeBackWrong
    <3>2. Walk(L - 1, v, Pop(rts), c, 0)
      BY <1>10, <1>12, <3>1
    <3>. QED
      BY <1>5, <2>2, <3>2
  <2>3. CASE v[t] # v[L]
    <3>1. Safe(L - 1, P, v, c, 0)
      BY <1>4, <1>6, <1>12, <2>1, SafeBackPlain
    <3>2. \A y \in P : y \in 1 .. L - 1
      BY <1>9, <1>12
    <3>3. \A a \in 1 .. n : p[a] \in 1 .. L - 1
      BY <3>2 DEF P
    <3>4. p \in [1 .. n -> 1 .. L - 1]
      BY <1>8, <3>3
    <3>5. At(L - 1, v, rts, p)
      BY <1>1, <3>4 DEF At, n
    <3>6. Walk(L - 1, v, rts, c, 0)
      BY <3>1, <3>4, <3>5 DEF Walk, P, n
    <3>. QED
      BY <1>5, <2>3, <3>6
  <2>. QED
    BY <2>2, <2>3
<1>. QED
  BY <1>11, <1>12

\* The last two roots are united: the last one is popped.
LEMMA WalkUnite ==
  ASSUME NEW L \in Nat, L > 0, NEW v, NEW S, NEW rts \in Seq(S), NEW c, NEW d, NEW w \in S, w # 0,
         Walk(L, v, rts, c, w), \A i \in 1 .. L : v[i] \in S, c[w] # c[v[L]],
         NEW k \in 1 .. Len(rts), c[rts[k]] = c[w],
         Joins(c, d, S, Top(rts), Top(Pop(rts)))
  PROVE  Len(rts) > 1 /\ Walk(L, v, Pop(rts), d, w)
<1>1. PICK p \in [1 .. Len(rts) -> 1 .. L] :
        At(L, v, rts, p) /\ Safe(L, {p[a] : a \in 1 .. Len(rts)}, v, c, w)
  BY DEF Walk
<1>2. rts # <<>>
  OBVIOUS
<1> DEFINE n == Len(rts)
           P == {p[a] : a \in 1 .. n}
           q == [a \in 1 .. n - 1 |-> p[a]]
           t == p[n]
           r == p[k]
<1>3. Without(L, v, rts, n, p, q, P, t)
  BY <1>1, <1>2, WalkPop
<1>4. Safe(L, P, v, c, w) /\ r \in P /\ c[v[r]] = c[w]
  BY <1>1 DEF At
<1> HIDE DEF r
<1> HIDE DEF n, q, t, P
<1>5. n \in Nat \ {0} /\ Len(Pop(rts)) = n - 1 /\ Top(rts) = v[t]
  BY <1>3 DEF Without
<1>6. P \in SUBSET (1 .. L) /\ t \in P /\ \A y \in P : y \in Int /\ y <= t
  BY <1>3 DEF Without
<1>7. At(L, v, Pop(rts), q) /\ {q[a] : a \in 1 .. n - 1} = P \ {t}
  BY <1>3 DEF Without
<1>8. q \in [1 .. n - 1 -> 1 .. L] /\ p \in [1 .. n -> 1 .. L]
  BY <1>3 DEF Without
<1>9. PICK s \in P \ {t} : Last(P \ {t}, s)
  <2>1. Last(P, t)
    BY <1>6 DEF Last
  <2>2. HasLast(P \ {t})
    BY <1>4, <1>6, <2>1, SafeTwoRoots
  <2>. QED
    BY <2>2 DEF HasLast
<1>10. s \in P \ {t} /\ s \in Int /\ \A y \in P \ {t} : y \in Int /\ y <= s
  BY <1>6, <1>9 DEF Last
<1>11. PICK a \in 1 .. n - 1 : s = q[a]
  BY <1>7, <1>10
<1>12. n > 1 /\ n - 1 \in 1 .. n - 1
  BY <1>5, <1>11
<1>13. Top(Pop(rts)) = v[s]
  <2> DEFINE all == Pop(rts)
             m == n - 1
  <2>1. Len(all) = m /\ m \in 1 .. m /\ a \in 1 .. m /\ m \in Nat
    BY <1>5, <1>12
  <2>2. At(L, v, all, q)
    BY <1>7
  <2>3. q[m] \in P \ {t}
    BY <1>7, <2>1
  <2> HIDE DEF all, m
  <2>4. all[m] = v[q[m]] /\ (a < m => q[a] < q[m])
    BY <2>1, <2>2 DEF At
  <2>5. q[m] <= s /\ q[m] \in Int
    BY <1>10, <2>3
  <2>6. a = m \/ a < m
    BY <2>1
  <2>7. q[m] = s
    BY <1>10, <1>11, <2>4, <2>5, <2>6
  <2>8. all # <<>>
    BY <2>1
  <2>9. Top(all) = all[m]
    BY <2>1, <2>8 DEF Top
  <2>. QED
    BY <2>4, <2>7, <2>9 DEF all
<1>14. Safe(L, P \ {t}, v, d, w)
  <2>1. Joins(c, d, S, v[t], v[s])
    BY <1>5, <1>13
  <2>2. Last(P, t)
    BY <1>6 DEF Last
  <2>. QED
    BY <1>4, <1>6, <1>9, <2>1, <2>2, SafeUnite
<1>15. q \in [1 .. Len(Pop(rts)) -> 1 .. L] /\ Safe(L, {q[b] : b \in 1 .. Len(Pop(rts))}, v, d, w)
  BY <1>5, <1>7, <1>8, <1>14
<1>16. Walk(L, v, Pop(rts), d, w)
  BY <1>7, <1>15 DEF Walk
<1>. QED
  BY <1>12, <1>16 DEF n

-----------------------------------------------------------------------------
(* The components of the graph, and what the sets say of them *)

Succ(n)       == Successors[G][n]
Reaches(m, n) == n \in Reach(Successors[G], m)
Mutual(m, n)  == Reaches(m, n) /\ Reaches(n, m)

\* The set of n is a completed component; the edge from m to n needs no more work.
Dead(n)        == uf[Root[n]].uf_status = DEAD
EdgeDone(m, n) == Root[m] = Root[n] \/ Dead(n)

Sound      == \A m, n \in Node : Root[m] = Root[n] => Mutual(m, n)
Whole      == \A m, n \in Node : Dead(m) /\ Mutual(m, n) => Root[n] = Root[m]
DeadClosed == \A m \in Node : Dead(m) => \A n \in Succ(m) : Dead(n)
TombClosed == \A m \in Node : Explored(m) => \A n \in Succ(m) : EdgeDone(m, n)
SetsRight  == uf[0] = uf_node /\ Sound /\ Whole /\ DeadClosed /\ TombClosed

-----------------------------------------------------------------------------
(* What worker t has done *)

\* In scc_ufscc_recurse; in its edge loop; with an edge at hand
Searching == {"enter", "entered", "explore", "edge", "claimed", "found", "united", "backtrack", "is_dead"}
AtEdge    == {"edge", "claimed", "found", "united", "is_dead"}
AtSucc    == {"claimed", "found", "united"}

\* The states v of the recursion, outermost first
Depth(t) == Len(tls[t].rec) + 1
Trail(t) == [i \in 1 .. Depth(t) |-> IF i < Depth(t) THEN tls[t].rec[i].v ELSE tls[t].v]

EdgesTried(t, m, k) ==
  /\ m \in Node /\ k <= Len(G[m])
  /\ \A j \in 0 .. k - 1 : EdgeDone(m, Successor(t, m, j))

\* A frame of the recursion, whose current edge leads to n
FrameRight(t, f, n) ==
  /\ f.v \in Node /\ Root[f.v_p] = Root[f.v]
  /\ EdgesTried(t, f.v_p, f.k) /\ f.k < Len(G[f.v_p]) /\ n = Successor(t, f.v_p, f.k)
Frames(t) == \A i \in 1 .. Len(tls[t].rec) : FrameRight(t, tls[t].rec[i], Trail(t)[i + 1])

\* The sets with those of a and b as one: what they will be when a unite is done
JoinClass(c, a, b) == [n \in Slot |-> IF c[n] = c[a] THEN c[b] ELSE c[n]]
Uniting(t) == Home(t) = "united" /\ pc[t] # "united"
Class(t)   == IF Uniting(t) THEN JoinClass(Root, loc[t].unite.a, loc[t].unite.b) ELSE Root
Looked(t)  == IF Home(t) \in {"found", "united"} THEN tls[t].w ELSE 0
OnRoots(c, rts, n) == \E a \in 1 .. Len(rts) : c[rts[a]] = c[n]

\* At least d states, other than those of X, have the bit of t.
Marked(t, d, X) == \E S \in SUBSET (Node \ X) : d <= Cardinality(S) /\ \A m \in S : w_id(t) \subseteq uf[m].workers

OnTrail(t) ==
  LET me == tls[t]
  IN  /\ me.v \in Node /\ Frames(t)
      /\ Walk(Depth(t), Trail(t), me.roots, Class(t), Looked(t))
      /\ Home(t) \in AtEdge => Root[me.v_p] = Root[me.v] /\ EdgesTried(t, me.v_p, me.k)
      /\ Home(t) \in AtSucc \cup {"is_dead"} => me.k < Len(G[me.v_p])
      /\ Home(t) \in AtSucc => me.w = Successor(t, me.v_p, me.k)
      /\ Home(t) = "is_dead" => EdgeDone(me.v_p, Successor(t, me.v_p, me.k))
      /\ Home(t) \in {"found", "united"} => OnRoots(Class(t), me.roots, me.w)
      /\ Home(t) = "backtrack" => Dead(me.v) \/ (me.rec # <<>> /\ Root[me.rec[Len(me.rec)].v] = Root[me.v])
      /\ Marked(t, Depth(t), {}) \/ (Home(t) \notin AtEdge /\ me.rec = <<>> /\ Dead(me.v))

Stands(t) == /\ tls[t].i > 0
             /\ IF Home(t) \in Searching THEN OnTrail(t)
                ELSE /\ tls[t].roots = <<>> /\ tls[t].rec = <<>>
                     /\ Home(t) = "start" => tls[t].v \in Node
                     /\ Home(t) = "collected" => tls[t].i \in Node

\* The call of make_claim
ClaimHomes == {"start", "claimed"}
Target(t) == IF Home(t) = "start" THEN tls[t].v ELSE tls[t].w
Pushes(t) == IF Home(t) = "start" THEN 0 ELSE Depth(t)
Visited(t, n) == \E m \in Node : Root[m] = Root[n] /\ w_id(t) \subseteq uf[m].workers
Sees(t) == Visited(t, Target(t)) => OnRoots(Root, tls[t].roots, Target(t))
ClaimCodes == {"CLAIM_DEAD", "CLAIM_FIRST", "CLAIM_SUCCESS", "CLAIM_FOUND"}
Claims == {"CLAIM_FIRST", "CLAIM_SUCCESS"}

ClaimKnown(t) ==
  LET n == Target(t)
      f == ret[t].node
  IN  /\ n \in Node
      /\ \/ /\ pc[t] = Home(t) /\ ret[t].code \in ClaimCodes
            /\ ret[t].code = "CLAIM_DEAD" => Dead(n)
            /\ ret[t].code = "CLAIM_FOUND" => OnRoots(Root, tls[t].roots, n)
            /\ ret[t].code \in Claims => Marked(t, Pushes(t) + 1, {})
         \/ /\ pc[t] \in FindLabels /\ Awaits(t, "claim_dead") /\ Root[path[t][1]] = Root[n]
            /\ pc[t] = "compress" => Sees(t) \/ uf[f].uf_status = DEAD
         \/ pc[t] = "claim_dead" /\ Root[f] = Root[n] /\ (Sees(t) \/ uf[f].uf_status = DEAD)
         \/ pc[t] = "claim_found" /\ Root[f] = Root[n] /\ Sees(t)
         \/ pc[t] = "claim_or" /\ Root[f] = Root[n] /\ Marked(t, Pushes(t), {f})
         \/ pc[t] \in {"claim_check", "claim_again"} /\ Root[f] = Root[n] /\ Marked(t, Pushes(t) + 1, {})
         \/ /\ pc[t] \in FindLabels /\ Awaits(t, "claim_again") /\ Root[path[t][1]] = Root[n]
            /\ Marked(t, Pushes(t) + 1, {})

Claiming(t) ==
  /\ Home(t) \in ClaimHomes
  /\ \/ pc[t] \in {"claim_check", "claim_again"} \/ Awaits(t, "claim_again")
     \/ pc[t] = Home(t) /\ ret[t].code \in Claims

\* The sets that t has visited have a root on its stack, until they are completed.
BitsHome(t) ==
  \A n \in Node : Visited(t, n) =>
    \/ Dead(n) \/ OnRoots(Class(t), tls[t].roots, n)
    \/ Claiming(t) /\ Root[n] = Root[Target(t)]

\* The calls of sameset
SameHomes == {"entered", "found"}
SameRuns(t) ==
  \/ pc[t] = Home(t) /\ ret[t].code \in Verdicts
  \/ pc[t] \in SameLabels /\ (pc[t] = "same_a" => loc[t].same.a # loc[t].same.b)
  \/ pc[t] \in FindLabels /\ (Awaits(t, "same_b") \/ Awaits(t, "same_retry"))

\* sameset has seen w and v in two sets, and may answer so when they are in one.
Differs(t) ==
  LET s == loc[t].same
      f == ret[t].node
  IN  /\ Home(t) = "found"
      /\ \/ pc[t] = "compress" /\ Awaits(t, "same_b") /\ f < s.a
         \/ pc[t] = "same_b" /\ f < s.a
         \/ pc[t] = "same_a" /\ s.b < s.a
         \/ pc[t] = "found" /\ ret[t].code = "different"

\* It has two roots then, and may unite them.
TwoRoots(t, r) ==
  LET x == Top(Pop(r))
      y == Top(r)
      d == JoinClass(Root, x, y)
  IN  /\ Len(r) > 1 /\ Mutual(x, y)
      /\ Walk(Depth(t), Trail(t), Pop(r), d, tls[t].w) /\ OnRoots(d, Pop(r), tls[t].w)

\* The other calls
PickKnown(t) ==
  \/ /\ pc[t] = "explore"
     /\ \/ /\ ret[t].code = "PICK_SUCCESS" /\ ret[t].node \in Node /\ Root[ret[t].node] = Root[tls[t].v]
           /\ Marked(t, Depth(t), {})
        \/ ret[t].code \in {"PICK_DEAD", "PICK_MARK_DEAD"} /\ Dead(tls[t].v)
  \/ Picking(t) /\ (\A l \in ListLabels : ~Awaits(t, l)) /\ Root[loc[t].pick.a] = Root[tls[t].v]

RemoveKnown(t) ==
  \/ pc[t] = "enter"
  \/ /\ pc[t] \in {"remove", "remove_color"} /\ loc[t].pick.a \in Node
     /\ \A n \in Succ(loc[t].pick.a) : EdgeDone(loc[t].pick.a, n)

AddingLabels == {"compare_rw", "add_qw", "check_r", "found_r"}
Adding(t) == pc[t] \in AddingLabels \/ Awaits(t, "found_r")

UniteKnown(t) ==
  LET u == loc[t].unite
  IN  \/ pc[t] = "united"
      \/ /\ Busy(t) /\ u.a \in Node /\ u.b \in Node /\ Mutual(u.a, u.b)
         /\ pc[t] \in ListLabels => ret[t].code = "PICK_SUCCESS"
         /\ Adding(t) => u.qw \subseteq uf[u.q].workers
         /\ Adding(t) /\ pc[t] # "compare_rw" => Root[u.up] = Root[u.q]

FindKnown(t, n) ==
  \/ pc[t] = Home(t) /\ Root[ret[t].node] = Root[n]
  \/ pc[t] \in FindLabels /\ (\A l : ~Awaits(t, l)) /\ Root[path[t][1]] = Root[n]

Calls(t) ==
  /\ Home(t) \in ClaimHomes => ClaimKnown(t)
  /\ Home(t) \in SameHomes => SameRuns(t)
  /\ Differs(t) => TwoRoots(t, tls[t].roots)
  /\ Home(t) = "explore" => PickKnown(t)
  /\ Home(t) = "enter" => RemoveKnown(t)
  /\ Home(t) = "united" => UniteKnown(t)
  /\ Home(t) = "is_dead" => FindKnown(t, tls[t].v)
  /\ Home(t) = "collected" => FindKnown(t, tls[t].i)
  /\ Home(t) \in {"next", "edge", "backtrack", "join", "done", "collect", "end"} => pc[t] = Home(t)

SearchInv == SetsRight /\ \A t \in Worker : Stands(t) /\ BitsHome(t) /\ Calls(t)

-----------------------------------------------------------------------------
(* The edges of the graph *)

\* The successors of a node are the entries of its row of the graph, and nodes.
LEMMA SuccTyped ==
  ASSUME OwnTyped, NEW n \in Node
  PROVE  /\ G[n] \in Seq(Node) /\ Succ(n) = {G[n][i] : i \in 1 .. Len(G[n])}
         /\ Succ(n) \subseteq Node
<1>1. n \in Slot
  BY DEF Node, Slot
<1>2. G[n] \in Seq(Node)
  BY <1>1, GraphsAssumption DEF OwnTyped
<1>3. Succ(n) = Range(G[n])
  BY DEF Succ, Successors, OwnTyped
<1>4. Range(G[n]) = {G[n][i] : i \in 1 .. Len(G[n])}
  BY <1>2 DEF Range
<1>. QED
  BY <1>2, <1>3, <1>4

\* The edge that the loop over the edges reads leads to a successor.
LEMMA EdgeOf ==
  ASSUME OwnTyped, NEW t \in Worker, NEW n \in Node, NEW k \in Nat, k < Len(G[n])
  PROVE  Successor(t, n, k) \in Succ(n) /\ Successor(t, n, k) \in Node
<1>1. /\ G[n] \in Seq(Node) /\ Succ(n) = {G[n][i] : i \in 1 .. Len(G[n])}
      /\ Succ(n) \subseteq Node
  BY SuccTyped
<1> DEFINE len == Len(G[n])
<1>2. t \in Nat /\ len \in Nat /\ len > 0 /\ k + t \in Nat
  BY <1>1, UFConstants DEF Worker
<1> HIDE DEF len
<1>3. 1 + ((k + t) % len) \in 1 .. len
  BY <1>2, RemainderBounds
<1>. QED
  BY <1>1, <1>3 DEF Successor, len

\* A remainder from a division.
LEMMA RemainderIs ==
  ASSUME NEW a \in Nat, NEW b \in Nat, b > 0, NEW q \in Nat, NEW x \in 0 .. b - 1, a = b * q + x
  PROVE  a % b = x
<1> DEFINE d == a \div b
           m == a % b
<1>1. d \in Int /\ m \in 0 .. b - 1 /\ a = b * d + m
  OBVIOUS
<1> HIDE DEF d, m
<1>2. \A i \in Int : i >= 1 => b * i >= b
  OBVIOUS
<1>3. b * (q - d) = m - x /\ b * (d - q) = x - m
  BY <1>1
<1>4. ~(q - d >= 1) /\ ~(d - q >= 1)
  BY <1>1, <1>2, <1>3
<1>5. q = d
  BY <1>1, <1>4
<1>. QED
  BY <1>1, <1>5 DEF m

\* The rotated edges are all edges.
LEMMA AllEdges ==
  ASSUME OwnTyped, NEW t \in Worker, NEW m \in Node, EdgesTried(t, m, Len(G[m])), NEW n \in Succ(m)
  PROVE  EdgeDone(m, n)
<1>1. G[m] \in Seq(Node) /\ Succ(m) = {G[m][i] : i \in 1 .. Len(G[m])}
  BY SuccTyped
<1> DEFINE len == Len(G[m])
<1>2. PICK i \in 1 .. len : n = G[m][i]
  BY <1>1
<1>3. t \in Nat /\ len \in Nat /\ len > 0
  BY <1>1, <1>2, UFConstants DEF Worker
<1> HIDE DEF len
<1>4. PICK q \in Nat, r \in 0 .. len - 1 : t = len * q + r
  <2>1. t \div len \in Nat /\ t % len \in 0 .. len - 1 /\ t = len * (t \div len) + (t % len)
    BY <1>3
  <2>. QED
    BY <2>1
<1>5. \E j \in 0 .. len - 1 : (j + t) % len = i - 1
  <2>1. CASE i - 1 >= r
    <3>1. (i - 1 - r) + t = len * q + (i - 1) /\ i - 1 - r \in 0 .. len - 1 /\ i - 1 \in 0 .. len - 1
      BY <1>2, <1>3, <1>4, <2>1
    <3>2. ((i - 1 - r) + t) % len = i - 1
      <4>1. PICK a \in Nat, x \in 0 .. len - 1 : a = (i - 1 - r) + t /\ x = i - 1
        BY <1>3, <3>1
      <4>. QED
        BY <1>3, <3>1, <4>1, RemainderIs
    <3>. QED
      BY <3>1, <3>2
  <2>2. CASE i - 1 < r
    <3>1. /\ (i - 1 - r + len) + t = len * (q + 1) + (i - 1)
          /\ i - 1 - r + len \in 0 .. len - 1 /\ i - 1 \in 0 .. len - 1
      BY <1>2, <1>3, <1>4, <2>2
    <3>2. ((i - 1 - r + len) + t) % len = i - 1
      <4>1. PICK a \in Nat, x \in 0 .. len - 1, p \in Nat : a = (i - 1 - r + len) + t /\ x = i - 1 /\ p = q + 1
        BY <1>3, <3>1
      <4>. QED
        BY <1>3, <3>1, <4>1, RemainderIs
    <3>. QED
      BY <3>1, <3>2
  <2>. QED
    BY <1>2, <1>4, <2>1, <2>2
<1>6. PICK j \in 0 .. len - 1 : (j + t) % len = i - 1
  BY <1>5
<1>7. Successor(t, m, j) = G[m][i]
  BY <1>2, <1>6 DEF Successor, len
<1>. QED
  BY <1>2, <1>6, <1>7 DEF EdgesTried, len

\* Every node reaches itself.
LEMMA ReachSelf == ASSUME NEW n \in Node PROVE Reaches(n, n)
BY DEF Reaches, Reach

\* An edge is a path.
LEMMA ReachEdge ==
  ASSUME OwnTyped, NEW m \in Node, NEW n \in Succ(m)
  PROVE  Reaches(m, n)
BY SuccTyped DEF Reaches, Reach, Succ

\* Paths compose.
LEMMA ReachOn ==
  ASSUME NEW k \in Node, NEW m, NEW n, Reaches(k, m), Reaches(m, n)
  PROVE  Reaches(k, n)
BY DEF Reaches, Reach

\* Edges that lead nowhere else
LEMMA ReachInside ==
  ASSUME NEW S \in SUBSET Node, \A x \in S : Succ(x) \subseteq S, NEW m \in S, NEW n, Reaches(m, n)
  PROVE  n \in S
BY DEF Reaches, Reach, Succ

\* To be on a cycle together is transitive.
LEMMA MutualOn ==
  ASSUME NEW k \in Node, NEW m \in Node, NEW n \in Node, Mutual(k, m), Mutual(m, n)
  PROVE  Mutual(k, n) /\ Mutual(m, k)
BY ReachOn DEF Mutual

-----------------------------------------------------------------------------
(* What every step leaves of the knowledge of a worker *)

\* Sets grow, completed ones no more, and bits stay.
Grows ==
  /\ Coarser /\ G' = G
  /\ \A n \in Node : Dead(n) => Dead(n)'
  /\ \A n \in Node : uf[n].uf_status = DEAD => uf'[n].uf_status = DEAD
  /\ \A n \in Slot : uf[n].workers \subseteq uf'[n].workers
  /\ \A m, n \in Node : Root'[m] = Root'[n] => Root[m] = Root[n] \/ (~Dead(m) /\ ~Dead(n))

\* The sets that t has visited have been visited before, in parts.
VisitsFrom(t) == \A n \in Node : Visited(t, n)' => \E m \in Node : Root'[m] = Root'[n] /\ Visited(t, m)

\* The sets as t counts them grow.
Wider(t) == \A x, y \in Slot : Class(t)[x] = Class(t)[y] => (Class(t)[x] = Class(t)[y])'

\* JoinClass unites the classes of a and b and no others.
LEMMA JoinIs ==
  ASSUME NEW c, NEW a \in Slot, NEW b \in Slot
  PROVE  Joins(c, JoinClass(c, a, b), Slot, a, b)
BY DEF Joins, JoinClass

\* States of one set are in one class, whatever a worker is about to unite.
LEMMA ClassOnRoot ==
  ASSUME NEW t \in Worker, NEW x \in Slot, NEW y \in Slot, Root[x] = Root[y]
  PROVE  Class(t)[x] = Class(t)[y]
<1>1. CASE Uniting(t)
  BY <1>1 DEF Class, JoinClass
<1>2. CASE ~Uniting(t)
  BY <1>2 DEF Class
<1>. QED
  BY <1>1, <1>2

\* The same after a step.
LEMMA ClassOnRootNext ==
  ASSUME NEW t \in Worker, NEW x \in Slot, NEW y \in Slot, Root'[x] = Root'[y]
  PROVE  (Class(t)[x] = Class(t)[y])'
<1>1. CASE Uniting(t)'
  BY <1>1 DEF Class, JoinClass
<1>2. CASE ~Uniting(t)'
  BY <1>2 DEF Class
<1>. QED
  BY <1>1, <1>2

\* Unions by others do not separate what a union in progress puts together.
LEMMA JoinCoarser ==
  ASSUME Coarser, NEW a \in Slot, NEW b \in Slot, NEW x \in Slot, NEW y \in Slot,
         JoinClass(Root, a, b)[x] = JoinClass(Root, a, b)[y]
  PROVE  JoinClass(Root', a, b)[x] = JoinClass(Root', a, b)[y]
<1>1. Root[x] = Root[y] \/ (Root[x] \in {Root[a], Root[b]} /\ Root[y] \in {Root[a], Root[b]})
  BY DEF JoinClass
<1>2. Root'[x] = Root'[y] \/ (Root'[x] \in {Root'[a], Root'[b]} /\ Root'[y] \in {Root'[a], Root'[b]})
  BY <1>1 DEF Coarser
<1>. QED
  BY <1>2 DEF JoinClass

\* As long as t stays in unite or outside of it.
LEMMA WiderBeside ==
  ASSUME LocTyped, NEW t \in Worker, Coarser, Uniting(t)' <=> Uniting(t),
         loc'[t].unite.a = loc[t].unite.a, loc'[t].unite.b = loc[t].unite.b
  PROVE  Wider(t)
<1> DEFINE a == loc[t].unite.a
           b == loc[t].unite.b
<1>1. a \in Slot /\ b \in Slot
  BY LocalsTyped
<1>2. CASE Uniting(t)
  <2>1. Class(t) = JoinClass(Root, a, b)
    BY <1>2 DEF Class
  <2>2. Class(t)' = JoinClass(Root', a, b)
    BY <1>2 DEF Class
  <2> HIDE DEF a, b
  <2>. QED
    BY <1>1, <2>1, <2>2, JoinCoarser DEF Wider
<1>3. CASE ~Uniting(t)
  BY <1>3 DEF Class, Wider, Coarser
<1>. QED
  BY <1>2, <1>3

\* An edge that needs no more work never does again.
LEMMA EdgeGrows ==
  ASSUME Grows, NEW m \in Node, NEW n \in Node, EdgeDone(m, n)
  PROVE  EdgeDone(m, n)'
<1>1. m \in Slot /\ n \in Slot
  BY DEF Node, Slot
<1>2. CASE Root[m] = Root[n]
  BY <1>1, <1>2 DEF Grows, Coarser, EdgeDone
<1>3. CASE Dead(n)
  BY <1>3 DEF Grows, EdgeDone
<1>. QED
  BY <1>2, <1>3 DEF EdgeDone

\* Nor do the edges that a loop has passed.
LEMMA TriedGrows ==
  ASSUME OwnTyped, Grows, NEW t \in Worker, NEW m, NEW k \in Nat, EdgesTried(t, m, k)
  PROVE  EdgesTried(t, m, k)'
<1>1. m \in Node /\ k <= Len(G[m]) /\ G' = G
  BY DEF EdgesTried, Grows
<1>2. Len(G[m]) \in Nat
  BY <1>1, SuccTyped
<1>3. ASSUME NEW j \in 0 .. k - 1 PROVE EdgeDone(m, Successor(t, m, j))'
  <2>1. j \in Nat /\ j < Len(G[m])
    BY <1>1, <1>2
  <2>2. PICK n \in Node : n = Successor(t, m, j)
    BY <1>1, <2>1, EdgeOf
  <2>3. EdgeDone(m, n)
    BY <2>2 DEF EdgesTried
  <2>4. EdgeDone(m, n)'
    BY <1>1, <2>3, EdgeGrows
  <2>5. Successor(t, m, j)' = n
    BY <1>1, <2>2 DEF Successor
  <2>. QED
    BY <2>4, <2>5
<1>. QED
  BY <1>1, <1>3 DEF EdgesTried

\* A saved frame stays right while sets grow.
LEMMA FrameGrows ==
  ASSUME OwnTyped, Grows, NEW t \in Worker, NEW f \in Frame, NEW n, FrameRight(t, f, n)
  PROVE  FrameRight(t, f, n)'
<1>1. f.v \in Slot /\ f.v_p \in Slot /\ f.k \in Nat /\ G' = G
  BY DEF Frame, Grows
<1>2. Root'[f.v_p] = Root'[f.v]
  BY <1>1 DEF Grows, Coarser, FrameRight
<1>3. EdgesTried(t, f.v_p, f.k)'
  <2>1. PICK m \in Slot, k \in Nat : m = f.v_p /\ k = f.k
    BY <1>1
  <2>2. EdgesTried(t, m, k)
    BY <2>1 DEF FrameRight
  <2>3. EdgesTried(t, m, k)'
    BY <2>2, TriedGrows
  <2>. QED
    BY <2>1, <2>3
<1>4. Successor(t, f.v_p, f.k)' = Successor(t, f.v_p, f.k)
  BY <1>1 DEF Successor
<1>. QED
  BY <1>1, <1>2, <1>3, <1>4 DEF FrameRight

\* A worker's bits are never lost.
LEMMA MarkedGrows ==
  ASSUME Grows, NEW t \in Worker, NEW d, NEW X, Marked(t, d, X)
  PROVE  Marked(t, d, X)'
<1>1. PICK S \in SUBSET (Node \ X) : d <= Cardinality(S) /\ \A m \in S : w_id(t) \subseteq uf[m].workers
  BY DEF Marked
<1>2. \A m \in S : w_id(t) \subseteq uf'[m].workers
  BY <1>1 DEF Grows, Node, Slot
<1>. QED
  BY <1>1, <1>2 DEF Marked, w_id

\* A state in the set of a root stays there, and so do the states of its set.
LEMMA OnRootsGrow ==
  ASSUME NEW c, NEW d, NEW rts \in Seq(Slot), NEW n \in Slot, NEW m \in Slot,
         \A x, y \in Slot : c[x] = c[y] => d[x] = d[y], d[m] = d[n], OnRoots(c, rts, n)
  PROVE  OnRoots(d, rts, m)
BY DEF OnRoots

\* The trail: the states of the saved frames and the current one.
LEMMA TrailTyped ==
  ASSUME OwnTyped, NEW t \in Worker
  PROVE  /\ Depth(t) \in Nat \ {0} /\ Len(tls[t].rec) \in Nat
         /\ Depth(t) = Len(tls[t].rec) + 1
         /\ Trail(t)[Depth(t)] = tls[t].v
         /\ \A i \in 1 .. Len(tls[t].rec) : Trail(t)[i] = tls[t].rec[i].v /\ tls[t].rec[i] \in Frame
         /\ \A i \in 1 .. Depth(t) : Trail(t)[i] \in Slot
<1>1. tls[t].rec \in Seq(Frame) /\ tls[t].v \in Slot
  BY TlsTyped
<1>2. Len(tls[t].rec) \in Nat /\ Depth(t) \in Nat \ {0} /\ Depth(t) = Len(tls[t].rec) + 1
  BY <1>1 DEF Depth
<1>3. \A i \in 1 .. Len(tls[t].rec) : tls[t].rec[i] \in Frame /\ tls[t].rec[i].v \in Slot
  <2>1. \A f \in Frame : f.v \in Slot
    BY DEF Frame
  <2>2. \A i \in 1 .. Len(tls[t].rec) : tls[t].rec[i] \in Frame
    BY <1>1
  <2>. QED
    BY <2>1, <2>2
<1>4. \A i \in 1 .. Len(tls[t].rec) : i \in 1 .. Depth(t) /\ i < Depth(t)
  BY <1>2
<1>5. Trail(t)[Depth(t)] = tls[t].v
  BY <1>2 DEF Trail
<1>6. \A i \in 1 .. Len(tls[t].rec) : Trail(t)[i] = tls[t].rec[i].v
  BY <1>4 DEF Trail
<1>7. \A i \in 1 .. Depth(t) : i = Depth(t) \/ i \in 1 .. Len(tls[t].rec)
  BY <1>2
<1>. QED
  BY <1>1, <1>2, <1>3, <1>5, <1>6, <1>7

\* Without a step of its own the trail of a worker does not change.
LEMMA TrailSame ==
  ASSUME NEW t \in Worker, tls'[t] = tls[t]
  PROVE  Depth(t)' = Depth(t) /\ Trail(t)' = Trail(t)
BY DEF Depth, Trail

\* WalkCoarser for the trail of a worker.
LEMMA WalkWider ==
  ASSUME OwnTyped, NEW t \in Worker, NEW rts, NEW c, NEW d, NEW w, w = 0 \/ w \in Slot,
         \A x, y \in Slot : c[x] = c[y] => d[x] = d[y],
         Walk(Depth(t), Trail(t), rts, c, w)
  PROVE  Walk(Depth(t), Trail(t), rts, d, w)
<1> DEFINE L == Depth(t)
           v == Trail(t)
           S == Slot
<1>1. L \in Nat /\ \A i \in 1 .. L : v[i] \in S
  BY TrailTyped
<1>2. Walk(L, v, rts, c, w) /\ (w = 0 \/ w \in S) /\ \A x, y \in S : c[x] = c[y] => d[x] = d[y]
  OBVIOUS
<1> HIDE DEF L, v, S
<1>3. Walk(L, v, rts, d, w)
  BY <1>1, <1>2, WalkCoarser
<1>. QED
  BY <1>3 DEF L, v

\* The frames of a worker stay right while others step.
LEMMA FramesGrow ==
  ASSUME OwnTyped, Grows, NEW t \in Worker, tls'[t] = tls[t], Frames(t)
  PROVE  Frames(t)'
<1> DEFINE rec == tls[t].rec
           v == Trail(t)
<1>1. Trail(t)' = v /\ Depth(t)' = Depth(t) /\ tls'[t].rec = rec
  BY TrailSame
<1>2. \A i \in 1 .. Len(rec) : rec[i] \in Frame
  BY TrailTyped
<1>3. \A i \in 1 .. Len(rec) : FrameRight(t, rec[i], v[i + 1])
  BY DEF Frames
<1>4. ASSUME NEW i \in 1 .. Len(rec) PROVE FrameRight(t, tls[t].rec[i], Trail(t)[i + 1])'
  <2>1. PICK f \in Frame, n \in {v[i + 1]} : f = rec[i] /\ n = v[i + 1]
    BY <1>2
  <2>2. FrameRight(t, f, n)
    BY <1>3, <2>1
  <2>3. FrameRight(t, f, n)'
    BY <2>2, FrameGrows
  <2>. QED
    BY <1>1, <2>1, <2>3
<1>. QED
  BY <1>1, <1>4 DEF Frames

\* Where a worker stands in its search stays right while others step.
LEMMA StandsGrow ==
  ASSUME OwnTyped, Grows, NEW t \in Worker, tls'[t] = tls[t], Home(t)' = Home(t), Wider(t), Stands(t)
  PROVE  Stands(t)'
<1>1. CASE Home(t) \notin Searching
  BY <1>1 DEF Stands
<1>2. CASE Home(t) \in Searching
  <2> DEFINE me == tls[t]
  <2>1. OnTrail(t) /\ me.i > 0
    BY <1>2 DEF Stands
  <2>2. /\ me.v \in Slot /\ me.v_p \in Slot /\ me.w \in Slot /\ me.k \in Nat /\ me.roots \in Seq(Slot)
        /\ me.rec \in Seq(Frame)
    BY TlsTyped
  <2>3. Depth(t)' = Depth(t) /\ Trail(t)' = Trail(t)
    BY TrailSame
  <2>4. Frames(t)'
    BY <2>1, FramesGrow DEF OnTrail
  <2>5. Walk(Depth(t), Trail(t), me.roots, Class(t), Looked(t))'
    <3>1. PICK c, d, w, rts : c = Class(t) /\ d = Class(t)' /\ w = Looked(t) /\ rts = me.roots
      OBVIOUS
    <3>2. w = 0 \/ w \in Slot
      BY <2>2, <3>1 DEF Looked
    <3>3. \A x, y \in Slot : c[x] = c[y] => d[x] = d[y]
      BY <3>1 DEF Wider
    <3>4. Walk(Depth(t), Trail(t), rts, c, w)
      BY <2>1, <3>1 DEF OnTrail
    <3>5. Walk(Depth(t), Trail(t), rts, d, w)
      BY <3>2, <3>3, <3>4, WalkWider
    <3>6. Looked(t)' = w /\ tls'[t].roots = rts
      BY <3>1 DEF Looked
    <3>. QED
      BY <2>3, <3>1, <3>5, <3>6
  <2>6. Home(t) \in AtEdge => Root'[me.v_p] = Root'[me.v] /\ EdgesTried(t, me.v_p, me.k)'
    <3> SUFFICES ASSUME Home(t) \in AtEdge PROVE Root'[me.v_p] = Root'[me.v] /\ EdgesTried(t, me.v_p, me.k)'
      OBVIOUS
    <3>1. Root[me.v_p] = Root[me.v] /\ EdgesTried(t, me.v_p, me.k)
      BY <2>1 DEF OnTrail
    <3>2. Root'[me.v_p] = Root'[me.v]
      BY <2>2, <3>1 DEF Grows, Coarser
    <3>3. PICK m \in Slot, k \in Nat : m = me.v_p /\ k = me.k
      BY <2>2
    <3>4. EdgesTried(t, m, k)'
      BY <3>1, <3>3, TriedGrows
    <3>. QED
      BY <3>2, <3>3, <3>4
  <2>7. G' = G
    BY DEF Grows
  <2>8. Home(t) \in AtSucc \cup {"is_dead"} => me.k < Len(G'[me.v_p])
    BY <2>1, <2>7 DEF OnTrail
  <2>9. Successor(t, me.v_p, me.k)' = Successor(t, me.v_p, me.k)
    BY <2>7 DEF Successor
  <2>10. Home(t) \in AtSucc => me.w = Successor(t, me.v_p, me.k)'
    BY <2>1, <2>9 DEF OnTrail
  <2>11. Home(t) = "is_dead" => EdgeDone(me.v_p, Successor(t, me.v_p, me.k))'
    <3> SUFFICES ASSUME Home(t) = "is_dead" PROVE EdgeDone(me.v_p, Successor(t, me.v_p, me.k))'
      OBVIOUS
    <3>1. me.v_p \in Node /\ me.k < Len(G[me.v_p]) /\ EdgeDone(me.v_p, Successor(t, me.v_p, me.k))
      BY <2>1 DEF OnTrail, AtEdge, EdgesTried
    <3>2. PICK m \in Node, n \in Node : m = me.v_p /\ n = Successor(t, me.v_p, me.k)
      BY <2>2, <3>1, EdgeOf
    <3>3. EdgeDone(m, n)'
      BY <3>1, <3>2, EdgeGrows
    <3>. QED
      BY <2>9, <3>2, <3>3
  <2>12. Home(t) \in {"found", "united"} => OnRoots(Class(t), me.roots, me.w)'
    <3> SUFFICES ASSUME Home(t) \in {"found", "united"} PROVE OnRoots(Class(t), me.roots, me.w)'
      OBVIOUS
    <3>0. PICK w \in Slot, rts \in Seq(Slot) : w = me.w /\ rts = me.roots
      BY <2>2
    <3>1. PICK c, d : c = Class(t) /\ d = Class(t)'
      OBVIOUS
    <3>2. \A x, y \in Slot : c[x] = c[y] => d[x] = d[y]
      BY <3>1 DEF Wider
    <3>3. OnRoots(c, rts, w)
      BY <2>1, <3>0, <3>1 DEF OnTrail
    <3>4. OnRoots(d, rts, w)
      BY <3>2, <3>3, OnRootsGrow
    <3>. QED
      BY <3>0, <3>1, <3>4
  <2>13. Home(t) = "backtrack" =>
           Dead(me.v)' \/ (me.rec # <<>> /\ Root'[me.rec[Len(me.rec)].v] = Root'[me.v])
    <3> SUFFICES ASSUME Home(t) = "backtrack", ~Dead(me.v)
                 PROVE  Dead(me.v)' \/ (me.rec # <<>> /\ Root'[me.rec[Len(me.rec)].v] = Root'[me.v])
      <4>1. PICK n \in Node : n = me.v
        BY <2>1 DEF OnTrail
      <4>2. Dead(n) => Dead(n)'
        BY DEF Grows
      <4>. QED
        BY <4>1, <4>2
    <3>1. me.rec # <<>> /\ Root[me.rec[Len(me.rec)].v] = Root[me.v]
      BY <2>1 DEF OnTrail
    <3>2. me.rec[Len(me.rec)] \in Frame
      BY <2>2, <3>1
    <3>3. PICK x \in Slot : x = me.rec[Len(me.rec)].v
      BY <3>2 DEF Frame
    <3>. QED
      BY <2>2, <3>1, <3>3 DEF Grows, Coarser
  <2>14. (Marked(t, Depth(t), {}) \/ (Home(t) \notin AtEdge /\ me.rec = <<>> /\ Dead(me.v)))'
    <3>1. PICK n \in Node, d \in {Depth(t)} : n = me.v /\ d = Depth(t)
      BY <2>1 DEF OnTrail
    <3>2. Marked(t, d, {}) \/ (Home(t) \notin AtEdge /\ me.rec = <<>> /\ Dead(n))
      BY <2>1, <3>1 DEF OnTrail
    <3>3. (Marked(t, d, {}) => Marked(t, d, {})') /\ (Dead(n) => Dead(n)')
      BY MarkedGrows DEF Grows
    <3>. QED
      BY <2>3, <3>1, <3>2, <3>3
  <2>. QED
    BY <1>2, <2>1, <2>4, <2>5, <2>6, <2>8, <2>10, <2>11, <2>12, <2>13, <2>14 DEF Stands, OnTrail
<1>. QED
  BY <1>1, <1>2

\* The states a worker has claimed keep their bits while others step.
LEMMA BitsGrow ==
  ASSUME OwnTyped, Grows, NEW t \in Worker, tls'[t] = tls[t], Home(t)' = Home(t), Wider(t), VisitsFrom(t),
         Claiming(t) => Claiming(t)', BitsHome(t)
  PROVE  BitsHome(t)'
<1>1. tls[t].roots \in Seq(Slot) /\ tls[t].v \in Slot /\ tls[t].w \in Slot
  BY TlsTyped
<1>0. PICK rts \in Seq(Slot), g \in Slot : rts = tls[t].roots /\ g = Target(t)
  BY <1>1 DEF Target
<1>2. PICK c, d : c = Class(t) /\ d = Class(t)'
  OBVIOUS
<1>3. tls'[t].roots = rts /\ Target(t)' = g
  BY <1>0 DEF Target
<1>4. ASSUME NEW n \in Node, Visited(t, n)'
      PROVE  Dead(n)' \/ OnRoots(d, rts, n) \/ (Claiming(t)' /\ Root'[n] = Root'[g])
  <2>1. PICK m \in Node : Root'[m] = Root'[n] /\ Visited(t, m)
    BY <1>4 DEF VisitsFrom
  <2>2. m \in Slot /\ n \in Slot
    BY DEF Node, Slot
  <2>3. CASE Dead(m)
    <3>1. Dead(m)'
      BY <2>3 DEF Grows
    <3>. QED
      BY <2>1, <3>1 DEF Dead
  <2>4. CASE OnRoots(c, rts, m)
    <3>1. \A x, y \in Slot : c[x] = c[y] => d[x] = d[y]
      BY <1>2 DEF Wider
    <3>2. d[m] = d[n]
      BY <1>2, <2>1, <2>2, ClassOnRootNext
    <3>. QED
      BY <2>2, <2>4, <3>1, <3>2, OnRootsGrow
  <2>5. CASE Claiming(t) /\ Root[m] = Root[g]
    BY <1>0, <2>1, <2>2, <2>5 DEF Grows, Coarser
  <2>. QED
    BY <1>0, <1>2, <2>1, <2>3, <2>4, <2>5 DEF BitsHome
<1>. QED
  BY <1>0, <1>2, <1>3, <1>4 DEF BitsHome

\* What a claim has found out about its target stays right while others step.
LEMMA SeesGrow ==
  ASSUME OwnTyped, Grows, NEW t \in Worker, tls'[t] = tls[t], Home(t)' = Home(t), VisitsFrom(t),
         Home(t) \in ClaimHomes, Target(t) \in Node, BitsHome(t), Sees(t)
  PROVE  Sees(t)'
<1>1. tls[t].roots \in Seq(Slot)
  BY TlsTyped
<1>2. PICK rts \in Seq(Slot), g \in Node : rts = tls[t].roots /\ g = Target(t)
  BY <1>1
<1>3. tls'[t].roots = rts /\ Target(t)' = g
  BY <1>2 DEF Target
<1>4. Class(t) = Root
  BY DEF Class, Uniting, ClaimHomes
<1>5. PICK c, d : c = Root /\ d = Root'
  OBVIOUS
<1>6. \A x, y \in Slot : c[x] = c[y] => d[x] = d[y]
  BY <1>5 DEF Grows, Coarser
<1>7. ASSUME Visited(t, g)' PROVE OnRoots(d, rts, g)
  <2>1. PICK m \in Node : d[m] = d[g] /\ Visited(t, m)
    BY <1>5, <1>7 DEF VisitsFrom
  <2>2. m \in Slot /\ g \in Slot
    BY DEF Node, Slot
  <2>3. CASE c[m] = c[g]
    <3>1. Visited(t, g)
      BY <1>5, <2>1, <2>3 DEF Visited
    <3>2. OnRoots(c, rts, g)
      BY <1>2, <1>5, <3>1 DEF Sees
    <3>. QED
      BY <1>6, <2>2, <3>2, OnRootsGrow
  <2>4. CASE c[m] # c[g]
    <3>1. ~Dead(m)
      BY <1>5, <2>1, <2>4 DEF Grows
    <3>2. OnRoots(c, rts, m)
      BY <1>2, <1>4, <1>5, <2>1, <2>4, <3>1 DEF BitsHome
    <3>. QED
      BY <1>6, <2>1, <2>2, <3>2, OnRootsGrow
  <2>. QED
    BY <2>3, <2>4
<1>. QED
  BY <1>2, <1>3, <1>5, <1>7 DEF Sees

Still(t) ==
  /\ pc'[t] = pc[t] /\ stack'[t] = stack[t] /\ ret'[t] = ret[t] /\ path'[t] = path[t] /\ loc'[t] = loc[t]
  /\ tls'[t] = tls[t]

\* A worker that does not step stays in its call.
LEMMA StillHome ==
  ASSUME NEW t \in Worker, Still(t)
  PROVE  Home(t)' = Home(t) /\ \A l : Awaits(t, l)' <=> Awaits(t, l)
BY DEF Still, Home, Awaits

\* A slot in the set of a node is a node: no set has the state 0.
LEMMA NodeClass ==
  ASSUME SetsInv(Callers), uf[0] = uf_node, NEW n \in Slot, NEW m \in Node, Root[n] = Root[m]
  PROVE  n \in Node
<1>1. UfTyped /\ ParentIncreasing
  BY DEF SetsInv, Upward, Typed
<1>2. 0 \in Slot /\ m \in Slot
  BY SlotZero DEF Node, Slot
<1>3. Root[0] = 0
  BY <1>1, <1>2, RootFacts DEF uf_node
<1>4. m <= Root[m]
  BY <1>1, <1>2, RootFacts
<1>. QED
  BY <1>3, <1>4 DEF Node, Slot

\* The operands of find and of what it returns to are slots.
LEMMA PlaceTyped ==
  ASSUME SetsInv(Callers), NEW t \in Worker
  PROVE  /\ ret[t].node \in Slot
         /\ pc[t] \in FindLabels => path[t] # <<>> /\ path[t][1] \in Slot
<1>1. ControlTyped(Callers)
  BY DEF SetsInv, Typed
<1>2. ret[t] \in [code : Codes, node : Slot] /\ path[t] \in Seq(Slot)
  BY <1>1 DEF ControlTyped
<1>3. pc[t] \in FindLabels => path[t] # <<>>
  BY <1>1 DEF ControlTyped, FindLabels
<1>. QED
  BY <1>2, <1>3

\* Claims are told of their target.
LEMMA ClaimGrows ==
  ASSUME SetsInv(Callers), OwnTyped, uf[0] = uf_node, Grows, NEW t \in Worker, Still(t), VisitsFrom(t), BitsHome(t),
         Home(t) \in ClaimHomes, ClaimKnown(t)
  PROVE  ClaimKnown(t)'
<1>1. Home(t)' = Home(t) /\ \A l : Awaits(t, l)' <=> Awaits(t, l)
  BY StillHome
<1>2. pc'[t] = pc[t] /\ ret'[t] = ret[t] /\ path'[t] = path[t] /\ tls'[t] = tls[t]
  BY DEF Still
<1>3. /\ ret[t].node \in Slot
      /\ pc[t] \in FindLabels => path[t][1] \in Slot
  BY PlaceTyped
<1>4. PICK n \in Node, f \in Slot : n = Target(t) /\ f = ret[t].node
  BY <1>3 DEF ClaimKnown
<1>5. PICK rts \in Seq(Slot), k \in {Pushes(t)} : rts = tls[t].roots /\ k = Pushes(t)
  BY TlsTyped
<1>6. Target(t)' = n /\ Pushes(t)' = k /\ tls'[t].roots = rts
  BY <1>1, <1>2, <1>4, <1>5 DEF Target, Pushes, Depth
<1>7. n \in Slot
  BY DEF Node, Slot
<1>8. \A x, y \in Slot : Root[x] = Root[y] => Root'[x] = Root'[y]
  BY DEF Grows, Coarser
<1>9. Sees(t) => Sees(t)'
  BY <1>1, <1>2, <1>4, SeesGrow
<1>10. \A d, X : Marked(t, d, X) => Marked(t, d, X)'
  BY MarkedGrows
<1>11. Dead(n) => Dead(n)'
  BY DEF Grows
<1>12. Root[f] = Root[n] /\ uf[f].uf_status = DEAD => uf'[f].uf_status = DEAD
  BY NodeClass DEF Grows
<1>13. OnRoots(Root, rts, n) => OnRoots(Root', rts, n)
  <2>1. PICK c, d : c = Root /\ d = Root'
    OBVIOUS
  <2>2. OnRoots(c, rts, n) => OnRoots(d, rts, n)
    BY <1>7, <1>8, <2>1, OnRootsGrow
  <2>. QED
    BY <2>1, <2>2
<1>14. pc[t] = "compress" /\ Root[path[t][1]] = Root[n] => Root[f] = Root[n]
  <2>1. PathOne(t)
    BY DEF SetsInv, Knows
  <2>. QED
    BY <1>4, <2>1 DEF PathOne, FindLabels
<1>15. CASE pc[t] = Home(t) /\ ret[t].code \in ClaimCodes
              /\ (ret[t].code = "CLAIM_DEAD" => Dead(n))
              /\ (ret[t].code = "CLAIM_FOUND" => OnRoots(Root, rts, n))
              /\ (ret[t].code \in Claims => Marked(t, k + 1, {}))
  BY <1>1, <1>2, <1>6, <1>10, <1>11, <1>13, <1>15 DEF ClaimKnown
<1>16. CASE /\ pc[t] \in FindLabels /\ Awaits(t, "claim_dead") /\ Root[path[t][1]] = Root[n]
            /\ pc[t] = "compress" => Sees(t) \/ uf[f].uf_status = DEAD
  <2>1. Root'[path[t][1]] = Root'[n]
    BY <1>3, <1>7, <1>8, <1>16
  <2>2. pc[t] = "compress" => Sees(t)' \/ uf'[f].uf_status = DEAD
    BY <1>9, <1>12, <1>14, <1>16
  <2>. QED
    BY <1>1, <1>2, <1>4, <1>6, <1>16, <2>1, <2>2 DEF ClaimKnown
<1>17. CASE pc[t] = "claim_dead" /\ Root[f] = Root[n] /\ (Sees(t) \/ uf[f].uf_status = DEAD)
  BY <1>1, <1>2, <1>4, <1>6, <1>7, <1>8, <1>9, <1>12, <1>17 DEF ClaimKnown
<1>18. CASE pc[t] = "claim_found" /\ Root[f] = Root[n] /\ Sees(t)
  BY <1>1, <1>2, <1>4, <1>6, <1>7, <1>8, <1>9, <1>18 DEF ClaimKnown
<1>19. CASE pc[t] = "claim_or" /\ Root[f] = Root[n] /\ Marked(t, k, {f})
  BY <1>1, <1>2, <1>4, <1>6, <1>7, <1>8, <1>10, <1>19 DEF ClaimKnown
<1>20. CASE pc[t] \in {"claim_check", "claim_again"} /\ Root[f] = Root[n] /\ Marked(t, k + 1, {})
  BY <1>1, <1>2, <1>4, <1>6, <1>7, <1>8, <1>10, <1>20 DEF ClaimKnown
<1>21. CASE /\ pc[t] \in FindLabels /\ Awaits(t, "claim_again") /\ Root[path[t][1]] = Root[n]
            /\ Marked(t, k + 1, {})
  BY <1>1, <1>2, <1>3, <1>4, <1>6, <1>7, <1>8, <1>10, <1>21 DEF ClaimKnown
<1>. QED
  BY <1>4, <1>5, <1>15, <1>16, <1>17, <1>18, <1>19, <1>20, <1>21 DEF ClaimKnown

\* The graph does not change.
LEMMA MutualSame ==
  ASSUME G' = G, NEW m, NEW n
  PROVE  Mutual(m, n)' <=> Mutual(m, n)
BY DEF Mutual, Reaches

\* What the stack operators return.
LEMMA TopIn ==
  ASSUME NEW s \in Seq(Slot)
  PROVE  Top(s) \in Slot /\ Pop(s) \in Seq(Slot) /\ Top(Pop(s)) \in Slot
BY TopTyped, PopTyped

\* Two roots that a worker is about to unite stay the top of its stack.
LEMMA TwoRootsGrow ==
  ASSUME OwnTyped, Grows, NEW t \in Worker, tls'[t] = tls[t], NEW r \in Seq(Slot), TwoRoots(t, r)
  PROVE  TwoRoots(t, r)'
<1>1. PICK x \in Slot, y \in Slot, s \in Seq(Slot) : x = Top(s) /\ y = Top(r) /\ s = Pop(r)
  BY TopIn
<1>2. PICK c, d : c = JoinClass(Root, x, y) /\ d = JoinClass(Root', x, y)
  OBVIOUS
<1>3. PICK w \in Slot : w = tls[t].w
  BY TlsTyped
<1>4. \A a, b \in Slot : c[a] = c[b] => d[a] = d[b]
  BY <1>2, JoinCoarser DEF Grows
<1>5. Len(r) > 1 /\ Mutual(x, y) /\ Walk(Depth(t), Trail(t), s, c, w) /\ OnRoots(c, s, w)
  BY <1>1, <1>2, <1>3 DEF TwoRoots
<1>6. Walk(Depth(t), Trail(t), s, d, w)
  BY <1>4, <1>5, WalkWider
<1>7. OnRoots(d, s, w)
  BY <1>4, <1>5, OnRootsGrow
<1>8. Mutual(x, y)'
  BY <1>5, MutualSame DEF Grows
<1>9. Depth(t)' = Depth(t) /\ Trail(t)' = Trail(t)
  BY TrailSame
<1>. QED
  BY <1>1, <1>2, <1>3, <1>5, <1>6, <1>7, <1>8, <1>9 DEF TwoRoots

\* The edges of a state that may be removed need no work later either.
LEMMA RemoveGrows ==
  ASSUME OwnTyped, Grows, NEW a \in Node, \A n \in Succ(a) : EdgeDone(a, n)
  PROVE  \A n \in Succ(a)' : EdgeDone(a, n)'
<1>1. Succ(a)' = Succ(a) /\ Succ(a) \subseteq Node
  BY SuccTyped DEF Succ, Grows
<1>2. ASSUME NEW n \in Succ(a) PROVE EdgeDone(a, n)'
  <2>1. n \in Node
    BY <1>1
  <2>. QED
    BY <2>1, EdgeGrows
<1>. QED
  BY <1>1, <1>2

\* What a pick has found out stays right while others step.
LEMMA PickGrows ==
  ASSUME SetsInv(Callers), OwnTyped, Grows, NEW t \in Worker, Still(t), tls[t].v \in Node, PickKnown(t)
  PROVE  PickKnown(t)'
<1>1. Home(t)' = Home(t) /\ \A l : Awaits(t, l)' <=> Awaits(t, l)
  BY StillHome
<1>2. pc'[t] = pc[t] /\ ret'[t] = ret[t] /\ loc'[t] = loc[t] /\ tls'[t] = tls[t]
  BY DEF Still
<1>3. PICK v \in Node, r \in Slot, a \in Slot, d \in {Depth(t)} : v = tls[t].v /\ r = ret[t].node /\ a = loc[t].pick.a /\ d = Depth(t)
  <2>1. LocTyped
    BY DEF SetsInv, Typed
  <2>. QED
    BY <2>1, PlaceTyped, LocalsTyped
<1>4. v \in Slot /\ \A x, y \in Slot : Root[x] = Root[y] => Root'[x] = Root'[y]
  BY DEF Node, Slot, Grows, Coarser
<1>5. Marked(t, d, {}) => Marked(t, d, {})'
  BY MarkedGrows
<1>6. Dead(v) => Dead(v)'
  BY DEF Grows
<1>7. Depth(t)' = d
  BY <1>2, <1>3 DEF Depth
<1>8. Picking(t)' <=> Picking(t)
  BY <1>1, <1>2 DEF Picking
<1>9. CASE pc[t] = "explore" /\ ret[t].code = "PICK_SUCCESS" /\ r \in Node /\ Root[r] = Root[v] /\ Marked(t, d, {})
  BY <1>2, <1>3, <1>4, <1>5, <1>7, <1>9 DEF PickKnown
<1>10. CASE pc[t] = "explore" /\ ret[t].code \in {"PICK_DEAD", "PICK_MARK_DEAD"} /\ Dead(v)
  BY <1>2, <1>3, <1>6, <1>10 DEF PickKnown
<1>11. CASE Picking(t) /\ (\A l \in ListLabels : ~Awaits(t, l)) /\ Root[a] = Root[v]
  BY <1>1, <1>2, <1>3, <1>4, <1>8, <1>11 DEF PickKnown
<1>. QED
  BY <1>3, <1>9, <1>10, <1>11 DEF PickKnown

\* What a unite works on stays right while others step.
LEMMA UniteGrows ==
  ASSUME SetsInv(Callers), OwnTyped, Grows, NEW t \in Worker, Still(t), UniteKnown(t)
  PROVE  UniteKnown(t)'
<1>1. Home(t)' = Home(t) /\ \A l : Awaits(t, l)' <=> Awaits(t, l)
  BY StillHome
<1>2. pc'[t] = pc[t] /\ ret'[t] = ret[t] /\ loc'[t] = loc[t]
  BY DEF Still
<1>3. CASE pc[t] = "united"
  BY <1>2, <1>3 DEF UniteKnown
<1>4. CASE pc[t] # "united"
  <2>1. PICK u : u = loc[t].unite
    OBVIOUS
  <2>2. u.up \in Slot /\ u.q \in Slot
    <3>1. LocTyped
      BY DEF SetsInv, Typed
    <3>. QED
      BY <2>1, <3>1, LocalsTyped
  <2>3. /\ Busy(t) /\ u.a \in Node /\ u.b \in Node /\ Mutual(u.a, u.b)
        /\ pc[t] \in ListLabels => ret[t].code = "PICK_SUCCESS"
        /\ Adding(t) => u.qw \subseteq uf[u.q].workers
        /\ Adding(t) /\ pc[t] # "compare_rw" => Root[u.up] = Root[u.q]
    BY <1>4, <2>1 DEF UniteKnown
  <2>4. Mutual(u.a, u.b)'
    <3>1. PICK a, b : a = u.a /\ b = u.b
      OBVIOUS
    <3>2. Mutual(a, b)'
      BY <2>3, <3>1, MutualSame DEF Grows
    <3>. QED
      BY <3>1, <3>2
  <2>5. (Busy(t)' <=> Busy(t)) /\ (Adding(t)' <=> Adding(t))
    BY <1>1, <1>2 DEF Busy, Region, Adding
  <2>6. Adding(t) => u.qw \subseteq uf'[u.q].workers
    BY <2>2, <2>3 DEF Grows
  <2>7. Adding(t) /\ pc[t] # "compare_rw" => Root'[u.up] = Root'[u.q]
    BY <2>2, <2>3 DEF Grows, Coarser
  <2>. QED
    BY <1>2, <2>1, <2>3, <2>4, <2>5, <2>6, <2>7 DEF UniteKnown
<1>. QED
  BY <1>3, <1>4

\* What a find was called for stays right while others step.
LEMMA FindGrows ==
  ASSUME SetsInv(Callers), Grows, NEW t \in Worker, Still(t), NEW n \in Slot, FindKnown(t, n)
  PROVE  FindKnown(t, n)'
<1>1. Home(t)' = Home(t) /\ \A l : Awaits(t, l)' <=> Awaits(t, l)
  BY StillHome
<1>2. pc'[t] = pc[t] /\ ret'[t] = ret[t] /\ path'[t] = path[t]
  BY DEF Still
<1>3. ret[t].node \in Slot /\ (pc[t] \in FindLabels => path[t][1] \in Slot)
  BY PlaceTyped
<1>4. \A x, y \in Slot : Root[x] = Root[y] => Root'[x] = Root'[y]
  BY DEF Grows, Coarser
<1>. QED
  BY <1>1, <1>2, <1>3, <1>4 DEF FindKnown

\* All that a worker knows in its calls stays right while others step.
LEMMA CallsStill ==
  ASSUME SetsInv(Callers), OwnTyped, uf[0] = uf_node, Grows, NEW t \in Worker, Still(t), VisitsFrom(t),
         Stands(t), BitsHome(t), Calls(t)
  PROVE  Calls(t)'
<1>1. Home(t)' = Home(t) /\ \A l : Awaits(t, l)' <=> Awaits(t, l)
  BY StillHome
<1>2. pc'[t] = pc[t] /\ ret'[t] = ret[t] /\ loc'[t] = loc[t] /\ tls'[t] = tls[t]
  BY DEF Still
<1>3. Home(t)' \in ClaimHomes => ClaimKnown(t)'
  BY <1>1, ClaimGrows DEF Calls
<1>4. Home(t)' \in SameHomes => SameRuns(t)'
  BY <1>1, <1>2 DEF Calls, SameRuns
<1>5. Differs(t)' => TwoRoots(t, tls[t].roots)'
  <2>1. PICK r \in Seq(Slot) : r = tls[t].roots
    BY TlsTyped
  <2>2. Differs(t)' => Differs(t)
    BY <1>1, <1>2 DEF Differs
  <2>3. Differs(t) => TwoRoots(t, r)
    BY <2>1 DEF Calls
  <2>4. TwoRoots(t, r) => TwoRoots(t, r)'
    BY <1>2, <2>1, TwoRootsGrow
  <2>. QED
    BY <1>2, <2>1, <2>2, <2>3, <2>4
<1>6. Home(t)' = "explore" => PickKnown(t)'
  <2> SUFFICES ASSUME Home(t) = "explore" PROVE PickKnown(t)'
    BY <1>1
  <2>1. tls[t].v \in Node
    BY DEF Stands, Searching, OnTrail
  <2>. QED
    BY <2>1, PickGrows DEF Calls
<1>7. Home(t)' = "enter" => RemoveKnown(t)'
  <2> SUFFICES ASSUME Home(t) = "enter" PROVE RemoveKnown(t)'
    BY <1>1
  <2>1. CASE pc[t] = "enter"
    BY <1>2, <2>1 DEF RemoveKnown
  <2>2. CASE pc[t] # "enter"
    <3>1. /\ pc[t] \in {"remove", "remove_color"} /\ loc[t].pick.a \in Node
          /\ \A n \in Succ(loc[t].pick.a) : EdgeDone(loc[t].pick.a, n)
      BY <2>2 DEF Calls, RemoveKnown
    <3>2. PICK a \in Node : a = loc[t].pick.a
      BY <3>1
    <3>3. \A n \in Succ(a)' : EdgeDone(a, n)'
      BY <3>1, <3>2, RemoveGrows
    <3>. QED
      BY <1>2, <3>1, <3>2, <3>3 DEF RemoveKnown
  <2>. QED
    BY <2>1, <2>2
<1>8. Home(t)' = "united" => UniteKnown(t)'
  BY <1>1, UniteGrows DEF Calls
<1>9. Home(t)' = "is_dead" => FindKnown(t, tls[t].v)'
  <2>1. PICK n \in Slot : n = tls[t].v
    BY TlsTyped
  <2>2. FindKnown(t, n) => FindKnown(t, n)'
    BY FindGrows
  <2>. QED
    BY <1>1, <1>2, <2>1, <2>2 DEF Calls
<1>10. Home(t)' = "collected" => FindKnown(t, tls[t].i)'
  <2> SUFFICES ASSUME Home(t) = "collected" PROVE FindKnown(t, tls[t].i)'
    BY <1>1
  <2>1. PICK n \in Slot : n = tls[t].i
    BY DEF Stands, Searching, Node, Slot
  <2>2. FindKnown(t, n)'
    BY <2>1, FindGrows DEF Calls
  <2>. QED
    BY <1>2, <2>1, <2>2
<1>11. Home(t)' \in {"next", "edge", "backtrack", "join", "done", "collect", "end"} => pc'[t] = Home(t)'
  BY <1>1, <1>2 DEF Calls
<1>. QED
  BY <1>3, <1>4, <1>5, <1>6, <1>7, <1>8, <1>9, <1>10, <1>11 DEF Calls

ClaimLabels == {"claim_dead", "claim_found", "claim_or", "claim_check", "claim_again"}
RemoveLabels == {"remove", "remove_color"}

\* Under every call there is a label of the search.
LEMMA HomeCalls ==
  ASSUME SetsInv(Callers), NEW w \in Worker
  PROVE  Home(w) \in Callers /\ (pc[w] \in Labels => pc[w] \notin Callers)
<1>1. InCall(w, Callers) /\ Outside(Callers)
  BY DEF SetsInv, Knows
<1>2. Home(w) \in Callers
  <2>1. CASE pc[w] \in Callers /\ stack[w] = <<>>
    BY <2>1 DEF Home
  <2>2. CASE ~(pc[w] \in Callers /\ stack[w] = <<>>)
    <3>1. PICK c \in Callers : \/ stack[w] = <<c>>
                               \/ \E b : stack[w] = <<c, b>>
                               \/ \E l : stack[w] = <<c, l, "mark_dead">>
      BY <1>1, <2>2 DEF InCall
    <3>2. stack[w] # <<>> /\ stack[w][1] = c
      <4>1. CASE stack[w] = <<c>>
        BY <4>1
      <4>2. CASE \E b : stack[w] = <<c, b>>
        BY <4>2
      <4>3. CASE \E l : stack[w] = <<c, l, "mark_dead">>
        BY <4>3
      <4>. QED
        BY <3>1, <4>1, <4>2, <4>3
    <3>. QED
      BY <3>2 DEF Home
  <2>. QED
    BY <2>1, <2>2
<1>. QED
  BY <1>1, <1>2 DEF Outside

\* Which function runs, by the place where its caller waits.
LEMMA CallRuns ==
  ASSUME SetsInv(Callers), NEW w \in Worker, Calls(w), pc[w] \in Labels
  PROVE  \/ /\ Home(w) \in ClaimHomes
            /\ \/ pc[w] \in ClaimLabels
               \/ pc[w] \in FindLabels /\ (Awaits(w, "claim_dead") \/ Awaits(w, "claim_again"))
         \/ /\ Home(w) \in SameHomes
            /\ \/ pc[w] \in SameLabels
               \/ pc[w] \in FindLabels /\ (Awaits(w, "same_b") \/ Awaits(w, "same_retry"))
         \/ Home(w) = "explore" /\ Picking(w) /\ \A l \in ListLabels : ~Awaits(w, l)
         \/ Home(w) = "enter" /\ pc[w] \in RemoveLabels
         \/ Home(w) = "united" /\ Busy(w)
         \/ Home(w) \in {"is_dead", "collected"} /\ pc[w] \in FindLabels /\ \A l : ~Awaits(w, l)
<1>1. Home(w) \in Callers /\ pc[w] \notin Callers
  BY HomeCalls
<1>2. pc[w] # Home(w) /\ pc[w] # "explore" /\ pc[w] # "enter" /\ pc[w] # "united"
  BY <1>1 DEF Callers
<1>3. CASE Home(w) \in ClaimHomes
  BY <1>2, <1>3 DEF Calls, ClaimKnown, ClaimLabels
<1>4. CASE Home(w) \in SameHomes
  BY <1>2, <1>4 DEF Calls, SameRuns
<1>5. CASE Home(w) = "explore"
  BY <1>2, <1>5 DEF Calls, PickKnown
<1>6. CASE Home(w) = "enter"
  BY <1>2, <1>6 DEF Calls, RemoveKnown, RemoveLabels
<1>7. CASE Home(w) = "united"
  BY <1>2, <1>7 DEF Calls, UniteKnown
<1>8. CASE Home(w) = "is_dead"
  BY <1>2, <1>8 DEF Calls, FindKnown
<1>9. CASE Home(w) = "collected"
  BY <1>2, <1>9 DEF Calls, FindKnown
<1>10. CASE Home(w) \in {"next", "edge", "backtrack", "join", "done", "collect", "end"}
  BY <1>2, <1>10 DEF Calls
<1>. QED
  BY <1>1, <1>3, <1>4, <1>5, <1>6, <1>7, <1>8, <1>9, <1>10 DEF Callers, ClaimHomes, SameHomes

\* A worker waits for one call at a time.
LEMMA AwaitsOne ==
  ASSUME SetsInv(Callers), NEW w \in Worker
  PROVE  /\ \A b \in FindBacks : Awaits(w, b) => pc[w] \in FindLabels
         /\ \A l \in ListLabels : Awaits(w, l) => pc[w] \in FindLabels \cup PickLabels
         /\ \A k, l : Awaits(w, k) /\ Awaits(w, l) => k = l
         /\ Awaits(w, "mark_dead") => pc[w] \in FindLabels
<1>1. InCall(w, Callers) /\ Outside(Callers)
  BY DEF SetsInv, Knows
<1>2. Awaits(w, "mark_dead") => pc[w] \in FindLabels
  BY <1>1 DEF InCall, Awaits, ListLabels
<1>. QED
  BY <1>1, <1>2, AwaitsWhere

\* Only the unite of line 635 works on two states that may be of different sets.
LEMMA BusyRuns ==
  ASSUME SetsInv(Callers), NEW w \in Worker, Calls(w), Busy(w)
  PROVE  Home(w) = "united" /\ UniteKnown(w) /\ pc[w] # "united"
<1>1. /\ \A b \in FindBacks : Awaits(w, b) => pc[w] \in FindLabels
      /\ \A l \in ListLabels : Awaits(w, l) => pc[w] \in FindLabels \cup PickLabels
      /\ \A k, l : Awaits(w, k) /\ Awaits(w, l) => k = l
      /\ Awaits(w, "mark_dead") => pc[w] \in FindLabels
  BY AwaitsOne
<1> DEFINE U == RegionLabels \cup {"unite_a", "unite_b"}
           A == {"list_a", "list_b", "found_r", "unite_a", "unite_b"}
<1>2. pc[w] \in U \/ (pc[w] \in FindLabels \cup PickLabels /\ \E l \in A : Awaits(w, l))
  BY <1>1 DEF Busy, Region, ListLabels, FindBacks
<1>3. /\ U \subseteq Labels /\ FindLabels \cup PickLabels \subseteq Labels
      /\ U \cap (FindLabels \cup PickLabels \cup ClaimLabels \cup SameLabels \cup RemoveLabels) = {}
      /\ (FindLabels \cup PickLabels) \cap (ClaimLabels \cup SameLabels \cup RemoveLabels) = {}
      /\ A \cap {"claim_dead", "claim_again", "same_b", "same_retry", "mark_dead"} = {}
  BY DEF RegionLabels, Labels, FindLabels, PickLabels, ClaimLabels, SameLabels, RemoveLabels
<1>4. pc[w] \in Labels
  BY <1>2, <1>3
<1>5. pc[w] # "united"
  BY <1>4, HomeCalls DEF Callers
<1>6. CASE Home(w) \in ClaimHomes /\ pc[w] \in ClaimLabels
  BY <1>2, <1>3, <1>6
<1>7. CASE /\ Home(w) \in ClaimHomes \cup SameHomes /\ pc[w] \in FindLabels
           /\ \E l \in {"claim_dead", "claim_again", "same_b", "same_retry"} : Awaits(w, l)
  BY <1>1, <1>2, <1>3, <1>7
<1>8. CASE Home(w) \in SameHomes /\ pc[w] \in SameLabels
  BY <1>2, <1>3, <1>8
<1>9. CASE Picking(w) /\ \A l \in ListLabels : ~Awaits(w, l)
  <2>1. pc[w] \in PickLabels \/ Awaits(w, "mark_dead")
    BY <1>9 DEF Picking
  <2>2. pc[w] \notin U
    BY <1>1, <1>3, <2>1
  <2>3. PICK l \in A : Awaits(w, l)
    BY <1>2, <2>2
  <2>4. l \in FindBacks
    BY <1>9, <2>3 DEF ListLabels, FindBacks
  <2>5. pc[w] \in FindLabels
    BY <1>1, <2>3, <2>4
  <2>6. Awaits(w, "mark_dead")
    BY <2>1, <2>5 DEF FindLabels, PickLabels
  <2>. QED
    BY <1>1, <1>3, <2>3, <2>6
<1>10. CASE pc[w] \in RemoveLabels
  BY <1>2, <1>3, <1>10
<1>11. CASE Home(w) = "united"
  BY <1>5, <1>11 DEF Calls
<1>12. CASE pc[w] \in FindLabels /\ \A l : ~Awaits(w, l)
  BY <1>2, <1>3, <1>12
<1>. QED
  BY <1>4, <1>6, <1>7, <1>8, <1>9, <1>10, <1>11, <1>12, CallRuns

Search == SameKnown /\ BitsInv /\ HomeInv /\ ListInv /\ SearchInv

\* The parts of Search that the lemmas cite.
LEMMA SearchBase ==
  ASSUME Search
  PROVE  /\ SameKnown /\ SetsInv(Callers) /\ HomeInv /\ ListInv
         /\ Types /\ Typed(Callers) /\ OwnTyped /\ LocTyped /\ UfTyped /\ ParentIncreasing
         /\ SetsRight /\ uf[0] = uf_node
         /\ \A t \in Worker : Stands(t) /\ BitsHome(t) /\ Calls(t)
BY DEF Search, SearchInv, SetsRight, SameKnown, SetsKnown, Inv, Types, Typed, SetsInv, Upward

\* A completed set is explored.
LEMMA DeadsExplored ==
  ASSUME Search, NEW f \in Slot, uf[f].uf_status = DEAD
  PROVE  Root[f] = f /\ \A m \in Slot : Root[m] = f => Explored(m)
<1>1. UfTyped /\ ParentIncreasing /\ ListInv
  BY SearchBase
<1>2. PICK s, c : Lists(s, c)
  BY <1>1 DEF ListInv
<1>3. Deads(c) /\ Names(c)
  BY <1>2 DEF Lists
<1>4. uf[f].parent = 0 /\ AllExplored(c, f)
  BY <1>3 DEF Deads
<1>5. Root[f] = f
  BY <1>1, <1>4, RootFacts
<1>6. ASSUME NEW m \in Slot, Root[m] = f PROVE Explored(m)
  <2>1. c[m] = c[f]
    BY <1>3, <1>5, <1>6 DEF Names
  <2>. QED
    BY <1>4, <2>1 DEF AllExplored
<1>. QED
  BY <1>5, <1>6

\* All states of a completed set are explored.
LEMMA DeadNodeExplored ==
  ASSUME Search, NEW n \in Node, Dead(n)
  PROVE  Explored(n)
<1>1. UfTyped /\ ParentIncreasing /\ n \in Slot
  BY SearchBase DEF Node, Slot
<1>2. PICK f \in Slot : f = Root[n]
  BY <1>1, RootFacts
<1>. QED
  BY <1>1, <1>2, DeadsExplored DEF Dead

\* mark_dead marks the set of a state whose list is all explored.
LEMMA MarkedExplored ==
  ASSUME Search, NEW w \in Worker, Picking(w), pc[w] \in {"compress", "mark_dead"},
         NEW f, f = ret[w].node
  PROVE  /\ f \in Node /\ Root[f] = f /\ Root[loc[w].pick.a] = f /\ loc[w].pick.a \in Node
         /\ \A m \in Slot : Root[m] = f => Explored(m)
<1>1. SetsInv(Callers) /\ UfTyped /\ ParentIncreasing /\ ListInv /\ HomeInv /\ uf[0] = uf_node /\ LocTyped
  BY SearchBase
<1>2. PICK s, c : Lists(s, c)
  BY <1>1 DEF ListInv
<1>3. /\ f \in Slot /\ uf[f].parent = 0 /\ AllExplored(c, f) /\ Root[f] = Root[loc[w].pick.a]
  BY <1>1, <1>2, MarkedRoot
<1>4. Root[f] = f
  BY <1>1, <1>3, RootFacts
<1>5. loc[w].pick.a \in Node
  BY <1>1, LocalsTyped DEF HomeInv, PickHome, Node, Slot
<1>6. f \in Node
  <2>1. PICK a \in Node : a = loc[w].pick.a
    BY <1>5
  <2>. QED
    BY <1>1, <1>3, <2>1, NodeClass
<1>7. Names(c)
  BY <1>2 DEF Lists
<1>8. ASSUME NEW m \in Slot, Root[m] = f PROVE Explored(m)
  <2>1. c[m] = c[f]
    BY <1>3, <1>4, <1>7, <1>8 DEF Names
  <2>. QED
    BY <1>3, <2>1 DEF AllExplored
<1>. QED
  BY <1>3, <1>4, <1>5, <1>6, <1>8

-----------------------------------------------------------------------------
(* The three steps that change what the sets say of the graph *)

\* The store of the parent: which sets it unites, and that neither is completed.
LEMMA LinkFacts ==
  ASSUME Search, NEW w \in Worker, SetParent(w), UNCHANGED G,
         NEW q, q = loc[w].unite.q, NEW r, r = loc[w].unite.r, NEW a, a = loc[w].unite.a, NEW b, b = loc[w].unite.b
  PROVE  /\ q \in Node /\ r \in Slot /\ q < r /\ Root[q] = q /\ Root[r] # q
         /\ a \in Node /\ b \in Node /\ Mutual(a, b)
         /\ (q = Root[a] /\ Root[r] = Root[b]) \/ (q = Root[b] /\ Root[r] = Root[a])
         /\ uf[q].uf_status # DEAD /\ uf[Root[r]].uf_status # DEAD
<1>1. /\ SetsInv(Callers) /\ UfTyped /\ ParentIncreasing /\ uf[0] = uf_node /\ SetsRight /\ Calls(w)
      /\ q \in Slot /\ r \in Slot
  BY SearchBase, LocalsTyped
<1>2. pc[w] = "set_parent"
  BY DEF SetParent
<1>3. Busy(w) /\ Linking(w) /\ Region(w) /\ pc[w] # "lock_uf"
  BY <1>2 DEF Busy, Region, RegionLabels, Linking, LinkLabels
<1>4. UniteKnown(w) /\ pc[w] # "united"
  BY <1>1, <1>3, BusyRuns
<1>5. a \in Node /\ b \in Node /\ Mutual(a, b)
  BY <1>4 DEF UniteKnown
<1>6. QRoot(w) /\ UniteSets(w) /\ OneHolder
  BY <1>1 DEF SetsInv, Knows
<1>7. uf[q].parent = 0 /\ q < r
  BY <1>3, <1>6 DEF QRoot, UniteSets
<1>8. Root[q] = q /\ r <= Root[r]
  BY <1>1, <1>7, RootFacts
<1>9. (Root[q] = Root[a] /\ Root[r] = Root[b]) \/ (Root[q] = Root[b] /\ Root[r] = Root[a])
  BY <1>3, <1>6 DEF UniteSets
<1>10. q \in Node
  <2>1. CASE Root[q] = Root[a]
    BY <1>1, <1>5, <2>1, NodeClass
  <2>2. CASE Root[q] = Root[b]
    BY <1>1, <1>5, <2>2, NodeClass
  <2>. QED
    BY <1>9, <2>1, <2>2
<1>11. Root[r] # q
  <2>1. Root[r] \in Slot
    BY <1>1, RootFacts
  <2>. QED
    BY <1>1, <1>7, <1>8, <2>1, SlotZero DEF Slot
<1>12. uf[q].uf_status # DEAD
  BY <1>3, <1>6, <1>7 DEF OneHolder, Holding, LOCK, DEAD
<1>13. uf[Root[r]].uf_status # DEAD
  <2> SUFFICES ASSUME uf[Root[r]].uf_status = DEAD PROVE FALSE
    OBVIOUS
  <2>1. (Root[r] = Root[b] => Dead(b)) /\ (Root[r] = Root[a] => Dead(a))
    BY DEF Dead
  <2>2. Whole
    BY <1>1 DEF SetsRight
  <2>3. Mutual(b, a)
    BY <1>5 DEF Mutual
  <2>4. Root[a] = Root[b]
    BY <1>5, <1>9, <2>1, <2>2, <2>3 DEF Whole
  <2>. QED
    BY <1>8, <1>9, <1>11, <2>4
<1>. QED
  BY <1>1, <1>5, <1>7, <1>8, <1>9, <1>10, <1>11, <1>12, <1>13

\* The store of the parent puts two incomplete sets of one component together and
\* changes no other.
LEMMA LinkRight ==
  ASSUME Search, NEW w \in Worker, SetParent(w), UNCHANGED G, Typed(Callers)', Upward'
  PROVE  /\ Coarser
         /\ \A n \in Node : Dead(n)' <=> Dead(n)
         /\ \A m, n \in Node : Root'[m] = Root'[n] => Root[m] = Root[n] \/ (~Dead(m) /\ ~Dead(n) /\ Mutual(m, n))
<1> DEFINE q == loc[w].unite.q
           r == loc[w].unite.r
           a == loc[w].unite.a
           b == loc[w].unite.b
<1>1. /\ SetsInv(Callers) /\ UfTyped /\ ParentIncreasing /\ SetsRight /\ Typed(Callers) /\ Upward
      /\ QRoot(w) /\ UniteSets(w)
  BY SearchBase DEF SetsInv, Knows
<1>2. /\ q \in Node /\ r \in Slot /\ q < r /\ Root[q] = q /\ Root[r] # q
      /\ a \in Node /\ b \in Node /\ Mutual(a, b)
      /\ (q = Root[a] /\ Root[r] = Root[b]) \/ (q = Root[b] /\ Root[r] = Root[a])
      /\ uf[q].uf_status # DEAD /\ uf[Root[r]].uf_status # DEAD
  BY LinkFacts
<1>3. Coarser /\ \A n \in Slot : Root'[n] = IF Root[n] = q THEN Root[r] ELSE Root[n]
  BY <1>1, LinkKept
<1>4. \A s \in Slot : uf'[s].uf_status = uf[s].uf_status
  <2>1. uf \in [Slot -> Entry] /\ q \in Slot
    BY <1>1, <1>2 DEF UfTyped, Node, Slot
  <2>. QED
    BY <2>1 DEF SetParent, Merged, Entry
<1> HIDE DEF q, r, a, b
<1>5. Root[r] \in Slot /\ \A n \in Node : n \in Slot /\ Root[n] \in Slot
  BY <1>1, <1>2, RootFacts DEF Node, Slot
<1>6. ASSUME NEW n \in Node
      PROVE  /\ Dead(n)' <=> Dead(n)
             /\ Root[n] \in {q, Root[r]} => ~Dead(n)
  <2>1. CASE Root[n] = q
    <3>1. Root'[n] = Root[r]
      BY <1>3, <1>5, <2>1
    <3>2. uf'[Root[r]].uf_status # DEAD
      BY <1>2, <1>4, <1>5
    <3>. QED
      BY <1>2, <2>1, <3>1, <3>2 DEF Dead
  <2>2. CASE Root[n] # q
    <3>1. Root'[n] = Root[n]
      BY <1>3, <1>5, <2>2
    <3>2. uf'[Root[n]].uf_status = uf[Root[n]].uf_status
      BY <1>4, <1>5
    <3>. QED
      BY <1>2, <2>2, <3>1, <3>2 DEF Dead
  <2>. QED
    BY <2>1, <2>2
<1>7. ASSUME NEW m \in Node, NEW n \in Node, Root[m] = Root[a], Root[n] = Root[b]
      PROVE  Mutual(m, n) /\ Mutual(n, m)
  <2>1. Sound
    BY <1>1 DEF SetsRight
  <2>2. Mutual(m, a) /\ Mutual(b, n) /\ Mutual(a, b)
    BY <1>2, <1>7, <2>1 DEF Sound
  <2>3. Mutual(m, b)
    BY <1>2, <2>2, MutualOn
  <2>4. Mutual(m, n)
    BY <1>2, <2>2, <2>3, MutualOn
  <2>. QED
    BY <2>4 DEF Mutual
<1>8. ASSUME NEW m \in Node, NEW n \in Node, Root'[m] = Root'[n], Root[m] # Root[n]
      PROVE  ~Dead(m) /\ ~Dead(n) /\ Mutual(m, n)
  <2>1. (Root[m] = q /\ Root[n] = Root[r]) \/ (Root[n] = q /\ Root[m] = Root[r])
    BY <1>3, <1>5, <1>8
  <2>2. ~Dead(m) /\ ~Dead(n)
    BY <1>6, <2>1
  <2>3. (Root[m] = Root[a] /\ Root[n] = Root[b]) \/ (Root[n] = Root[a] /\ Root[m] = Root[b])
    BY <1>2, <2>1
  <2>. QED
    BY <1>7, <2>2, <2>3
<1>. QED
  BY <1>3, <1>6, <1>8

\* The graph does not change, so neither do edges and cycles.
LEMMA SuccSame ==
  ASSUME UNCHANGED G
  PROVE  /\ \A m : Succ(m)' = Succ(m)
         /\ \A m, n : Mutual(m, n)' <=> Mutual(m, n)
BY DEF Succ, Mutual, Reaches

\* The sets stay right when unite stores a parent.
LEMMA LinkSets ==
  ASSUME Search, NEW w \in Worker, SetParent(w), UNCHANGED G, Typed(Callers)', Upward'
  PROVE  Sound' /\ Whole' /\ DeadClosed' /\ TombClosed'
<1>1. UfTyped /\ SetsRight /\ OwnTyped /\ LocTyped
  BY SearchBase
<1>2. /\ Coarser
      /\ \A n \in Node : Dead(n)' <=> Dead(n)
      /\ \A m, n \in Node : Root'[m] = Root'[n] => Root[m] = Root[n] \/ (~Dead(m) /\ ~Dead(n) /\ Mutual(m, n))
  BY LinkRight
<1>3. /\ \A m : Succ(m)' = Succ(m)
      /\ \A m, n : Mutual(m, n)' <=> Mutual(m, n)
  BY SuccSame
<1>4. \A m \in Node : m \in Slot /\ Succ(m) \subseteq Node
  BY <1>1, SuccTyped DEF Node, Slot
<1>5. Sound'
  BY <1>1, <1>2, <1>3 DEF Sound, SetsRight
<1>6. Whole'
  BY <1>1, <1>2, <1>3, <1>4 DEF Whole, SetsRight, Coarser
<1>7. DeadClosed'
  BY <1>1, <1>2, <1>3, <1>4 DEF DeadClosed, SetsRight
<1>8. \A m \in Node : Explored(m)' <=> Explored(m)
  <2>1. uf \in [Slot -> Entry] /\ loc[w].unite.q \in Slot
    BY <1>1, LocalsTyped DEF UfTyped
  <2>. QED
    BY <1>4, <2>1 DEF SetParent, Merged, Entry, Explored
<1>9. TombClosed'
  <2>1. ASSUME NEW m \in Node, Explored(m)', NEW n \in Succ(m)'
        PROVE  EdgeDone(m, n)'
    <3>1. n \in Node /\ n \in Succ(m) /\ Explored(m)
      BY <1>3, <1>4, <1>8, <2>1
    <3>2. EdgeDone(m, n)
      BY <1>1, <3>1 DEF TombClosed, SetsRight
    <3>. QED
      BY <1>2, <1>4, <3>1, <3>2 DEF EdgeDone, Coarser
  <2>. QED
    BY <2>1 DEF TombClosed
<1>. QED
  BY <1>5, <1>6, <1>7, <1>9

\* Only mark_dead completes a set.
LEMMA StatusTo ==
  ASSUME Typed(Callers), NEW w \in Worker, UFStep(w)
  PROVE  \A s \in Slot : uf'[s].uf_status = DEAD => uf[s].uf_status = DEAD \/ (MarkDead(w) /\ s = ret[w].node)
<1>1. uf \in [Slot -> Entry] /\ loc[w].unite.q \in Slot /\ ret[w].node \in Slot /\ LOCK # DEAD /\ LIVE # DEAD
  BY LocalsTyped DEF Typed, UfTyped, ControlTyped, LIVE, LOCK, DEAD
<1>2. ASSUME NEW s \in Slot, uf'[s].uf_status = DEAD
      PROVE  uf[s].uf_status = DEAD \/ (MarkDead(w) /\ s = ret[w].node)
  <2>1. CASE MarkDead(w)
    BY <1>1, <1>2, <2>1 DEF MarkDead, Entry
  <2>2. CASE LockUf(w) \/ LockUfUndo(w) \/ UnlockUf(w)
    BY <1>1, <1>2, <2>2 DEF LockUf, LockUfUndo, UnlockUf, Entry
  <2>. QED
    BY <1>2, <2>1, <2>2, UFStepEntries
<1>. QED
  BY <1>2

\* Only mark_dead completes a set, and it is the set of its f.
LEMMA DeadTo ==
  ASSUME Search, NEW w \in Worker, UFStep(w), ~SetParent(w)
  PROVE  /\ Root' = Root
         /\ \A n \in Node : Dead(n) => Dead(n)'
         /\ \A n \in Node : Dead(n)' => Dead(n) \/ (MarkDead(w) /\ Root[n] = ret[w].node)
<1>1. SetsInv(Callers) /\ Typed(Callers) /\ UfTyped /\ ParentIncreasing /\ Upward /\ Locked
  BY SearchBase DEF SetsInv
<1>2. Root' = Root
  BY <1>1, RootsKept
<1>3. \A n \in Node : Root[n] \in Node
  <2>1. ASSUME NEW n \in Node PROVE Root[n] \in Node
    <3>1. n \in Slot
      BY DEF Node, Slot
    <3>. QED
      BY <1>1, <3>1, RootFacts DEF Node, Slot
  <2>. QED
    BY <2>1
<1>4. \A s \in Node : uf[s].uf_status = DEAD => uf'[s].uf_status = DEAD
  BY <1>1, UFStepKeeps DEF NothingUndone
<1>5. \A s \in Node : uf'[s].uf_status = DEAD => uf[s].uf_status = DEAD \/ (MarkDead(w) /\ s = ret[w].node)
  BY <1>1, StatusTo DEF Node, Slot
<1>. QED
  BY <1>2, <1>3, <1>4, <1>5 DEF Dead

\* The sets stay right when mark_dead completes one: all its states are explored,
\* so no edge leaves it but to completed sets, and a component is never completed
\* in part.
LEMMA MarkSets ==
  ASSUME Search, NEW w \in Worker, MarkDead(w), UNCHANGED G
  PROVE  Sound' /\ Whole' /\ DeadClosed' /\ TombClosed'
<1>1. UfTyped /\ SetsRight /\ OwnTyped /\ Sound /\ Whole /\ DeadClosed /\ TombClosed /\ ret[w].node \in Slot /\ Typed(Callers)
  BY SearchBase, PlaceTyped DEF SetsRight
<1>2. PICK f : f = ret[w].node
  OBVIOUS
<1>3. pc[w] = "mark_dead" /\ Picking(w) /\ UFStep(w) /\ ~SetParent(w)
  BY DEF MarkDead, SetParent, Picking, PickLabels, UFStep
<1>4. f \in Node /\ Root[f] = f /\ \A m \in Slot : Root[m] = f => Explored(m)
  BY <1>2, <1>3, MarkedExplored
<1>5. /\ Root' = Root
      /\ \A n \in Node : Dead(n) => Dead(n)'
      /\ \A n \in Node : Dead(n)' => Dead(n) \/ Root[n] = f
  BY <1>2, <1>3, DeadTo
<1>6. /\ \A m : Succ(m)' = Succ(m)
      /\ \A m, n : Mutual(m, n)' <=> Mutual(m, n)
  BY SuccSame
<1>7. \A m \in Node : m \in Slot /\ Succ(m) \subseteq Node
  BY <1>1, SuccTyped DEF Node, Slot
<1>8. uf'[f].uf_status = DEAD
  <2>1. uf \in [Slot -> Entry]
    BY <1>1 DEF UfTyped
  <2>. QED
    BY <1>1, <1>2, <2>1 DEF MarkDead, Entry
<1>9. \A n \in Node : Root[n] = f => Dead(n)'
  BY <1>5, <1>8 DEF Dead
<1> DEFINE S == {n \in Node : Root[n] = f \/ Dead(n)}
<1>10. \A n \in S : Succ(n) \subseteq S
  <2>1. ASSUME NEW n \in Node, Root[n] = f, NEW m \in Succ(n) PROVE m \in S
    <3>1. Explored(n) /\ m \in Node
      BY <1>4, <1>7, <2>1
    <3>2. EdgeDone(n, m)
      BY <1>1, <3>1 DEF TombClosed
    <3>. QED
      BY <2>1, <3>1, <3>2 DEF EdgeDone
  <2>2. ASSUME NEW n \in Node, Dead(n), NEW m \in Succ(n) PROVE m \in S
    BY <1>1, <1>7, <2>2 DEF DeadClosed
  <2>. QED
    BY <2>1, <2>2
<1>11. Sound'
  BY <1>1, <1>5, <1>6 DEF Sound
<1>12. Whole'
  <2>1. ASSUME NEW m \in Node, NEW n \in Node, Dead(m)', Mutual(m, n)' PROVE Root[n] = Root[m]
    <3>1. Mutual(m, n) /\ Mutual(n, m) /\ Reaches(m, n)
      BY <1>6, <2>1 DEF Mutual
    <3>2. CASE Dead(m)
      BY <1>1, <3>1, <3>2 DEF Whole
    <3>3. CASE Root[m] = f
      <4>1. m \in S /\ S \in SUBSET Node
        BY <3>3
      <4>2. n \in S
        <5> HIDE DEF S
        <5>. QED
          BY <1>10, <3>1, <4>1, ReachInside
      <4>3. CASE Dead(n)
        BY <1>1, <3>1, <4>3 DEF Whole
      <4>. QED
        BY <3>3, <4>2, <4>3
    <3>. QED
      BY <1>5, <2>1, <3>2, <3>3
  <2>. QED
    BY <1>5, <2>1 DEF Whole
<1>13. DeadClosed'
  <2>1. \A m \in S : Dead(m)'
    BY <1>5, <1>9
  <2>2. \A m \in Node : Dead(m)' => m \in S
    BY <1>5
  <2> HIDE DEF S
  <2>. QED
    BY <1>6, <1>7, <1>10, <2>1, <2>2 DEF DeadClosed
<1>14. \A m \in Node : Explored(m)' <=> Explored(m)
  <2>1. uf \in [Slot -> Entry] /\ f \in Slot
    BY <1>1, <1>2 DEF UfTyped
  <2>. QED
    BY <1>2, <1>7, <2>1 DEF MarkDead, Entry, Explored
<1>15. TombClosed'
  BY <1>1, <1>5, <1>6, <1>7, <1>14 DEF TombClosed, EdgeDone
<1>. QED
  BY <1>11, <1>12, <1>13, <1>15

\* A step that neither joins nor completes sets
LEMMA OtherSets ==
  ASSUME Search, NEW w \in Worker, UFStep(w), ~SetParent(w), ~MarkDead(w), UNCHANGED G
  PROVE  Sound' /\ Whole' /\ DeadClosed' /\ TombClosed'
<1>1. /\ SetsInv(Callers) /\ HomeInv /\ UfTyped /\ OwnTyped /\ Sound /\ Whole /\ DeadClosed /\ TombClosed
      /\ Calls(w)
  BY SearchBase DEF SetsRight
<1>2. /\ Root' = Root
      /\ \A n \in Node : Dead(n)' <=> Dead(n)
  BY DeadTo
<1>3. /\ \A m : Succ(m)' = Succ(m)
      /\ \A m, n : Mutual(m, n)' <=> Mutual(m, n)
  BY SuccSame
<1>4. \A m \in Node : m \in Slot /\ Succ(m) \subseteq Node
  BY <1>1, SuccTyped DEF Node, Slot
<1>5. ASSUME NEW m \in Node, Explored(m)', NEW n \in Succ(m)
      PROVE  EdgeDone(m, n)
  <2>1. CASE Explored(m)
    BY <1>1, <1>5, <2>1 DEF TombClosed
  <2>2. CASE ~Explored(m)
    <3>1. Remove(w) /\ m = loc[w].pick.a
      BY <1>1, <1>4, <1>5, <2>2, ExploredFrom
    <3>2. pc[w] = "remove" /\ pc[w] \in Labels
      BY <3>1 DEF Remove, Labels
    <3>3. Home(w) = "enter"
      <4>1. pc[w] \notin ClaimLabels \cup SameLabels \cup FindLabels \cup PickLabels \cup RegionLabels \cup {"unite_a", "unite_b"}
        BY <3>2 DEF ClaimLabels, SameLabels, FindLabels, PickLabels, RegionLabels
      <4>2. \A b \in FindBacks \cup ListLabels \cup {"mark_dead"} : ~Awaits(w, b)
        BY <1>1, <4>1, AwaitsOne
      <4>3. ~Picking(w) /\ ~Busy(w)
        BY <4>1, <4>2 DEF Picking, Busy, Region, FindBacks, ListLabels
      <4>. QED
        BY <1>1, <3>2, <4>1, <4>3, CallRuns
    <3>4. pc[w] # "enter"
      BY <3>2
    <3>. QED
      BY <1>1, <1>5, <3>1, <3>3, <3>4 DEF Calls, RemoveKnown
  <2>. QED
    BY <2>1, <2>2
<1>6. Sound' /\ Whole' /\ DeadClosed'
  BY <1>1, <1>2, <1>3, <1>4 DEF Sound, Whole, DeadClosed
<1>7. TombClosed'
  BY <1>2, <1>3, <1>4, <1>5 DEF TombClosed, EdgeDone
<1>. QED
  BY <1>6, <1>7

\* The representatives that a unite is at
LEMMA UniteNodes ==
  ASSUME Search, NEW w \in Worker, Region(w)
  PROVE  /\ loc[w].unite.q \in Node /\ loc[w].unite.r \in Node
         /\ Adding(w) /\ pc[w] # "compare_rw" => loc[w].unite.up \in Node
<1> DEFINE q == loc[w].unite.q
           r == loc[w].unite.r
           a == loc[w].unite.a
           b == loc[w].unite.b
           up == loc[w].unite.up
<1>1. SetsInv(Callers) /\ uf[0] = uf_node /\ LocTyped /\ Calls(w)
  BY SearchBase
<1>2. Busy(w)
  BY DEF Busy
<1>3. UniteKnown(w) /\ pc[w] # "united"
  BY <1>1, <1>2, BusyRuns
<1>4. a \in Node /\ b \in Node /\ q \in Slot /\ r \in Slot /\ up \in Slot
  BY <1>1, <1>3, LocalsTyped DEF UniteKnown
<1>5. UniteSets(w)
  BY <1>1 DEF SetsInv, Knows
<1>6. \/ Root[q] = Root[a] /\ Root[r] = Root[b]
      \/ Root[q] = Root[b] /\ Root[r] = Root[a]
  BY <1>5 DEF UniteSets
<1>7. Adding(w) /\ pc[w] # "compare_rw" => Root[up] = Root[q]
  BY <1>3 DEF UniteKnown
<1> HIDE DEF q, r, a, b, up
<1>8. q \in Node /\ r \in Node
  BY <1>1, <1>4, <1>6, NodeClass
<1>9. Adding(w) /\ pc[w] # "compare_rw" => up \in Node
  BY <1>1, <1>4, <1>7, <1>8, NodeClass
<1>. QED
  BY <1>8, <1>9 DEF q, r, up

\* What find has returned to make_claim is a state of the target's set.
LEMMA ClaimNode ==
  ASSUME Search, NEW w \in Worker, pc[w] \in ClaimLabels
  PROVE  /\ ret[w].node \in Node /\ Root[ret[w].node] = Root[Target(w)] /\ Target(w) \in Node
         /\ Home(w) \in ClaimHomes /\ pc[w] # Home(w)
<1>1. SetsInv(Callers) /\ uf[0] = uf_node /\ Calls(w)
  BY SearchBase
<1>2. pc[w] \in Labels /\ pc[w] \notin FindLabels
  BY DEF ClaimLabels, Labels, FindLabels
<1>3. \A b \in FindBacks \cup ListLabels \cup {"mark_dead"} : ~Awaits(w, b)
  <2>1. pc[w] \notin PickLabels
    BY DEF ClaimLabels, PickLabels
  <2>. QED
    BY <1>1, <1>2, <2>1, AwaitsOne
<1>4. Home(w) \in ClaimHomes
  <2>1. pc[w] \notin SameLabels \cup PickLabels \cup RemoveLabels \cup RegionLabels \cup {"unite_a", "unite_b"}
    BY DEF ClaimLabels, SameLabels, PickLabels, RemoveLabels, RegionLabels
  <2>2. ~Picking(w) /\ ~Busy(w)
    BY <1>3, <2>1 DEF Picking, Busy, Region, ListLabels, FindBacks
  <2>. QED
    BY <1>1, <1>2, <2>1, <2>2, CallRuns
<1>5. pc[w] # Home(w)
  BY <1>1, <1>2, HomeCalls
<1>6. ClaimKnown(w)
  BY <1>1, <1>4 DEF Calls
<1>7. Target(w) \in Node /\ Root[ret[w].node] = Root[Target(w)]
  BY <1>2, <1>3, <1>5, <1>6 DEF ClaimKnown, ClaimLabels, FindBacks
<1>8. ret[w].node \in Slot
  BY <1>1, PlaceTyped
<1>9. ret[w].node \in Node
  <2>1. PICK f \in Slot, n \in Slot : f = ret[w].node /\ n = Target(w)
    BY <1>7, <1>8 DEF Node, Slot
  <2>. QED
    BY <1>1, <1>7, <2>1, NodeClass
<1>. QED
  BY <1>4, <1>5, <1>7, <1>9

\* Entry 0 is never written.
LEMMA ZeroKept ==
  ASSUME Search, NEW w \in Worker, UFStep(w)
  PROVE  uf'[0] = uf_node
<1>1. SetsInv(Callers) /\ HomeInv /\ uf[0] = uf_node /\ Typed(Callers) /\ LocTyped /\ uf \in [Slot -> Entry] /\ Calls(w) /\ 0 \in Slot
  BY SearchBase, SlotZero DEF UfTyped
<1>2. CASE uf' = uf
  BY <1>1, <1>2
<1>3. CASE FindCompress(w)
  <2>1. PathOne(w) /\ pc[w] = "compress" /\ path[w] # <<>> /\ path[w] \in Seq(Slot)
    BY <1>1, <1>3 DEF FindCompress, SetsInv, Knows, Typed, ControlTyped
  <2>2. Len(path[w]) \in 1 .. Len(path[w])
    BY <2>1
  <2>3. uf[path[w][Len(path[w])]].parent # 0
    BY <2>1, <2>2 DEF PathOne, FindLabels
  <2>4. path[w][Len(path[w])] # 0
    BY <1>1, <2>3 DEF uf_node
  <2>. QED
    BY <1>1, <1>3, <2>4 DEF FindCompress
<1>4. CASE ClaimOr(w)
  <2>1. ret[w].node \in Node
    BY <1>4, ClaimNode DEF ClaimOr, ClaimLabels
  <2>. QED
    BY <1>1, <1>4, <2>1 DEF ClaimOr, Node
<1>5. CASE PickWrite(w)
  <2>1. loc[w].pick.a # 0
    BY <1>1, <1>5, WriteNexts
  <2>. QED
    BY <1>1, <1>5, <2>1 DEF PickWrite
<1>6. CASE MarkDead(w)
  <2>1. ret[w].node \in Node
    BY <1>6, MarkedExplored DEF MarkDead, Picking, PickLabels
  <2>. QED
    BY <1>1, <1>6, <2>1 DEF MarkDead, Node
<1>7. CASE Remove(w)
  <2>1. loc[w].pick.a # 0
    BY <1>1, <1>7 DEF Remove, HomeInv, PickHome
  <2>. QED
    BY <1>1, <1>7, <2>1 DEF Remove
<1>8. CASE LockUf(w) \/ LockUfUndo(w) \/ UnlockUf(w) \/ SetParent(w)
  <2>1. Region(w)
    BY <1>8 DEF LockUf, LockUfUndo, UnlockUf, SetParent, Region, RegionLabels
  <2>2. loc[w].unite.q \in Node
    BY <2>1, UniteNodes
  <2>. QED
    BY <1>1, <1>8, <2>2 DEF LockUf, LockUfUndo, UnlockUf, SetParent, Merged, Node
<1>9. CASE LockListA(w) \/ LockListB(w)
  <2>1. pc[w] \in ListLabels
    BY <1>9 DEF LockListA, LockListB, ListLabels
  <2>2. Busy(w)
    BY <2>1 DEF Busy, Region, RegionLabels, ListLabels
  <2>3. ret[w].code = "PICK_SUCCESS"
    BY <1>1, <2>1, <2>2, BusyRuns DEF UniteKnown
  <2>4. ret[w].node # 0
    BY <1>1, <2>1, <2>3 DEF HomeInv, PickHome, ListLabels
  <2>. QED
    BY <1>1, <1>9, <2>3, <2>4 DEF LockListA, LockListB, Completed
<1>10. CASE SwapLists(w)
  <2>1. loc[w].unite.al # 0 /\ loc[w].unite.bl # 0
    BY <1>1, <1>10 DEF SwapLists, HomeInv, PickHome
  <2>. QED
    BY <1>1, <1>10, <2>1 DEF SwapLists, Swapped
<1>11. CASE AddQw(w)
  <2>1. Region(w) /\ Adding(w) /\ pc[w] # "compare_rw"
    BY <1>11 DEF AddQw, Region, RegionLabels, Adding, AddingLabels
  <2>2. loc[w].unite.up \in Node
    BY <2>1, UniteNodes
  <2>. QED
    BY <1>1, <1>11, <2>2 DEF AddQw, Node
<1>12. CASE UnlockListA(w) \/ UnlockListB(w)
  <2>1. PICK l : uf' = [uf EXCEPT ![l].list_status = LIVE]
    BY <1>12 DEF UnlockListA, UnlockListB, Unlocked
  <2>2. CASE l # 0
    BY <1>1, <2>1, <2>2
  <2>3. CASE l = 0
    <3>1. uf'[0] = [uf_node EXCEPT !.list_status = LIVE]
      BY <1>1, <2>1, <2>3
    <3>. QED
      BY <3>1 DEF uf_node
  <2>. QED
    BY <2>2, <2>3
<1>. QED
  BY <1>2, <1>3, <1>4, <1>5, <1>6, <1>7, <1>8, <1>9, <1>10, <1>11, <1>12
     DEF UFStep, FindRead, ClaimDead, ClaimFound, ClaimCheck, SameB, SameA, SameRetry, PickA, PickNext, PickB, PickC,
         PickCompare, RemoveColor, UniteFindB, UniteRoots, LockUfCheck, ReadQw, CompareRw, CheckR, FoundR

\* The sets stay right, and only grow, with every step of the union-find.
LEMMA StepSets ==
  ASSUME Search, NEW w \in Worker, UFStep(w), UNCHANGED G
  PROVE  SetsRight' /\ Grows
<1>1. SetsInv(Callers) /\ Typed(Callers) /\ UfTyped /\ Upward /\ Locked /\ OwnTyped
  BY SearchBase DEF SetsInv
<1>2. Typed(Callers)' /\ Upward' /\ NothingUndone
  BY <1>1, UFStepTyped, UFStepKeeps
<1>3. Coarser
  BY <1>1, UFStepSets
<1>4. uf'[0] = uf_node
  BY ZeroKept
<1>5. Sound' /\ Whole' /\ DeadClosed' /\ TombClosed'
  <2>1. CASE SetParent(w)
    BY <1>2, <2>1, LinkSets
  <2>2. CASE MarkDead(w)
    BY <2>2, MarkSets
  <2>. QED
    BY <2>1, <2>2, OtherSets
<1>6. /\ \A n \in Node : Dead(n) => Dead(n)'
      /\ \A m, n \in Node : Root'[m] = Root'[n] => Root[m] = Root[n] \/ (~Dead(m) /\ ~Dead(n))
  <2>1. CASE SetParent(w)
    BY <1>2, <2>1, LinkRight
  <2>2. CASE ~SetParent(w)
    BY <2>2, DeadTo
  <2>. QED
    BY <2>1, <2>2
<1>7. \A n \in Node : uf[n].uf_status = DEAD => uf'[n].uf_status = DEAD
  BY <1>2 DEF NothingUndone
<1>8. \A n \in Slot : uf[n].workers \subseteq uf'[n].workers
  BY <1>1, WorkersGrow
<1>. QED
  BY <1>3, <1>4, <1>5, <1>6, <1>7, <1>8 DEF SetsRight, Grows

\* Below the width of the word a worker's bit is its own.
LEMMA OwnBit ==
  ASSUME NWorkers <= WordBits, NEW t \in Worker
  PROVE  w_id(t) = {t}
<1>1. t \in Nat /\ WordBits \in Nat /\ WordBits > 0 /\ t \in 0 .. WordBits - 1
  BY UFConstants DEF Worker
<1>2. PICK q \in Nat : q = 0 /\ t = WordBits * q + t
  BY <1>1
<1>3. t % WordBits = t
  BY <1>1, <1>2, RemainderIs
<1>. QED
  BY <1>3 DEF w_id

\* No step sets a bit of a worker but its own fetch_or.
LEMMA VisitsStep ==
  ASSUME Search, NWorkers <= WordBits, NEW w \in Worker, UFStep(w), NEW t \in Worker, ~(t = w /\ ClaimOr(w))
  PROVE  VisitsFrom(t)
<1>1. SetsInv(Callers) /\ Typed(Callers) /\ uf[0] = uf_node /\ LocTyped
  BY SearchBase
<1>2. w_id(t) = {t} /\ w_id(w) = {w}
  BY OwnBit
<1>3. \A n \in Node : n \in Slot
  BY DEF Node, Slot
<1>4. ASSUME NEW n \in Node, NEW m \in Node, Root'[m] = Root'[n], w_id(t) \subseteq uf'[m].workers
      PROVE  \E k \in Node : Root'[k] = Root'[n] /\ Visited(t, k)
  <2>1. CASE t \in uf[m].workers
    <3>1. Visited(t, m)
      BY <1>2, <2>1 DEF Visited
    <3>. QED
      BY <1>4, <3>1
  <2>2. CASE t \notin uf[m].workers
    <3>1. ~ClaimOr(w)
      BY <1>1, <1>2, <1>3, <1>4, <2>2, WorkersGrow
    <3>2. AddQw(w)
      BY <1>1, <1>2, <1>3, <1>4, <2>2, <3>1, WorkersGrow
    <3> DEFINE q == loc[w].unite.q
               up == loc[w].unite.up
    <3>3. m = up /\ t \in loc[w].unite.qw
      BY <1>1, <1>2, <1>3, <1>4, <2>2, <3>2, WorkersGrow
    <3>4. Region(w) /\ Adding(w) /\ pc[w] # "compare_rw"
      BY <3>2 DEF AddQw, Region, RegionLabels, Adding, AddingLabels
    <3>5. UniteKnown(w) /\ pc[w] # "united"
      BY <1>1, <3>4, SearchBase, BusyRuns DEF Busy
    <3>6. q \in Node /\ Root[up] = Root[q] /\ loc[w].unite.qw \subseteq uf[q].workers
      BY <3>4, <3>5, UniteNodes DEF UniteKnown
    <3>7. Root' = Root
      BY <3>2, DeadTo DEF AddQw, SetParent
    <3>8. Visited(t, q)
      BY <1>2, <3>3, <3>6 DEF Visited
    <3>9. Root'[q] = Root'[n]
      BY <1>4, <3>3, <3>6, <3>7
    <3>. QED
      BY <3>6, <3>8, <3>9
  <2>. QED
    BY <2>1, <2>2
<1>. QED
  BY <1>4 DEF VisitsFrom, Visited

\* What a step of w in the union-find structure leaves of the other workers
LEMMA OthersSearch ==
  ASSUME Search, NWorkers <= WordBits, NEW w \in Worker, UFStep(w), UNCHANGED <<G, tls>>,
         NEW t \in Worker \ {w}
  PROVE  Stands(t)' /\ BitsHome(t)' /\ Calls(t)'
<1>1. /\ SetsInv(Callers) /\ Typed(Callers) /\ uf[0] = uf_node /\ LocTyped /\ OwnTyped
      /\ Stands(t) /\ BitsHome(t) /\ Calls(t)
  BY SearchBase
<1>2. Grows /\ Coarser
  BY StepSets DEF Grows
<1>3. Alone(w)
  BY <1>1, UFStepAlone
<1>4. Still(t)
  BY <1>3 DEF Alone, OthersKept, Still
<1>5. Home(t)' = Home(t) /\ \A l : Awaits(t, l)' <=> Awaits(t, l)
  BY <1>4, StillHome
<1>6. Wider(t)
  <2>1. Uniting(t)' <=> Uniting(t)
    BY <1>4, <1>5 DEF Uniting, Still
  <2>. QED
    BY <1>1, <1>2, <1>4, <2>1, WiderBeside DEF Still
<1>7. VisitsFrom(t)
  BY VisitsStep
<1>8. Claiming(t) => Claiming(t)'
  BY <1>4, <1>5 DEF Claiming, Still
<1>9. tls'[t] = tls[t]
  OBVIOUS
<1>10. Stands(t)'
  BY <1>1, <1>2, <1>5, <1>6, <1>9, StandsGrow
<1>11. BitsHome(t)'
  BY <1>1, <1>2, <1>5, <1>6, <1>7, <1>8, <1>9, BitsGrow
<1>12. Calls(t)'
  BY <1>1, <1>2, <1>4, <1>7, CallsStill
<1>. QED
  BY <1>10, <1>11, <1>12

\* A step of the union-find is one of a worker in a call.
LEMMA StepLabel ==
  ASSUME NEW w \in Worker, UFStep(w)
  PROVE  pc[w] \in Labels
BY DEF UFStep, FindRead, FindCompress, ClaimDead, ClaimFound, ClaimOr, ClaimCheck, SameB, SameA, SameRetry,
       PickA, PickNext, PickB, PickC, PickCompare, PickWrite, MarkDead, Remove, RemoveColor, UniteFindB, UniteRoots,
       LockUf, LockUfCheck, LockUfUndo, LockListA, LockListB, SwapLists, SetParent, ReadQw, CompareRw, AddQw,
       CheckR, FoundR, UnlockListA, UnlockListB, UnlockUf, Labels

\* A step inside a call stays in the call or returns from it.
LEMMA OwnHome ==
  ASSUME Search, NEW w \in Worker, UFStep(w)
  PROVE  /\ Home(w)' = Home(w) /\ pc[w] \in Labels /\ pc[w] # Home(w)
         /\ InCall(w, Callers) /\ InCall(w, Callers)' /\ SetsInv(Callers)'
<1>1. SetsInv(Callers) /\ Typed(Callers) /\ Outside(Callers) /\ InCall(w, Callers)
  BY SearchBase DEF SetsInv, Knows
<1>2. pc[w] \in Labels
  BY StepLabel
<1>. QED
  BY <1>1, <1>2, UFStepHome, UFStepInCall, UFStepSets, HomeCalls

\* A worker at work on two sets is in a call.
LEMMA BusyOff ==
  ASSUME NEW w \in Worker, InCall(w, Callers)', Busy(w)'
  PROVE  pc'[w] \in Labels
<1>1. stack'[w] # <<>>
  BY CallersOutside, BusyStackNext
<1>. QED
  BY <1>1 DEF InCall, Labels, FindLabels, PickLabels

\* A finished unite has made the sets it was to make.
LEMMA OwnWider ==
  ASSUME Search, NEW w \in Worker, UFStep(w), UNCHANGED <<G, tls>>
  PROVE  Wider(w) /\ (Uniting(w) <=> Busy(w)) /\ (Uniting(w)' <=> Busy(w)')
<1>1. /\ SetsInv(Callers) /\ Typed(Callers) /\ LocTyped /\ Calls(w)
  BY SearchBase
<1>2. Grows /\ Coarser
  BY StepSets DEF Grows
<1>3. /\ Home(w)' = Home(w) /\ pc[w] \in Labels /\ pc[w] # Home(w)
      /\ InCall(w, Callers)' /\ SetsInv(Callers)'
  BY OwnHome
<1>4. Uniting(w) <=> Busy(w)
  BY <1>1, <1>3, BusyRuns DEF Uniting, Calls, UniteKnown
<1>5. Busy(w)' => Busy(w)
  BY <1>1, UFStepBusy
<1>6. CASE ~Busy(w)
  <2>1. Home(w) # "united" /\ ~Uniting(w)' /\ ~Uniting(w) /\ ~Busy(w)'
    BY <1>3, <1>4, <1>5, <1>6 DEF Uniting
  <2>. QED
    BY <1>2, <1>4, <2>1 DEF Wider, Class, Coarser
<1>7. CASE Busy(w)
  <2> DEFINE a == loc[w].unite.a
             b == loc[w].unite.b
  <2>1. UniteKnown(w) /\ Home(w) = "united" /\ pc[w] # "united"
    BY <1>1, <1>7, BusyRuns
  <2>2. a \in Slot /\ b \in Slot
    BY <1>1, LocalsTyped
  <2>3. CASE Busy(w)' /\ loc'[w].unite.a = a /\ loc'[w].unite.b = b
    <3>1. pc'[w] \in Labels
      BY <1>3, <2>3, BusyOff
    <3>2. Uniting(w)'
      BY <1>3, <2>1, <3>1, CallersOutside DEF Uniting, Outside, Callers
    <3>. QED
      BY <1>1, <1>2, <1>4, <1>7, <2>3, <3>2, WiderBeside
  <2>4. CASE pc'[w] \in Callers /\ stack'[w] = <<>> /\ Root'[a] = Root'[b]
    <3>1. pc'[w] = "united" /\ ~Uniting(w)'
      BY <1>3, <2>1, <2>4 DEF Home, Uniting
    <3>2. ~Busy(w)'
      BY <1>3, <2>4, BusyOff, CallersOutside DEF Outside
    <3>3. \A x, y \in Slot : JoinClass(Root, a, b)[x] = JoinClass(Root, a, b)[y] => Root'[x] = Root'[y]
      <4>1. ASSUME NEW x \in Slot, NEW y \in Slot, JoinClass(Root, a, b)[x] = JoinClass(Root, a, b)[y]
            PROVE  Root'[x] = Root'[y]
        <5>1. JoinClass(Root', a, b)[x] = JoinClass(Root', a, b)[y]
          BY <1>2, <2>2, <4>1, JoinCoarser
        <5>. QED
          BY <2>4, <5>1 DEF JoinClass
      <4>. QED
        BY <4>1
    <3>4. Wider(w)
      BY <1>4, <1>7, <3>1, <3>3 DEF Wider, Class
    <3>. QED
      BY <1>4, <1>7, <3>1, <3>2, <3>4
  <2>5. pc[w] \in ListLabels => ~Completed(w)
    BY <2>1 DEF UniteKnown, Completed
  <2>. QED
    BY <1>1, <1>7, <2>3, <2>4, <2>5, UniteGoes
<1>. QED
  BY <1>6, <1>7

\* Where a worker stands in its search stays right through its own calls.
LEMMA OwnStands ==
  ASSUME Search, NEW w \in Worker, UFStep(w), UNCHANGED <<G, tls>>
  PROVE  Stands(w)'
<1>1. OwnTyped /\ Stands(w)
  BY SearchBase
<1>2. Grows /\ Home(w)' = Home(w) /\ Wider(w) /\ tls'[w] = tls[w]
  BY StepSets, OwnHome, OwnWider
<1>. QED
  BY <1>1, <1>2, StandsGrow

\* A worker that claims goes on claiming until its fetch_or.
LEMMA OwnClaiming ==
  ASSUME Search, NEW w \in Worker, UFStep(w), ~ClaimOr(w), Claiming(w)
  PROVE  Claiming(w)'
<1>1. SetsInv(Callers) /\ Typed(Callers) /\ Outside(Callers) /\ Typed(Callers)' /\ Upward'
  BY SearchBase, UFStepTyped, UFStepKeeps DEF SetsInv
<1>2. /\ Home(w)' = Home(w) /\ pc[w] \in Labels /\ pc[w] # Home(w)
      /\ InCall(w, Callers) /\ InCall(w, Callers)'
  BY OwnHome
<1>3. Home(w) \in ClaimHomes
  BY DEF Claiming
<1>4. CASE pc[w] = "claim_check"
  <2>1. ClaimCheck(w)
    BY <1>4 DEF UFStep, FindRead, FindCompress, ClaimDead, ClaimFound, ClaimOr, ClaimCheck, SameB, SameA, SameRetry,
       PickA, PickNext, PickB, PickC, PickCompare, PickWrite, MarkDead, Remove, RemoveColor, UniteFindB, UniteRoots,
       LockUf, LockUfCheck, LockUfUndo, LockListA, LockListB, SwapLists, SetParent, ReadQw, CompareRw, AddQw,
       CheckR, FoundR, UnlockListA, UnlockListB, UnlockUf
  <2>2. pc[w] \in Labels \ (FindLabels \cup PickLabels)
    BY <1>2, <1>4 DEF FindLabels, PickLabels
  <2>3. CASE CallFind(w, ret[w].node, <<"claim_again">>)
    <3>1. ret[w].node \in Slot
      BY <1>1, PlaceTyped
    <3>2. Awaits(w, "claim_again")'
      BY <1>1, <1>2, <2>2, <2>3, <3>1, FindCalled
    <3>. QED
      BY <1>2, <1>3, <3>2 DEF Claiming
  <2>4. CASE \E code \in Claims : Return(w, code, 0)
    <3>1. PICK code \in Claims : Return(w, code, 0)
      BY <2>4
    <3>2. pc'[w] \in Callers
      BY <1>1, <1>2, <2>2, <3>1, Returned
    <3>3. ret'[w] = [code |-> code, node |-> 0]
      BY <1>1, <1>2, <3>1, AwaitsReturn
    <3>4. pc'[w] = Home(w)'
      <4>1. stack'[w] = <<>>
        BY <1>1, <1>2, <3>2, CallersOutside DEF InCall, Outside, Labels, FindLabels, PickLabels
      <4>. QED
        BY <4>1 DEF Home
    <3>. QED
      BY <1>2, <1>3, <3>1, <3>3, <3>4 DEF Claiming
  <2>. QED
    BY <2>1, <2>3, <2>4 DEF ClaimCheck, Claims
<1>5. CASE pc[w] = "claim_again"
  BY <1>5 DEF UFStep, FindRead, FindCompress, ClaimDead, ClaimFound, ClaimOr, ClaimCheck, SameB, SameA, SameRetry,
       PickA, PickNext, PickB, PickC, PickCompare, PickWrite, MarkDead, Remove, RemoveColor, UniteFindB, UniteRoots,
       LockUf, LockUfCheck, LockUfUndo, LockListA, LockListB, SwapLists, SetParent, ReadQw, CompareRw, AddQw,
       CheckR, FoundR, UnlockListA, UnlockListB, UnlockUf
<1>6. CASE Awaits(w, "claim_again")
  <2>1. pc[w] \in FindLabels /\ \A k \in FindBacks \cup ListLabels \cup {"mark_dead"} : Awaits(w, k) => k = "claim_again"
    BY <1>1, <1>6, AwaitsOne DEF FindBacks
  <2>2. FindRead(w) \/ FindCompress(w)
    BY <2>1 DEF FindLabels, UFStep, FindRead, FindCompress, ClaimDead, ClaimFound, ClaimOr, ClaimCheck, SameB, SameA, SameRetry,
       PickA, PickNext, PickB, PickC, PickCompare, PickWrite, MarkDead, Remove, RemoveColor, UniteFindB, UniteRoots,
       LockUf, LockUfCheck, LockUfUndo, LockListA, LockListB, SwapLists, SetParent, ReadQw, CompareRw, AddQw,
       CheckR, FoundR, UnlockListA, UnlockListB, UnlockUf
  <2>3. CASE stack' = stack
    <3>1. Awaits(w, "claim_again")'
      BY <1>6, <2>3 DEF Awaits
    <3>. QED
      BY <1>2, <1>3, <3>1 DEF Claiming
  <2>4. CASE \E node \in Slot : Return(w, "find", node)
    <3>1. PICK node \in Slot : Return(w, "find", node)
      BY <2>4
    <3>2. pc'[w] = "claim_again"
      <4> DEFINE code == "find"
      <4>1. Return(w, code, node)
        BY <3>1
      <4> HIDE DEF code
      <4>. QED
        BY <1>1, <1>2, <1>6, <2>1, <4>1, AwaitsReturn DEF ListLabels, FindBacks, FindLabels
    <3>. QED
      BY <1>2, <1>3, <3>2 DEF Claiming
  <2>. QED
    BY <1>1, <2>2, <2>3, <2>4, FindOutcome
<1>. QED
  BY <1>2, <1>4, <1>5, <1>6 DEF Claiming

\* Its claimed states keep their bits through its own calls.
LEMMA OwnBits ==
  ASSUME Search, NWorkers <= WordBits, NEW w \in Worker, UFStep(w), UNCHANGED <<G, tls>>
  PROVE  BitsHome(w)'
<1>1. OwnTyped /\ BitsHome(w) /\ SetsInv(Callers) /\ Typed(Callers) /\ uf \in [Slot -> Entry]
  BY SearchBase DEF UfTyped
<1>2. Grows /\ Home(w)' = Home(w) /\ Wider(w) /\ tls'[w] = tls[w]
  BY StepSets, OwnHome, OwnWider
<1>3. CASE ~ClaimOr(w)
  <2>1. VisitsFrom(w)
    BY <1>3, VisitsStep
  <2>2. Claiming(w) => Claiming(w)'
    BY <1>3, OwnClaiming
  <2>. QED
    BY <1>1, <1>2, <2>1, <2>2, BitsGrow
<1>4. CASE ClaimOr(w)
  <2>1. pc[w] \in ClaimLabels /\ pc[w] \in Labels
    BY <1>4 DEF ClaimOr, ClaimLabels, Labels
  <2>2. /\ ret[w].node \in Node /\ Root[ret[w].node] = Root[Target(w)] /\ Target(w) \in Node
        /\ Home(w) \in ClaimHomes
    BY <2>1, ClaimNode
  <2>3. pc'[w] = "claim_check"
    BY <1>1, <1>4 DEF ClaimOr, Goto, Typed, ControlTyped
  <2>4. Claiming(w)'
    BY <1>2, <2>2, <2>3 DEF Claiming
  <2>5. Root' = Root
    BY <1>4, DeadTo DEF ClaimOr, SetParent
  <2>6. Target(w)' = Target(w)
    BY <1>2 DEF Target
  <2>7. \A m \in Node : m \in Slot
    BY DEF Node, Slot
  <2>8. \A m \in Slot : uf'[m].workers = IF m = ret[w].node THEN uf[m].workers \cup w_id(w) ELSE uf[m].workers
    BY <1>1, <1>4, WorkersGrow
  <2>9. ~Uniting(w) /\ ~Uniting(w)'
    BY <1>2, <2>2 DEF Uniting, ClaimHomes
  <2>10. Class(w) = Root /\ Class(w)' = Root
    BY <2>5, <2>9 DEF Class
  <2>11. ASSUME NEW n \in Node, Visited(w, n)'
         PROVE  \/ Dead(n)' \/ OnRoots(Class(w)', tls'[w].roots, n)
                \/ Root'[n] = Root'[Target(w)']
    <3>1. PICK m \in Node : Root[m] = Root[n] /\ w_id(w)' \subseteq uf'[m].workers
      BY <2>5, <2>11 DEF Visited
    <3>2. w_id(w)' = w_id(w)
      BY DEF w_id
    <3>3. CASE m = ret[w].node
      BY <2>2, <2>5, <2>6, <3>1, <3>3
    <3>4. CASE m # ret[w].node
      <4>1. Visited(w, n)
        BY <2>7, <2>8, <3>1, <3>2, <3>4 DEF Visited
      <4>2. Dead(n) \/ OnRoots(Class(w), tls[w].roots, n) \/ Root[n] = Root[Target(w)]
        BY <1>1, <4>1 DEF BitsHome
      <4>. QED
        BY <1>2, <2>5, <2>6, <2>10, <4>2 DEF Grows
    <3>. QED
      BY <3>3, <3>4
  <2>. QED
    BY <2>4, <2>11 DEF BitsHome
<1>. QED
  BY <1>3, <1>4

\* The function that a step is of
LEMMA StepIs ==
  ASSUME NEW w \in Worker, UFStep(w)
  PROVE  /\ pc[w] \in FindLabels => FindRead(w) \/ FindCompress(w)
         /\ pc[w] \in ClaimLabels => ClaimDead(w) \/ ClaimFound(w) \/ ClaimOr(w) \/ ClaimCheck(w)
         /\ pc[w] \in SameLabels => SameB(w) \/ SameA(w) \/ SameRetry(w)
         /\ pc[w] \in PickLabels => \/ PickA(w) \/ PickNext(w) \/ PickB(w) \/ PickC(w) \/ PickCompare(w)
                                    \/ PickWrite(w) \/ MarkDead(w)
         /\ pc[w] \in RemoveLabels => Remove(w) \/ RemoveColor(w)
BY DEF UFStep, FindRead, FindCompress, ClaimDead, ClaimFound, ClaimOr, ClaimCheck, SameB, SameA, SameRetry,
       PickA, PickNext, PickB, PickC, PickCompare, PickWrite, MarkDead, Remove, RemoveColor, UniteFindB, UniteRoots,
       LockUf, LockUfCheck, LockUfUndo, LockListA, LockListB, SwapLists, SetParent, ReadQw, CompareRw, AddQw,
       CheckR, FoundR, UnlockListA, UnlockListB, UnlockUf,
       FindLabels, ClaimLabels, SameLabels, PickLabels, RemoveLabels

\* What a call that returns to the search leaves behind.
LEMMA StepReturns ==
  ASSUME Search, NEW w \in Worker, UFStep(w), pc[w] \notin FindLabels \cup PickLabels,
         NEW code, NEW node, Return(w, code, node)
  PROVE  pc'[w] = Home(w) /\ ret'[w].code = code /\ ret'[w].node = node /\ pc'[w] = Home(w)'
<1>1. SetsInv(Callers) /\ Typed(Callers) /\ Outside(Callers)
  BY SearchBase DEF SetsInv
<1>2. /\ Home(w)' = Home(w) /\ pc[w] \in Labels /\ pc[w] # Home(w)
      /\ InCall(w, Callers) /\ InCall(w, Callers)'
  BY OwnHome
<1>3. pc'[w] \in Callers
  BY <1>1, <1>2, Returned
<1>4. ret'[w] = [code |-> code, node |-> node]
  BY <1>1, <1>2, AwaitsReturn
<1>5. stack'[w] = <<>>
  BY <1>1, <1>2, <1>3, CallersOutside DEF InCall, Outside, Labels, FindLabels, PickLabels
<1>. QED
  BY <1>2, <1>4, <1>5 DEF Home

\* What a call that goes on leaves behind.
LEMMA StepMoves ==
  ASSUME Search, NEW w \in Worker, UFStep(w), pc[w] \notin FindLabels \cup PickLabels
  PROVE  /\ \A label \in Labels \ FindLabels : Goto(w, label) =>
              pc'[w] = label /\ ret'[w] = ret[w] /\ \A l : ~Awaits(w, l)'
         /\ \A label \in Labels \ FindLabels : Resume(w, label) => pc'[w] = label /\ \A l : ~Awaits(w, l)'
         /\ \A s \in Slot, b \in FindBacks : CallFind(w, s, <<b>>) =>
              /\ pc'[w] = "find" /\ path'[w][1] = s
              /\ \A l : Awaits(w, l)' <=> l = b
<1>1. SetsInv(Callers) /\ Typed(Callers) /\ Outside(Callers)
  BY SearchBase DEF SetsInv
<1>2. pc[w] \in Labels \ (FindLabels \cup PickLabels) /\ InCall(w, Callers)
  BY OwnHome
<1>3. ASSUME NEW label \in Labels \ FindLabels, Goto(w, label)
      PROVE  pc'[w] = label /\ ret'[w] = ret[w] /\ \A l : ~Awaits(w, l)'
  BY <1>1, <1>2, <1>3, Moved DEF Goto
<1>4. ASSUME NEW label \in Labels \ FindLabels, Resume(w, label)
      PROVE  pc'[w] = label /\ \A l : ~Awaits(w, l)'
  BY <1>1, <1>2, <1>4, Moved
<1>5. ASSUME NEW s \in Slot, NEW b \in FindBacks, CallFind(w, s, <<b>>)
      PROVE  pc'[w] = "find" /\ path'[w][1] = s /\ \A l : Awaits(w, l)' <=> l = b
  BY <1>1, <1>2, <1>5, FindCalled
<1>. QED
  BY <1>3, <1>4, <1>5

\* Where find returns to
Ended(w) ==
  \/ Awaits(w, pc'[w]) /\ \A l : ~Awaits(w, l)'
  \/ pc'[w] = Home(w)' /\ \A l : ~Awaits(w, l) /\ ~Awaits(w, l)'
  \/ /\ pc'[w] = "mark_dead" /\ \A l : Awaits(w, l)' <=> Awaits(w, l)
     /\ \E l \in ListLabels : Awaits(w, l)

\* A step of find: it goes on, or it returns to the label that awaits it.
LEMMA FindGoes ==
  ASSUME Search, NEW w \in Worker, UFStep(w), pc[w] \in FindLabels
  PROVE  /\ Root' = Root /\ loc' = loc /\ path[w][1] \in Slot
         /\ \/ /\ pc'[w] \in FindLabels /\ path'[w][1] = path[w][1]
               /\ \A l : Awaits(w, l)' <=> Awaits(w, l)
               /\ pc'[w] = "compress" => \/ pc[w] = "compress" /\ ret'[w].node = ret[w].node
                                         \/ pc[w] = "find" /\ ret'[w].node = Root[path[w][1]]
            \/ /\ Ended(w)
               /\ pc'[w] \notin FindLabels
               /\ ret'[w].node \in Slot /\ ret'[w].code = "find"
               /\ Root[ret'[w].node] = Root[path[w][1]]
               /\ path[w][1] <= ret'[w].node
               /\ uf[path[w][1]].parent # 0 => path[w][1] < ret'[w].node
               /\ \/ pc[w] = "compress" /\ ret'[w].node = ret[w].node
                  \/ pc[w] = "find" /\ ret'[w].node = Root[path[w][1]]
<1>1. SetsInv(Callers) /\ Typed(Callers) /\ Outside(Callers) /\ Typed(Callers)' /\ Upward'
  BY SearchBase, UFStepTyped, UFStepKeeps DEF SetsInv
<1>2. /\ Home(w)' = Home(w) /\ pc[w] \in Labels /\ pc[w] # Home(w)
      /\ InCall(w, Callers) /\ InCall(w, Callers)'
  BY OwnHome
<1>3. FindRead(w) \/ FindCompress(w)
  BY StepIs
<1>4. Root' = Root /\ loc' = loc /\ path[w][1] \in Slot
  BY <1>1, <1>3, FindOutcome
<1>5. CASE pc'[w] \in FindLabels
  <2>1. /\ stack' = stack /\ path'[w][1] = path[w][1]
        /\ pc[w] = "find" /\ pc'[w] = "compress" => ret'[w].node = Root[path[w][1]]
        /\ pc[w] = "compress" => pc'[w] = "compress" /\ ret'[w] = ret[w]
    <3>1. ASSUME NEW node \in Slot, Return(w, "find", node) PROVE FALSE
      <4> DEFINE code == "find"
      <4>1. Return(w, code, node)
        BY <3>1
      <4> HIDE DEF code
      <4>2. pc'[w] \notin FindLabels
        BY <1>1, <1>2, <4>1, AwaitsReturn, LabelSets, CallersOutside DEF Outside, FindLabels
      <4>. QED
        BY <1>5, <4>2
    <3>. QED
      BY <1>1, <1>3, <3>1, FindOutcome
  <2>2. \A l : Awaits(w, l)' <=> Awaits(w, l)
    BY <2>1 DEF Awaits
  <2>. QED
    BY <1>4, <1>5, <2>1, <2>2 DEF FindLabels
<1>6. CASE pc'[w] \notin FindLabels
  <2>1. PICK node \in Slot :
          /\ Return(w, "find", node)
          /\ Root[node] = Root[path[w][1]] /\ path[w][1] <= node
          /\ uf[path[w][1]].parent # 0 => path[w][1] < node
          /\ pc[w] = "find" => node = Root[path[w][1]]
          /\ pc[w] = "compress" => node = ret[w].node
    BY <1>1, <1>3, <1>6, FindOutcome
  <2>2. ret'[w] = [code |-> "find", node |-> node]
    <3> DEFINE code == "find"
    <3>1. Return(w, code, node)
      BY <2>1
    <3> HIDE DEF code
    <3>2. ret'[w] = [code |-> code, node |-> node]
      BY <1>1, <1>2, <3>1, AwaitsReturn
    <3>. QED
      BY <3>2 DEF code
  <2>3. Ended(w)
    <3> DEFINE code == "find"
    <3>1. Return(w, code, node)
      BY <2>1
    <3> HIDE DEF code
    <3>2. CASE pc'[w] \in Callers /\ stack'[w] = <<>> /\ (\A l : ~Awaits(w, l)') /\ \A l : ~Awaits(w, l)
      BY <3>2 DEF Home, Ended
    <3>. QED
      BY <1>1, <1>2, <3>1, <3>2, AwaitsReturn DEF Ended
  <2>. QED
    BY <1>4, <1>6, <2>1, <2>2, <2>3 DEF FindLabels
<1>. QED
  BY <1>5, <1>6

\* The bit of the current state completes the claimed states of the trail.
LEMMA MarkedOne ==
  ASSUME NEW t \in Worker, NEW d \in Nat, NEW f \in Node, Marked(t, d, {f}),
         \A m \in Node : uf[m].workers \subseteq uf'[m].workers, w_id(t) \subseteq uf'[f].workers
  PROVE  Marked(t, d + 1, {})'
<1>1. PICK S \in SUBSET (Node \ {f}) : d <= Cardinality(S) /\ \A m \in S : w_id(t) \subseteq uf[m].workers
  BY DEF Marked
<1>2. IsFiniteSet(Node)
  BY UFConstants, FS_Interval DEF Node
<1>3. IsFiniteSet(S) /\ Cardinality(S) \in Nat
  BY <1>1, <1>2, FS_Subset, FS_CardinalityType
<1>4. Cardinality(S \cup {f}) = Cardinality(S) + 1
  BY <1>1, <1>3, FS_AddElement
<1>5. w_id(t)' = w_id(t)
  BY DEF w_id
<1>6. S \cup {f} \in SUBSET (Node \ {}) /\ d + 1 <= Cardinality(S \cup {f})
  BY <1>1, <1>3, <1>4
<1>7. \A m \in S \cup {f} : w_id(t)' \subseteq uf'[m].workers
  BY <1>1, <1>5
<1>. QED
  BY <1>6, <1>7 DEF Marked

\* A state without the bit is not among those that have it.
LEMMA MarkedBut ==
  ASSUME NEW t \in Worker, NEW d, NEW f, Marked(t, d, {}), ~(w_id(t) \subseteq uf[f].workers)
  PROVE  Marked(t, d, {f})
<1>1. PICK S \in SUBSET (Node \ {}) : d <= Cardinality(S) /\ \A m \in S : w_id(t) \subseteq uf[m].workers
  BY DEF Marked
<1>2. S \in SUBSET (Node \ {f})
  BY <1>1
<1>. QED
  BY <1>1, <1>2 DEF Marked

\* An empty trail is claimed.
LEMMA MarkedNone ==
  ASSUME NEW t \in Worker, NEW X
  PROVE  Marked(t, 0, X)
BY FS_EmptySet DEF Marked

\* What is claimed depends on the worker's own variables only.
LEMMA SameTarget ==
  ASSUME NEW w \in Worker, tls'[w] = tls[w], Home(w)' = Home(w)
  PROVE  Target(w)' = Target(w) /\ Pushes(w)' = Pushes(w)
BY DEF Target, Pushes, Depth

\* What the find of make_claim sees at the root
LEMMA RootSees ==
  ASSUME Search, NEW w \in Worker, Home(w) \in ClaimHomes, ~Claiming(w), Target(w) \in Node
  PROVE  Sees(w) \/ uf[Root[Target(w)]].uf_status = DEAD
<1>1. BitsHome(w)
  BY SearchBase
<1>2. Class(w) = Root
  BY DEF Class, Uniting, ClaimHomes
<1>. QED
  BY <1>1, <1>2 DEF BitsHome, Sees, Dead

\* What make_claim knows after a step of its find.
LEMMA ClaimFind ==
  ASSUME Search, NWorkers <= WordBits, NEW w \in Worker, UFStep(w), UNCHANGED <<G, tls>>,
         Home(w) \in ClaimHomes, pc[w] \in FindLabels
  PROVE  ClaimKnown(w)'
<1> DEFINE n == Target(w)
<1>1. /\ SetsInv(Callers) /\ OwnTyped /\ Calls(w) /\ BitsHome(w) /\ uf[0] = uf_node
  BY SearchBase
<1>2. Home(w)' = Home(w) /\ pc[w] \in Labels /\ pc[w] # Home(w)
  BY OwnHome
<1>3. Target(w)' = n /\ Pushes(w)' = Pushes(w)
  BY <1>2, SameTarget
<1>4. Grows /\ VisitsFrom(w)
  BY StepSets, VisitsStep DEF ClaimOr, FindLabels
<1>5. ClaimKnown(w)
  BY <1>1 DEF Calls
<1>6. n \in Node
  BY <1>5 DEF ClaimKnown
<1>7. Root[path[w][1]] = Root[n] /\ (Awaits(w, "claim_dead") \/ Awaits(w, "claim_again"))
  BY <1>2, <1>5 DEF ClaimKnown, FindLabels
<1>8. \A k \in FindBacks \cup ListLabels \cup {"mark_dead"} : \A l : Awaits(w, k) /\ Awaits(w, l) => k = l
  BY <1>1, AwaitsOne
<1>9. /\ Root' = Root
      /\ \/ /\ pc'[w] \in FindLabels /\ path'[w][1] = path[w][1]
            /\ \A l : Awaits(w, l)' <=> Awaits(w, l)
            /\ pc'[w] = "compress" => \/ pc[w] = "compress" /\ ret'[w].node = ret[w].node
                                      \/ pc[w] = "find" /\ ret'[w].node = Root[path[w][1]]
         \/ /\ Ended(w) /\ pc'[w] \notin FindLabels
            /\ Root[ret'[w].node] = Root[path[w][1]]
            /\ \/ pc[w] = "compress" /\ ret'[w].node = ret[w].node
               \/ pc[w] = "find" /\ ret'[w].node = Root[path[w][1]]
  BY FindGoes
<1>10. CASE Awaits(w, "claim_dead")
  <2>1. ~Awaits(w, "claim_again") /\ ~Claiming(w)
    BY <1>2, <1>8, <1>10 DEF Claiming, FindLabels, FindBacks
  <2>2. ASSUME \/ pc[w] = "compress" /\ ret'[w].node = ret[w].node
               \/ pc[w] = "find" /\ ret'[w].node = Root[path[w][1]]
        PROVE  Sees(w)' \/ uf'[ret'[w].node].uf_status = DEAD
    <3>1. CASE pc[w] = "compress" /\ ret'[w].node = ret[w].node
      <4>1. Sees(w) \/ uf[ret[w].node].uf_status = DEAD
        BY <1>2, <1>5, <2>1, <3>1 DEF ClaimKnown
      <4>2. CASE Sees(w)
        BY <1>1, <1>2, <1>4, <1>6, <4>2, SeesGrow
      <4>3. CASE uf[ret[w].node].uf_status = DEAD
        <5>1. PathOne(w) /\ ret[w].node \in Slot
          BY <1>1, PlaceTyped DEF SetsInv, Knows
        <5>2. Root[ret[w].node] = Root[n]
          BY <1>7, <3>1, <5>1 DEF PathOne, FindLabels
        <5>3. ret[w].node \in Node
          BY <1>1, <1>6, <5>1, <5>2, NodeClass
        <5>. QED
          BY <1>4, <3>1, <4>3, <5>3 DEF Grows
      <4>. QED
        BY <4>1, <4>2, <4>3
    <3>2. CASE pc[w] = "find" /\ ret'[w].node = Root[path[w][1]]
      <4>1. uf' = uf
        <5>1. FindRead(w)
          BY <3>2, StepIs DEF FindLabels, FindCompress
        <5>. QED
          BY <5>1 DEF FindRead
      <4>2. Sees(w) \/ uf[Root[n]].uf_status = DEAD
        BY <1>6, <2>1, RootSees
      <4>3. CASE Sees(w)
        BY <1>1, <1>2, <1>4, <1>6, <4>3, SeesGrow
      <4>. QED
        BY <1>7, <3>2, <4>1, <4>2, <4>3
    <3>. QED
      BY <2>2, <3>1, <3>2
  <2>3. CASE pc'[w] \in FindLabels
    BY <1>3, <1>6, <1>7, <1>9, <1>10, <2>2, <2>3 DEF ClaimKnown, Ended
  <2>4. CASE pc'[w] \notin FindLabels
    <3>1. pc'[w] = "claim_dead"
      BY <1>8, <1>9, <1>10, <2>4 DEF Ended, ListLabels, FindBacks
    <3>. QED
      BY <1>3, <1>6, <1>7, <1>9, <2>2, <2>4, <3>1 DEF ClaimKnown
  <2>. QED
    BY <2>3, <2>4
<1>11. CASE Awaits(w, "claim_again")
  <2>1. Marked(w, Pushes(w) + 1, {})
    BY <1>2, <1>5, <1>8, <1>11 DEF ClaimKnown, FindLabels, FindBacks
  <2>2. Marked(w, Pushes(w) + 1, {})'
    <3>1. PICK d : d = Pushes(w) + 1
      OBVIOUS
    <3>2. Marked(w, d, {})'
      BY <1>4, <2>1, <3>1, MarkedGrows
    <3>. QED
      BY <1>3, <3>1, <3>2 DEF Marked
  <2>3. CASE pc'[w] \in FindLabels
    BY <1>3, <1>6, <1>7, <1>9, <1>11, <2>2, <2>3 DEF ClaimKnown
  <2>4. CASE pc'[w] \notin FindLabels
    <3>1. pc'[w] = "claim_again"
      BY <1>8, <1>9, <1>11, <2>4 DEF Ended, ListLabels, FindBacks
    <3>. QED
      BY <1>3, <1>6, <1>7, <1>9, <2>2, <2>4, <3>1 DEF ClaimKnown
  <2>. QED
    BY <2>3, <2>4
<1>. QED
  BY <1>7, <1>10, <1>11

\* MarkedGrows for a trail that does not change.
LEMMA MarkedKept ==
  ASSUME Grows, NEW t \in Worker, NEW d, NEW X, Marked(t, d, X), d' = d, X' = X
  PROVE  Marked(t, d, X)'
<1>1. PICK e, Y : e = d /\ Y = X
  OBVIOUS
<1>2. Marked(t, e, Y)'
  BY <1>1, MarkedGrows
<1>. QED
  BY <1>1, <1>2 DEF Marked

\* What make_claim knows after its own steps.
LEMMA ClaimStep ==
  ASSUME Search, NWorkers <= WordBits, NEW w \in Worker, UFStep(w), UNCHANGED <<G, tls>>,
         pc[w] \in ClaimLabels
  PROVE  ClaimKnown(w)'
<1> DEFINE n == Target(w)
           f == ret[w].node
<1>1. /\ SetsInv(Callers) /\ OwnTyped /\ Calls(w) /\ Stands(w) /\ uf[0] = uf_node /\ uf \in [Slot -> Entry]
  BY SearchBase DEF UfTyped
<1>2. Home(w)' = Home(w) /\ pc[w] \in Labels /\ pc[w] # Home(w)
  BY OwnHome
<1>3. Target(w)' = n /\ Pushes(w)' = Pushes(w)
  BY <1>2, SameTarget
<1>4. Grows
  BY StepSets
<1>5. f \in Node /\ Root[f] = Root[n] /\ n \in Node /\ Home(w) \in ClaimHomes
  BY ClaimNode
<1>6. ClaimKnown(w)
  BY <1>1, <1>5 DEF Calls
<1>7. pc[w] \notin FindLabels \cup PickLabels
  BY DEF ClaimLabels, FindLabels, PickLabels
<1>8. Root' = Root
  <2>1. ~SetParent(w)
    BY DEF SetParent, ClaimLabels
  <2>. QED
    BY <2>1, DeadTo
<1>9. f \in Slot /\ Pushes(w) \in Nat
  BY <1>1, <1>5, TrailTyped DEF Pushes, Node, Slot
<1>10. Home(w) \notin FindLabels \cup ClaimLabels
  BY <1>5 DEF ClaimHomes, FindLabels, ClaimLabels
<1>11. CASE ClaimDead(w)
  <2>1. pc[w] = "claim_dead" /\ uf' = uf
    BY <1>11 DEF ClaimDead
  <2>2. Sees(w) \/ uf[f].uf_status = DEAD
    BY <1>2, <1>6, <1>10, <2>1 DEF ClaimKnown, FindLabels
  <2>3. CASE uf[f].uf_status = DEAD /\ Return(w, "CLAIM_DEAD", 0)
    <3> DEFINE code == "CLAIM_DEAD"
    <3>1. Return(w, code, 0)
      BY <2>3
    <3> HIDE DEF code
    <3>2. pc'[w] = Home(w)' /\ ret'[w].code = code
      BY <1>7, <3>1, StepReturns
    <3>3. Root[f] = f
      BY <1>9, <2>3, DeadsExplored
    <3>4. Dead(n)'
      BY <1>3, <1>5, <1>8, <2>1, <2>3, <3>3 DEF Dead
    <3>. QED
      BY <1>3, <1>5, <3>2, <3>4 DEF ClaimKnown, ClaimCodes, Claims, code
  <2>4. CASE uf[f].uf_status # DEAD /\ Goto(w, "claim_found")
    <3>1. pc'[w] = "claim_found" /\ ret'[w] = ret[w]
      BY <1>7, <2>4, StepMoves DEF Labels, FindLabels
    <3>2. Sees(w)'
      BY <1>3, <1>8, <2>1, <2>2, <2>4 DEF Sees, Visited, OnRoots, w_id
    <3>. QED
      BY <1>3, <1>5, <1>8, <3>1, <3>2 DEF ClaimKnown
  <2>. QED
    BY <1>11, <2>3, <2>4 DEF ClaimDead
<1>12. CASE ClaimFound(w)
  <2>1. pc[w] = "claim_found" /\ uf' = uf
    BY <1>12 DEF ClaimFound
  <2>2. Sees(w)
    BY <1>2, <1>6, <1>10, <2>1 DEF ClaimKnown, FindLabels
  <2>3. CASE uf[f].workers \cap w_id(w) # {} /\ Return(w, "CLAIM_FOUND", 0)
    <3> DEFINE code == "CLAIM_FOUND"
    <3>1. Return(w, code, 0)
      BY <2>3
    <3> HIDE DEF code
    <3>2. pc'[w] = Home(w)' /\ ret'[w].code = code
      BY <1>7, <3>1, StepReturns
    <3>3. w_id(w) \subseteq uf[f].workers
      BY <2>3 DEF w_id
    <3>4. Visited(w, n)
      BY <1>5, <3>3 DEF Visited
    <3>5. OnRoots(Root, tls[w].roots, n)
      BY <2>2, <3>4 DEF Sees
    <3>6. (OnRoots(Root, tls[w].roots, Target(w)))'
      BY <1>3, <1>8, <3>5 DEF OnRoots
    <3>. QED
      BY <1>3, <1>5, <3>2, <3>6 DEF ClaimKnown, ClaimCodes, Claims, code
  <2>4. CASE uf[f].workers \cap w_id(w) = {} /\ Goto(w, "claim_or")
    <3>1. pc'[w] = "claim_or" /\ ret'[w] = ret[w]
      BY <1>7, <2>4, StepMoves DEF Labels, FindLabels
    <3>2. ~(w_id(w) \subseteq uf[f].workers)
      BY <2>4 DEF w_id
    <3>3. Marked(w, Pushes(w), {f})
      <4>1. CASE Home(w) = "start"
        BY <4>1, MarkedNone DEF Pushes
      <4>2. CASE Home(w) # "start"
        <5>1. Home(w) = "claimed" /\ Pushes(w) = Depth(w)
          BY <1>5, <4>2 DEF ClaimHomes, Pushes
        <5>2. OnTrail(w)
          BY <1>1, <5>1 DEF Stands, Searching
        <5>3. Marked(w, Depth(w), {})
          BY <5>1, <5>2 DEF OnTrail, AtEdge
        <5>. QED
          BY <3>2, <5>1, <5>3, MarkedBut
      <4>. QED
        BY <4>1, <4>2
    <3>4. Marked(w, Pushes(w), {f})'
      BY <1>3, <1>4, <3>1, <3>3, MarkedKept
    <3>. QED
      BY <1>3, <1>5, <1>8, <3>1, <3>4 DEF ClaimKnown
  <2>. QED
    BY <1>12, <2>3, <2>4 DEF ClaimFound
<1>13. CASE ClaimOr(w)
  <2>1. pc'[w] = "claim_check" /\ ret'[w] = ret[w]
    BY <1>7, <1>13, StepMoves DEF ClaimOr, Labels, FindLabels
  <2>2. Marked(w, Pushes(w) + 1, {})'
    <3>1. CASE pc[w] = "claim_or"
      <4>1. Marked(w, Pushes(w), {f})
        BY <1>2, <1>6, <1>10, <3>1 DEF ClaimKnown, FindLabels
      <4>2. \A m \in Node : uf[m].workers \subseteq uf'[m].workers
        BY <1>4 DEF Grows, Node, Slot
      <4>3. w_id(w) \subseteq uf'[f].workers
        BY <1>1, <1>9, <1>13 DEF ClaimOr, Entry
      <4>4. PICK d \in Nat, g \in Node : d = Pushes(w) /\ g = f
        BY <1>5, <1>9
      <4>5. Marked(w, d + 1, {})'
        BY <4>1, <4>2, <4>3, <4>4, MarkedOne
      <4>. QED
        BY <1>3, <4>4, <4>5 DEF Marked
    <3>2. CASE pc[w] = "claim_again"
      <4>1. Marked(w, Pushes(w) + 1, {})
        BY <1>2, <1>6, <1>10, <3>2 DEF ClaimKnown, FindLabels
      <4>. QED
        BY <1>3, <1>4, <4>1, MarkedKept
    <3>. QED
      BY <1>13, <3>1, <3>2 DEF ClaimOr
  <2>. QED
    BY <1>3, <1>5, <1>8, <2>1, <2>2 DEF ClaimKnown
<1>14. CASE ClaimCheck(w)
  <2>1. pc[w] = "claim_check"
    BY <1>14 DEF ClaimCheck
  <2>2. Marked(w, Pushes(w) + 1, {})
    BY <1>2, <1>6, <1>10, <2>1 DEF ClaimKnown, FindLabels
  <2>3. Marked(w, Pushes(w) + 1, {})'
    BY <1>3, <1>4, <2>2, MarkedKept
  <2>4. CASE CallFind(w, f, <<"claim_again">>)
    <3>1. pc'[w] = "find" /\ path'[w][1] = f /\ Awaits(w, "claim_again")'
      BY <1>7, <1>9, <2>4, StepMoves DEF FindBacks
    <3>. QED
      BY <1>3, <1>5, <1>8, <2>3, <3>1 DEF ClaimKnown, FindLabels
  <2>5. CASE \E code \in Claims : Return(w, code, 0)
    <3>1. PICK code \in Claims : Return(w, code, 0)
      BY <2>5
    <3>2. pc'[w] = Home(w)' /\ ret'[w].code = code
      BY <1>7, <3>1, StepReturns
    <3>. QED
      BY <1>3, <1>5, <2>3, <3>1, <3>2 DEF ClaimKnown, ClaimCodes, Claims
  <2>. QED
    BY <1>14, <2>4, <2>5 DEF ClaimCheck, Claims
<1>. QED
  BY <1>11, <1>12, <1>13, <1>14, StepIs

-----------------------------------------------------------------------------
(* A worker inside the union-find *)

\* The recursion goes along edges.
LEMMA TrailReach ==
  ASSUME OwnTyped, Sound, NEW t \in Worker, tls[t].v \in Node, Frames(t)
  PROVE  /\ \A i \in 1 .. Depth(t) : Trail(t)[i] \in Node
         /\ \A i, j \in 1 .. Depth(t) : i <= j => Reaches(Trail(t)[i], Trail(t)[j])
<1> DEFINE L == Depth(t)
           v == Trail(t)
<1>1. /\ L \in Nat \ {0} /\ Len(tls[t].rec) \in Nat /\ L = Len(tls[t].rec) + 1
      /\ v[L] = tls[t].v
      /\ \A i \in 1 .. Len(tls[t].rec) : v[i] = tls[t].rec[i].v /\ tls[t].rec[i] \in Frame
  BY TrailTyped
<1>2. ASSUME NEW i \in 1 .. Len(tls[t].rec)
      PROVE  v[i] \in Node /\ \E m \in Node : Root[m] = Root[v[i]] /\ v[i + 1] \in Succ(m)
  <2> DEFINE f == tls[t].rec[i]
  <2>1. FrameRight(t, f, v[i + 1])
    BY DEF Frames
  <2>2. /\ f.v \in Node /\ Root[f.v_p] = Root[f.v] /\ f.v_p \in Node /\ f.k \in Nat
        /\ f.k < Len(G[f.v_p]) /\ v[i + 1] = Successor(t, f.v_p, f.k)
    BY <1>1, <2>1 DEF FrameRight, EdgesTried, Frame
  <2>3. f.v = v[i]
    BY <1>1
  <2> HIDE DEF f, v
  <2>4. v[i + 1] \in Succ(f.v_p)
    BY <2>2, EdgeOf
  <2>. QED
    BY <2>2, <2>3, <2>4
<1> HIDE DEF L, v
<1>3. \A i \in 1 .. L : v[i] \in Node
  BY <1>1, <1>2
<1>4. ASSUME NEW i \in 1 .. L, i < L, NEW n \in Node, Reaches(n, v[i])
      PROVE  Reaches(n, v[i + 1])
  <2>1. i \in 1 .. Len(tls[t].rec)
    BY <1>1, <1>4
  <2>2. PICK m \in Node : Root[m] = Root[v[i]] /\ v[i + 1] \in Succ(m)
    BY <1>2, <2>1
  <2>3. v[i] \in Node
    BY <1>3
  <2>4. Reaches(v[i], m)
    BY <2>2, <2>3 DEF Sound, Mutual
  <2>5. Reaches(m, v[i + 1])
    <3>1. PICK x \in Succ(m) : x = v[i + 1]
      BY <2>2
    <3>. QED
      BY <3>1, ReachEdge
  <2>6. Reaches(n, m)
    BY <1>4, <2>4, ReachOn
  <2>. QED
    BY <2>5, <2>6, ReachOn
<1>5. ASSUME NEW i \in 1 .. L, NEW j \in 1 .. L, i <= j
      PROVE  Reaches(v[i], v[j])
  <2> DEFINE T == {x \in i .. L : ~Reaches(v[i], v[x])}
  <2> SUFFICES ASSUME T # {} PROVE FALSE
    BY <1>1, <1>5
  <2>1. PICK m \in T : \A k \in T : m <= k
    <3>1. T \subseteq Nat
      BY <1>1
    <3>. QED
      BY <3>1, LeastNumber
  <2>2. Reaches(v[i], v[i])
    BY <1>3, ReachSelf
  <2>3. m - 1 \in i .. L /\ m - 1 \in 1 .. L /\ m - 1 < L
    BY <1>1, <2>1, <2>2
  <2>4. Reaches(v[i], v[m - 1])
    BY <1>1, <2>1, <2>3
  <2>5. v[i] \in Node
    BY <1>3
  <2>6. PICK k \in 1 .. L, n \in Node : k = m - 1 /\ n = v[i]
    BY <2>3, <2>5
  <2>7. Reaches(n, v[k + 1])
    BY <1>4, <2>3, <2>4, <2>6
  <2>. QED
    BY <1>1, <2>1, <2>6, <2>7
<1>. QED
  BY <1>3, <1>5 DEF L, v

\* The two upper entries of a stack of at least two.
LEMMA TopTwo ==
  ASSUME NEW s \in Seq(Slot), Len(s) > 1
  PROVE  /\ Len(s) \in Nat /\ Top(s) = s[Len(s)] /\ Top(Pop(s)) = s[Len(s) - 1]
         /\ Len(Pop(s)) = Len(s) - 1 /\ \A a \in 1 .. Len(s) - 1 : Pop(s)[a] = s[a]
<1> DEFINE n == Len(s)
<1>1. n \in Nat /\ s # <<>>
  OBVIOUS
<1>2. Len(Pop(s)) = n - 1 /\ \A a \in 1 .. n - 1 : Pop(s)[a] = s[a]
  BY <1>1 DEF Pop
<1>3. Pop(s) # <<>> /\ n - 1 \in 1 .. n - 1
  BY <1>1, <1>2
<1>. QED
  BY <1>1, <1>2, <1>3 DEF Top

\* With w and v in two sets there are two roots, and uniting them keeps the walk.
LEMMA NewTwoRoots ==
  ASSUME Search, NEW t \in Worker, Home(t) = "found", Root[tls[t].w] # Root[tls[t].v]
  PROVE  TwoRoots(t, tls[t].roots)
<1> DEFINE rts == tls[t].roots
           x == Top(Pop(rts))
           y == Top(rts)
           w == tls[t].w
           L == Depth(t)
           v == Trail(t)
           d == JoinClass(Root, x, y)
<1>1. OwnTyped /\ Stands(t) /\ Sound /\ SetsInv(Callers) /\ uf[0] = uf_node
  BY SearchBase DEF SetsRight
<1>2. OnTrail(t) /\ Class(t) = Root /\ Looked(t) = w
  BY <1>1 DEF Stands, Searching, Class, Uniting, Looked
<1>3. /\ tls[t].v \in Node /\ Frames(t) /\ Walk(L, v, rts, Root, w)
      /\ Root[tls[t].v_p] = Root[tls[t].v] /\ tls[t].v_p \in Node
      /\ tls[t].k < Len(G[tls[t].v_p]) /\ w = Successor(t, tls[t].v_p, tls[t].k)
      /\ OnRoots(Root, rts, w)
  BY <1>2 DEF OnTrail, AtEdge, AtSucc, EdgesTried
<1>4. /\ rts \in Seq(Slot) /\ tls[t].k \in Nat /\ w \in Slot
      /\ y \in Slot /\ Pop(rts) \in Seq(Slot) /\ x \in Slot
  BY <1>1, TlsTyped, TopIn
<1>5. w \in Succ(tls[t].v_p) /\ w \in Node
  BY <1>1, <1>3, <1>4, EdgeOf
<1>6. L \in Nat \ {0} /\ v[L] = tls[t].v /\ \A i \in 1 .. L : v[i] \in Slot
  BY <1>1, TrailTyped
<1>7. /\ \A i \in 1 .. L : v[i] \in Node
      /\ \A i, j \in 1 .. L : i <= j => Reaches(v[i], v[j])
  BY <1>1, <1>3, TrailReach
<1>8. PICK k \in 1 .. Len(rts) : Root[rts[k]] = Root[w]
  BY <1>3 DEF OnRoots
<1>9. Joins(Root, d, Slot, x, y)
  BY <1>4, JoinIs
<1>10. Joins(Root, d, Slot, y, x)
  BY <1>9 DEF Joins
<1>11. w # 0 /\ Root[w] # Root[v[L]]
  BY <1>5, <1>6 DEF Node
<1> HIDE DEF d, w, L, v
<1>12. Len(rts) > 1 /\ Walk(L, v, Pop(rts), d, w)
  <2> HIDE DEF rts, x, y
  <2>1. PICK S, c : S = Slot /\ c = Root
    OBVIOUS
  <2>2. /\ rts \in Seq(S) /\ w \in S /\ Walk(L, v, rts, c, w) /\ (\A i \in 1 .. L : v[i] \in S)
        /\ c[w] # c[v[L]] /\ c[rts[k]] = c[w]
    BY <1>3, <1>4, <1>6, <1>8, <1>11, <2>1 DEF L, v, w
  <2>3. Joins(c, d, S, Top(rts), Top(Pop(rts)))
    BY <1>10, <2>1 DEF x, y
  <2>4. L \in Nat /\ L > 0 /\ w # 0
    BY <1>6, <1>11
  <2>. QED
    BY <2>2, <2>3, <2>4, WalkUnite
<1> DEFINE n == Len(rts)
<1>13. PICK p \in [1 .. Len(rts) -> 1 .. L] : At(L, v, rts, p)
  BY <1>3 DEF Walk
<1>14. /\ n \in Nat /\ n > 1 /\ y = rts[n] /\ x = rts[n - 1]
       /\ Len(Pop(rts)) = n - 1 /\ \A a \in 1 .. n - 1 : Pop(rts)[a] = rts[a]
  <2> HIDE DEF rts
  <2>. QED
    BY <1>4, <1>12, TopTwo
<1>15. /\ \A a \in 1 .. n : p[a] \in 1 .. L /\ rts[a] = v[p[a]]
       /\ \A a, b \in 1 .. n : a < b => p[a] < p[b]
  BY <1>13 DEF At
<1> HIDE DEF rts, n, x, y
<1>16. x \in Node /\ y \in Node /\ (\A a \in 1 .. n : rts[a] \in Node) /\ k \in 1 .. n
  BY <1>7, <1>8, <1>14, <1>15 DEF n
<1>17. Reaches(x, y)
  <2>1. n - 1 \in 1 .. n /\ n \in 1 .. n /\ n - 1 < n
    BY <1>14
  <2>2. p[n - 1] \in 1 .. L /\ p[n] \in 1 .. L /\ p[n - 1] < p[n]
    BY <1>15, <2>1
  <2>. QED
    BY <1>6, <1>7, <1>14, <1>15, <2>1, <2>2
<1>18. Reaches(y, v[L])
  <2>1. n \in 1 .. n
    BY <1>14
  <2>. QED
    <3>1. p[n] \in 1 .. L /\ L \in 1 .. L /\ y = v[p[n]]
      BY <1>6, <1>14, <1>15, <2>1
    <3>2. p[n] <= L
      BY <1>6, <3>1
    <3>. QED
      BY <1>7, <3>1, <3>2
<1>19. Reaches(y, w)
  <2>1. Reaches(v[L], tls[t].v_p)
    BY <1>1, <1>3, <1>6 DEF Sound, Mutual, L, v
  <2>2. Reaches(tls[t].v_p, w)
    <3>1. PICK m \in Node : m = tls[t].v_p
      BY <1>3
    <3>2. PICK z \in Succ(m) : z = w
      BY <1>5, <3>1 DEF w
    <3>. QED
      BY <1>1, <3>1, <3>2, ReachEdge
  <2>3. Reaches(y, tls[t].v_p)
    BY <1>16, <1>18, <2>1, ReachOn
  <2>. QED
    BY <1>16, <2>2, <2>3, ReachOn
<1>20. ASSUME NEW u \in Node, Reaches(y, u), NEW a \in 1 .. n - 1, Root[rts[a]] = Root[u]
       PROVE  Reaches(y, x)
  <2>1. a \in 1 .. n /\ n - 1 \in 1 .. n
    BY <1>14
  <2>2. Reaches(u, rts[a])
    BY <1>1, <1>16, <1>20, <2>1 DEF Sound, Mutual
  <2>3. p[a] <= p[n - 1]
    <3>1. p[a] \in 1 .. L /\ p[n - 1] \in 1 .. L
      BY <1>15, <2>1
    <3>2. CASE a = n - 1
      BY <1>6, <3>1, <3>2
    <3>3. CASE a # n - 1
      <4>1. a < n - 1
        BY <1>14, <1>20, <3>3
      <4>2. p[a] < p[n - 1]
        BY <1>15, <2>1, <4>1
      <4>. QED
        BY <1>6, <3>1, <4>2
    <3>. QED
      BY <3>2, <3>3
  <2>4. Reaches(rts[a], x)
    BY <1>7, <1>14, <1>15, <2>1, <2>3
  <2>5. Reaches(y, rts[a])
    BY <1>16, <1>20, <2>2, ReachOn
  <2>. QED
    BY <1>16, <2>4, <2>5, ReachOn
<1>21. Reaches(y, x)
  <2>1. CASE Root[w] # Root[y]
    <3>1. k # n
      BY <1>8, <1>14, <2>1
    <3>2. k \in 1 .. n - 1
      BY <1>14, <1>16, <3>1
    <3>3. w \in Node
      BY <1>5 DEF w
    <3>. QED
      BY <1>8, <1>19, <1>20, <3>2, <3>3
  <2>2. CASE Root[v[L]] # Root[y]
    <3>1. Covered(v, rts, Root, L)
      <4>1. L \in 1 .. L /\ rts \in Seq(Slot) /\ Walk(L, v, rts, Root, w)
        BY <1>3, <1>4, <1>6 DEF rts, L, v, w
      <4>2. PICK c, S, i : c = Root /\ S = Slot /\ i = L
        OBVIOUS
      <4>. QED
        BY <1>6, <4>1, <4>2, WalkRoots
    <3>2. PICK a \in 1 .. n : Root[rts[a]] = Root[v[L]]
      BY <3>1 DEF Covered, n
    <3>3. a # n
      BY <1>14, <2>2, <3>2
    <3>4. a \in 1 .. n - 1 /\ v[L] \in Node
      BY <1>6, <1>7, <1>14, <3>3
    <3>. QED
      BY <1>18, <1>20, <3>2, <3>4
  <2>. QED
    BY <1>11, <2>1, <2>2
<1>22. OnRoots(d, Pop(rts), w)
  <2>1. \A a \in 1 .. n : rts[a] \in Slot
    BY <1>16 DEF Node, Slot
  <2>2. w \in Slot /\ x \in Slot /\ y \in Slot
    BY <1>4 DEF w, x, y, rts
  <2>3. CASE k # n
    <3>1. k \in 1 .. n - 1
      BY <1>14, <1>16, <2>3
    <3>2. d[rts[k]] = d[w]
      BY <1>8, <1>9, <1>16, <2>1, <2>2 DEF Joins
    <3>. QED
      BY <1>14, <3>1, <3>2 DEF OnRoots
  <2>4. CASE k = n
    <3>1. Root[y] = Root[w]
      BY <1>8, <1>14, <2>4
    <3>2. d[x] = d[w]
      BY <1>9, <2>2, <3>1 DEF Joins
    <3>3. n - 1 \in 1 .. n - 1
      BY <1>14
    <3>. QED
      BY <1>14, <3>2, <3>3 DEF OnRoots
  <2>. QED
    BY <2>3, <2>4
<1>. QED
  BY <1>12, <1>17, <1>21, <1>22 DEF TwoRoots, Mutual, rts, x, y, d, w, L, v

SameFacts(w) ==
  LET s == loc[w].same
      x == tls[w].w
      y == tls[w].v
  IN  /\ Awaits(w, "same_b") => Root[s.a] = Root[x] /\ Root[path[w][1]] = Root[y]
      /\ pc[w] = "same_a" => Root[s.a] = Root[x] /\ Root[s.b] = Root[y]

\* What the search knows of w when it asks sameset.
LEMMA SameFactsKnown ==
  ASSUME Search, NEW w \in Worker, Home(w) = "found"
  PROVE  SameFacts(w)
<1>1. SameAsked(w)
  BY SearchBase DEF SameKnown
<1>. QED
  BY <1>1 DEF SameAsked, SameSets, SameFacts

\* What sameset knows after a step of its find: when it turns to "different" the
\* sets are different now.
LEMMA SameFind ==
  ASSUME Search, NEW w \in Worker, UFStep(w), UNCHANGED <<G, tls>>, Home(w) \in SameHomes, pc[w] \in FindLabels
  PROVE  /\ SameRuns(w)'
         /\ Differs(w)' => Differs(w) \/ Root[tls[w].w] # Root[tls[w].v]
<1>1. SetsInv(Callers) /\ OwnTyped /\ LocTyped /\ UfTyped /\ ParentIncreasing /\ Calls(w)
  BY SearchBase
<1>2. Home(w)' = Home(w) /\ pc[w] \in Labels /\ pc[w] # Home(w)
  BY OwnHome
<1>3. Awaits(w, "same_b") \/ Awaits(w, "same_retry")
  BY <1>1, <1>2 DEF Calls, SameRuns, SameLabels, FindLabels
<1>4. \A k \in FindBacks \cup ListLabels \cup {"mark_dead"} : \A l : Awaits(w, k) /\ Awaits(w, l) => k = l
  BY <1>1, AwaitsOne
<1>5. /\ Root' = Root /\ loc' = loc /\ path[w][1] \in Slot
      /\ \/ /\ pc'[w] \in FindLabels /\ path'[w][1] = path[w][1]
            /\ \A l : Awaits(w, l)' <=> Awaits(w, l)
            /\ pc'[w] = "compress" => \/ pc[w] = "compress" /\ ret'[w].node = ret[w].node
                                      \/ pc[w] = "find" /\ ret'[w].node = Root[path[w][1]]
         \/ /\ Ended(w) /\ pc'[w] \notin FindLabels
            /\ Root[ret'[w].node] = Root[path[w][1]]
            /\ \/ pc[w] = "compress" /\ ret'[w].node = ret[w].node
               \/ pc[w] = "find" /\ ret'[w].node = Root[path[w][1]]
  BY FindGoes
<1>6. pc'[w] \in FindLabels \/ (pc'[w] \in SameLabels \ {"same_a"} /\ Awaits(w, pc'[w]))
  BY <1>3, <1>4, <1>5 DEF Ended, FindBacks, ListLabels, SameLabels
<1>7. SameRuns(w)'
  BY <1>3, <1>5, <1>6 DEF SameRuns
<1>8. ASSUME Differs(w)', ~Differs(w) PROVE Root[tls[w].w] # Root[tls[w].v]
  <2>1. Home(w) = "found" /\ SameFacts(w)
    BY <1>2, <1>8, SameFactsKnown DEF Differs
  <2>2. /\ Awaits(w, "same_b") /\ ret'[w].node < loc[w].same.a
        /\ \/ pc[w] = "compress" /\ ret'[w].node = ret[w].node
           \/ pc[w] = "find" /\ ret'[w].node = Root[path[w][1]]
    BY <1>3, <1>4, <1>5, <1>6, <1>8 DEF Differs, FindLabels, SameLabels
  <2>3. pc[w] = "find" /\ ret'[w].node = Root[path[w][1]]
    BY <1>8, <2>1, <2>2 DEF Differs
  <2>4. Root[path[w][1]] < loc[w].same.a /\ Root[path[w][1]] = Root[tls[w].v] /\ Root[loc[w].same.a] = Root[tls[w].w]
    BY <2>1, <2>2, <2>3 DEF SameFacts
  <2>5. loc[w].same.a \in Slot
    BY <1>1, LocalsTyped
  <2>6. loc[w].same.a <= Root[loc[w].same.a] /\ Root[loc[w].same.a] \in Int /\ Root[path[w][1]] \in Int /\ loc[w].same.a \in Int
    BY <1>1, <1>5, <2>5, RootFacts, SlotZero
  <2>. QED
    BY <2>4, <2>6
<1>. QED
  BY <1>7, <1>8

\* The same for its own steps.
LEMMA SameStep ==
  ASSUME Search, NEW w \in Worker, UFStep(w), UNCHANGED <<G, tls>>, Home(w) \in SameHomes, pc[w] \in SameLabels
  PROVE  /\ SameRuns(w)'
         /\ Differs(w)' => Differs(w) \/ Root[tls[w].w] # Root[tls[w].v]
<1> DEFINE a == loc[w].same.a
           b == loc[w].same.b
           f == ret[w].node
<1>1. SetsInv(Callers) /\ OwnTyped /\ LocTyped /\ UfTyped /\ ParentIncreasing /\ Calls(w) /\ loc \in [Worker -> Locals]
  BY SearchBase DEF LocTyped
<1>2. Home(w)' = Home(w) /\ pc[w] \in Labels /\ pc[w] # Home(w)
  BY OwnHome
<1>3. pc[w] \notin FindLabels \cup PickLabels
  BY DEF SameLabels, FindLabels, PickLabels
<1>4. a \in Slot /\ b \in Slot /\ f \in Slot /\ a \in Int /\ b \in Int /\ f \in Int
  BY <1>1, LocalsTyped, PlaceTyped, SlotZero
<1>5. ASSUME NEW code \in Verdicts, Return(w, code, 0)
      PROVE  pc'[w] = Home(w)' /\ ret'[w].code = code /\ SameRuns(w)'
  BY <1>3, <1>5, StepReturns DEF SameRuns
<1>6. ASSUME NEW s \in Slot, NEW l \in {"same_b", "same_retry"}, CallFind(w, s, <<l>>)
      PROVE  SameRuns(w)' /\ ~Differs(w)'
  <2>1. pc'[w] = "find" /\ Awaits(w, l)'
    BY <1>3, <1>6, StepMoves DEF FindBacks
  <2>. QED
    BY <2>1 DEF SameRuns, Differs, FindLabels
<1>7. Home(w)' \notin {"same_b", "same_a", "compress", "same_retry"}
  BY <1>2 DEF SameHomes
<1>8. SameRuns(w)
  BY <1>1 DEF Calls
<1>9. ASSUME Return(w, "same", 0)
      PROVE  SameRuns(w)' /\ ~Differs(w)'
  BY <1>2, <1>5, <1>9 DEF Verdicts, Differs, SameHomes
<1>10. CASE SameB(w)
  <2>1. pc[w] = "same_b"
    BY <1>10 DEF SameB
  <2>2. CASE f < a /\ Return(w, "different", 0)
    <3>1. SameRuns(w)' /\ Home(w)' = Home(w)
      BY <1>2, <1>5, <2>2 DEF Verdicts
    <3>2. Home(w) = "found" => Differs(w)
      BY <2>1, <2>2 DEF Differs
    <3>. QED
      BY <3>1, <3>2 DEF Differs
  <2>3. CASE /\ a < f \/ (f < a /\ uf[f].parent # 0)
             /\ loc' = [loc EXCEPT ![w].same.b = f] /\ Resume(w, "same_a")
    <3>1. pc'[w] = "same_a"
      BY <1>3, <2>3, StepMoves DEF Labels, FindLabels
    <3>2. loc'[w].same.a = a /\ loc'[w].same.b = f
      BY <1>1, <2>3 DEF Locals, Sames
    <3>3. SameRuns(w)'
      BY <1>4, <2>3, <3>1, <3>2 DEF SameRuns, SameLabels
    <3>4. Differs(w)' => Differs(w)
      BY <1>2, <2>1, <3>1, <3>2 DEF Differs
    <3>. QED
      BY <3>3, <3>4
  <2>. QED
    BY <1>9, <1>10, <2>2, <2>3 DEF SameB, SameReturn
<1>11. CASE SameA(w)
  <2>1. pc[w] = "same_a"
    BY <1>11 DEF SameA
  <2>2. CASE uf[a].parent = 0 /\ Return(w, "different", 0)
    <3>1. SameRuns(w)' /\ Home(w)' = Home(w)
      BY <1>2, <1>5, <2>2 DEF Verdicts
    <3>2. ASSUME Home(w) = "found", ~Differs(w) PROVE Root[tls[w].w] # Root[tls[w].v]
      <4>1. SameFacts(w) /\ a # b /\ ~(b < a)
        BY <1>2, <1>8, <2>1, <3>2, SameFactsKnown DEF SameRuns, Differs, FindLabels
      <4>2. Root[a] = a /\ b <= Root[b] /\ Root[b] \in Int
        BY <1>1, <1>4, <2>2, RootFacts, SlotZero
      <4>3. Root[a] # Root[b]
        BY <1>4, <4>1, <4>2
      <4>. QED
        BY <2>1, <4>1, <4>3 DEF SameFacts
    <3>. QED
      BY <3>1, <3>2 DEF Differs
  <2>. QED
    BY <1>4, <1>6, <1>11, <2>2 DEF SameA, SameReturn
<1>12. CASE SameRetry(w)
  <2>1. CASE CallFind(w, b, <<"same_b">>)
    BY <1>4, <1>6, <2>1
  <2>. QED
    BY <1>9, <1>12, <2>1 DEF SameRetry, SameReturn
<1>. QED
  BY <1>10, <1>11, <1>12, StepIs

\* The conjuncts of Calls for sameset
LEMMA OwnSame ==
  ASSUME Search, NEW w \in Worker, UFStep(w), UNCHANGED <<G, tls>>, Home(w) \in SameHomes
  PROVE  SameRuns(w)' /\ (Differs(w)' => TwoRoots(w, tls[w].roots)')
<1>1. SetsInv(Callers) /\ OwnTyped /\ Calls(w)
  BY SearchBase
<1>2. Home(w)' = Home(w) /\ pc[w] \in Labels /\ pc[w] # Home(w)
  BY OwnHome
<1>3. pc[w] \in SameLabels \cup FindLabels
  BY <1>1, <1>2 DEF Calls, SameRuns
<1>4. SameRuns(w)' /\ (Differs(w)' => Differs(w) \/ Root[tls[w].w] # Root[tls[w].v])
  BY <1>3, SameFind, SameStep
<1>5. ASSUME Differs(w)' PROVE TwoRoots(w, tls[w].roots)'
  <2>1. TwoRoots(w, tls[w].roots)
    <3>1. Home(w) = "found"
      BY <1>2, <1>5 DEF Differs
    <3>. QED
      BY <1>1, <1>4, <1>5, <3>1, NewTwoRoots DEF Calls
  <2>2. PICK r \in Seq(Slot) : r = tls[w].roots
    BY <1>1, TlsTyped
  <2>3. Grows /\ tls'[w] = tls[w]
    BY StepSets
  <2>4. TwoRoots(w, r)'
    BY <1>1, <2>1, <2>2, <2>3, TwoRootsGrow
  <2>. QED
    BY <2>2, <2>3, <2>4
<1>. QED
  BY <1>4, <1>5

\* A return from pick_from_list to line 567
LEMMA PickBacks ==
  ASSUME Search, NEW w \in Worker, UFStep(w), pc[w] \in PickLabels, \A l \in ListLabels : ~Awaits(w, l),
         NEW code, NEW node, Return(w, code, node)
  PROVE  pc'[w] = Home(w)' /\ ret'[w].code = code /\ ret'[w].node = node
<1>1. SetsInv(Callers) /\ Outside(Callers)
  BY SearchBase DEF SetsInv
<1>2. InCall(w, Callers)'
  BY OwnHome
<1>3. ret'[w].code = code /\ ret'[w].node = node /\ pc'[w] \in Callers
  BY <1>1, PickMoves
<1>4. stack'[w] = <<>>
  BY <1>1, <1>2, <1>3, LabelSets DEF InCall, Outside
<1>. QED
  BY <1>3, <1>4 DEF Home

\* What pick_from_list returns is right for the search.
LEMMA PickReturns ==
  ASSUME Search, NEW w \in Worker, UFStep(w), UNCHANGED <<G, tls>>, Home(w) = "explore", pc[w] \in PickLabels,
         \A l \in ListLabels : ~Awaits(w, l), Root' = Root, OnTrail(w)
  PROVE  /\ \A node \in Slot :
              /\ PickReturn(w, "PICK_SUCCESS", node) /\ uf[node].list_status = LIVE
              /\ Root[node] = Root[tls[w].v]
              => PickKnown(w)'
         /\ \A code \in {"PICK_DEAD", "PICK_MARK_DEAD"} :
              PickReturn(w, code, 0) /\ Dead(tls[w].v)' => PickKnown(w)'
<1>1. SetsInv(Callers) /\ OwnTyped /\ uf[0] = uf_node
  BY SearchBase
<1>2. Home(w)' = "explore" /\ Grows
  BY OwnHome, StepSets
<1>3. tls[w].v \in Node
  BY DEF OnTrail
<1>4. ASSUME NEW node \in Slot, PickReturn(w, "PICK_SUCCESS", node), uf[node].list_status = LIVE,
             Root[node] = Root[tls[w].v]
      PROVE  PickKnown(w)'
  <2> DEFINE code == "PICK_SUCCESS"
  <2>1. Return(w, code, node)
    BY <1>4 DEF PickReturn
  <2> HIDE DEF code
  <2>2. pc'[w] = "explore" /\ ret'[w].code = code /\ ret'[w].node = node
    BY <1>2, <2>1, PickBacks
  <2>3. node \in Node
    BY <1>1, <1>3, <1>4, NodeClass
  <2>4. Marked(w, Depth(w), {})
    <3>1. SUFFICES ASSUME Dead(tls[w].v) PROVE FALSE
      BY DEF OnTrail
    <3>2. Dead(node)
      BY <1>4, <3>1 DEF Dead
    <3>3. Explored(node)
      BY <2>3, <3>2, DeadNodeExplored
    <3>. QED
      BY <1>4, <3>3 DEF Explored, LIVE, TOMB
  <2>5. Depth(w)' = Depth(w)
    BY DEF Depth
  <2>6. Marked(w, Depth(w), {})'
    BY <1>2, <2>4, <2>5, MarkedKept
  <2>. QED
    BY <1>4, <2>2, <2>3, <2>6 DEF PickKnown, code
<1>5. ASSUME NEW code \in {"PICK_DEAD", "PICK_MARK_DEAD"}, PickReturn(w, code, 0), Dead(tls[w].v)'
      PROVE  PickKnown(w)'
  <2>1. Return(w, code, 0)
    BY <1>5 DEF PickReturn
  <2>2. pc'[w] = "explore" /\ ret'[w].code = code
    BY <1>2, <2>1, PickBacks
  <2>. QED
    BY <1>5, <2>2 DEF PickKnown
<1>. QED
  BY <1>4, <1>5

\* The call at line 567
LEMMA OwnPickKnown ==
  ASSUME Search, NEW w \in Worker, UFStep(w), UNCHANGED <<G, tls>>, Home(w) = "explore"
  PROVE  PickKnown(w)'
<1> DEFINE a == loc[w].pick.a
           b == loc[w].pick.b
           f == ret[w].node
           v == tls[w].v
<1>1. /\ SetsInv(Callers) /\ OwnTyped /\ LocTyped /\ UfTyped /\ ParentIncreasing /\ HomeInv
      /\ Calls(w) /\ Stands(w) /\ loc \in [Worker -> Locals]
  BY SearchBase DEF LocTyped
<1>2. Home(w)' = "explore" /\ pc[w] \in Labels
  BY OwnHome
<1>3. pc[w] # "explore"
  BY OwnHome
<1>4. Picking(w) /\ (\A l \in ListLabels : ~Awaits(w, l)) /\ Root[a] = Root[v]
  BY <1>1, <1>3 DEF Calls, PickKnown
<1>5. OnTrail(w)
  BY <1>1 DEF Stands, Searching
<1>6. Root' = Root
  <2>1. ~SetParent(w)
    <3>1. SetParent(w) => pc[w] = "set_parent"
      BY DEF SetParent
    <3>2. pc[w] = "set_parent" => ~Picking(w)
      BY <1>1, AwaitsOne DEF Picking, PickLabels, FindLabels, ListLabels
    <3>. QED
      BY <1>4, <3>1, <3>2
  <2>. QED
    BY <2>1, DeadTo
<1>7. PickHome(w)
  BY <1>1 DEF HomeInv
<1>8. ASSUME pc'[w] \in PickLabels \/ Awaits(w, "mark_dead")', \A l \in ListLabels : ~Awaits(w, l)',
             Root[loc'[w].pick.a] = Root[a]
      PROVE  PickKnown(w)'
  BY <1>4, <1>6, <1>8 DEF PickKnown, Picking
<1>9. CASE pc[w] \in FindLabels
  <2>1. Awaits(w, "mark_dead")
    BY <1>1, <1>4, <1>9, LabelSets DEF Picking
  <2>2. \A l : Awaits(w, l) => l = "mark_dead"
    BY <1>1, <2>1, AwaitsOne
  <2>3. /\ loc' = loc
        /\ \/ \A l : Awaits(w, l)' <=> Awaits(w, l)
           \/ Ended(w)
    BY <1>9, FindGoes
  <2>4. "mark_dead" \notin ListLabels /\ "mark_dead" \in PickLabels
    BY DEF ListLabels, PickLabels
  <2>5. CASE \A l : Awaits(w, l)' <=> Awaits(w, l)
    BY <1>4, <1>8, <2>1, <2>3, <2>5
  <2>6. CASE Ended(w)
    <3>1. pc'[w] = "mark_dead" /\ \A l : ~Awaits(w, l)'
      BY <1>4, <2>1, <2>2, <2>6 DEF Ended
    <3>. QED
      BY <1>8, <2>3, <2>4, <3>1
  <2>. QED
    BY <2>3, <2>5, <2>6
<1>10. CASE pc[w] \in PickLabels
  <2>1. a \in Slot /\ b \in Slot
    BY <1>1, LocalsTyped
  <2>2. ASSUME NEW label \in PickLabels, Goto(w, label), Root[loc'[w].pick.a] = Root[a]
        PROVE  PickKnown(w)'
    BY <1>1, <1>4, <1>8, <1>10, <2>2, PickMoves
  <2>3. \A node \in Slot :
              /\ PickReturn(w, "PICK_SUCCESS", node) /\ uf[node].list_status = LIVE
              /\ Root[node] = Root[v]
              => PickKnown(w)'
    BY <1>4, <1>5, <1>6, <1>10, PickReturns
  <2>4. \A code \in {"PICK_DEAD", "PICK_MARK_DEAD"} :
          PickReturn(w, code, 0) /\ Dead(v)' => PickKnown(w)'
    BY <1>4, <1>5, <1>6, <1>10, PickReturns
  <2>5. CASE PickA(w)
    BY <1>4, <2>1, <2>2, <2>3, <2>5 DEF PickA, PickLabels
  <2>6. CASE PickNext(w)
    <3>1. CASE CallFind(w, a, <<"mark_dead">>) /\ UNCHANGED loc
      <4>1. pc'[w] = "find" /\ \A l \in ListLabels : Awaits(w, l)' <=> Awaits(w, l)
        BY <1>1, <1>10, <3>1, PickMoves
      <4>2. Awaits(w, "mark_dead")'
        <5>1. PICK c \in Callers : stack[w] = <<c>>
          BY <1>1, <1>4, <1>10, PickStack DEF SetsInv, Knows, Awaits
        <5>2. stack'[w] = <<c, "mark_dead">>
          BY <1>1, <3>1, <5>1, PushTwo DEF CallFind, Call, SetsInv, Typed, ControlTyped
        <5>. QED
          BY <5>2 DEF Awaits
      <4>. QED
        BY <1>4, <1>8, <3>1, <4>1, <4>2
    <3>2. CASE loc' = [loc EXCEPT ![w].pick.b = uf[a].list_next] /\ Goto(w, "pick_b")
      <4>1. loc'[w].pick.a = a
        BY <1>1, <3>2 DEF Locals, Picks
      <4>. QED
        BY <2>2, <3>2, <4>1 DEF PickLabels
    <3>. QED
      BY <2>6, <3>1, <3>2 DEF PickNext
  <2>7. CASE PickB(w)
    <3>1. pc[w] = "pick_b" /\ Root[b] = Root[v]
      BY <1>4, <1>7, <2>7 DEF PickB, PickHome, PickBLabels
    <3>. QED
      BY <2>1, <2>2, <2>3, <2>7, <3>1 DEF PickB, PickLabels
  <2>8. CASE PickC(w)
    <3>1. loc'[w].pick.a = a /\ Goto(w, "pick_compare")
      BY <1>1, <2>8 DEF PickC, Locals, Picks
    <3>. QED
      BY <2>2, <3>1 DEF PickLabels
  <2>9. ASSUME ContinueFromC(w), pc[w] \in PickCLabels PROVE PickKnown(w)'
    <3>1. Root[loc[w].pick.c] = Root[a]
      BY <1>7, <2>9 DEF PickHome
    <3>2. loc'[w].pick.a = loc[w].pick.c /\ Goto(w, "pick_a")
      BY <1>1, <2>9 DEF ContinueFromC, Locals, NoPick
    <3>. QED
      BY <2>2, <3>1, <3>2 DEF PickLabels
  <2>10. CASE PickCompare(w)
    BY <2>2, <2>9, <2>10 DEF PickCompare, PickLabels, PickCLabels
  <2>11. CASE PickWrite(w)
    BY <2>9, <2>11 DEF PickWrite, PickCLabels
  <2>12. CASE MarkDead(w)
    <3>1. pc[w] = "mark_dead"
      BY <2>12 DEF MarkDead
    <3>2. f \in Node /\ Root[f] = f /\ Root[a] = f
      BY <1>4, <3>1, MarkedExplored
    <3>3. uf'[f].uf_status = DEAD
      <4>1. f \in Slot
        BY <3>2 DEF Node, Slot
      <4>. QED
        BY <1>1, <2>12, <4>1 DEF MarkDead, UfTyped, Entry
    <3>5. PickReturn(w, "PICK_DEAD", 0) \/ PickReturn(w, "PICK_MARK_DEAD", 0)
      BY <2>12 DEF MarkDead
    <3>4. Dead(v)'
      BY <1>4, <1>6, <3>2, <3>3 DEF Dead
    <3>. QED
      BY <2>4, <3>4, <3>5
  <2>. QED
    BY <1>10, <2>5, <2>6, <2>7, <2>8, <2>10, <2>11, <2>12, StepIs
<1>. QED
  BY <1>1, <1>4, <1>9, <1>10, AwaitsOne, LabelSets DEF Picking

\* The call at line 640
LEMMA OwnRemove ==
  ASSUME Search, NEW w \in Worker, UFStep(w), UNCHANGED <<G, tls>>, Home(w) = "enter"
  PROVE  RemoveKnown(w)'
<1>1. SetsInv(Callers) /\ OwnTyped /\ Calls(w)
  BY SearchBase
<1>2. Home(w)' = "enter" /\ pc[w] # "enter" /\ Grows
  BY OwnHome, StepSets
<1>3. /\ pc[w] \in {"remove", "remove_color"} /\ loc[w].pick.a \in Node
      /\ \A n \in Succ(loc[w].pick.a) : EdgeDone(loc[w].pick.a, n)
  BY <1>1, <1>2 DEF Calls, RemoveKnown
<1>4. pc[w] \notin FindLabels \cup PickLabels
  BY <1>3 DEF FindLabels, PickLabels
<1>5. ASSUME Goto(w, "remove_color"), loc' = loc
      PROVE  RemoveKnown(w)'
  <2>1. pc'[w] = "remove_color"
    BY <1>4, <1>5, StepMoves DEF Labels, FindLabels
  <2>2. PICK a \in Node : a = loc[w].pick.a
    BY <1>3
  <2>3. \A n \in Succ(a)' : EdgeDone(a, n)'
    BY <1>1, <1>2, <1>3, <2>2, RemoveGrows
  <2>. QED
    BY <1>5, <2>1, <2>2, <2>3 DEF RemoveKnown
<1>6. ASSUME PickReturn(w, "removed", 0)
      PROVE  RemoveKnown(w)'
  <2> DEFINE code == "removed"
  <2>1. Return(w, code, 0)
    BY <1>6 DEF PickReturn
  <2> HIDE DEF code
  <2>2. pc'[w] = "enter"
    BY <1>2, <1>4, <2>1, StepReturns
  <2>. QED
    BY <2>2 DEF RemoveKnown
<1>7. Remove(w) \/ RemoveColor(w)
  BY <1>3, StepIs DEF RemoveLabels
<1>. QED
  BY <1>5, <1>6, <1>7 DEF Remove, RemoveColor

\* The calls at lines 620 and 715
LEMMA OwnFindKnown ==
  ASSUME Search, NEW w \in Worker, UFStep(w), UNCHANGED <<G, tls>>, NEW n, FindKnown(w, n)
  PROVE  FindKnown(w, n)'
<1>1. pc[w] # Home(w)
  BY OwnHome
<1>2. pc[w] \in FindLabels /\ (\A l : ~Awaits(w, l)) /\ Root[path[w][1]] = Root[n]
  BY <1>1 DEF FindKnown
<1>3. /\ Root' = Root
      /\ \/ /\ pc'[w] \in FindLabels /\ path'[w][1] = path[w][1]
            /\ \A l : Awaits(w, l)' <=> Awaits(w, l)
         \/ Ended(w) /\ Root[ret'[w].node] = Root[path[w][1]]
  BY <1>2, FindGoes
<1>4. CASE /\ pc'[w] \in FindLabels /\ path'[w][1] = path[w][1]
           /\ \A l : Awaits(w, l)' <=> Awaits(w, l)
  BY <1>2, <1>3, <1>4 DEF FindKnown
<1>5. CASE Ended(w) /\ Root[ret'[w].node] = Root[path[w][1]]
  BY <1>2, <1>3, <1>5 DEF FindKnown, Ended
<1>. QED
  BY <1>3, <1>4, <1>5

\* When pick_from_list returns to lock_list, there is an entry to lock: the set
\* is not completed while the other set of the union is not united with it.
LEMMA OwnListCodes ==
  ASSUME Search, NEW w \in Worker, UFStep(w), UNCHANGED <<G, tls>>, Busy(w), pc'[w] \in ListLabels
  PROVE  ret'[w].code = "PICK_SUCCESS"
<1> DEFINE a == loc[w].unite.a
           b == loc[w].unite.b
           q == loc[w].unite.q
           r == loc[w].unite.r
<1>1. /\ SetsInv(Callers) /\ HomeInv /\ OwnTyped /\ LocTyped /\ UfTyped /\ ParentIncreasing /\ Calls(w)
      /\ loc \in [Worker -> Locals]
  BY SearchBase DEF LocTyped
<1>2. Home(w)' = Home(w) /\ pc[w] \in Labels
  BY OwnHome
<1>3. Home(w) = "united" /\ UniteKnown(w) /\ pc[w] # "united"
  BY <1>1, BusyRuns
<1>4. a \in Node /\ b \in Node /\ Mutual(a, b)
  BY <1>3 DEF UniteKnown
<1>5. q \in Slot /\ r \in Slot
  BY <1>1, LocalsTyped
<1>6. ListLabels \cap (FindLabels \cup PickLabels \cup {"united"}) = {}
  BY DEF ListLabels, FindLabels, PickLabels
<1>7. CASE pc[w] \in FindLabels
  <2>1. FindRead(w) \/ FindCompress(w)
    BY <1>7, StepIs
  <2>2. ~Picking(w)
    BY <1>1, <1>6, <2>1, OwnMarks DEF PickLabels
  <2>3. Ended(w)
    BY <1>6, <1>7, FindGoes
  <2>4. pc'[w] # Home(w)' /\ pc'[w] # "mark_dead"
    BY <1>2, <1>3 DEF ListLabels
  <2>5. Awaits(w, pc'[w])
    BY <2>3, <2>4 DEF Ended
  <2>. QED
    BY <2>2, <2>5 DEF Picking
<1>8. CASE pc[w] \in PickLabels
  <2>1. ASSUME NEW label \in PickLabels, Goto(w, label) PROVE FALSE
    BY <1>1, <1>6, <1>8, <2>1, PickMoves
  <2>2. ASSUME CallFind(w, loc[w].pick.a, <<"mark_dead">>) PROVE FALSE
    <3>1. pc'[w] = "find"
      BY <1>1, <1>8, <2>2, PickMoves
    <3>. QED
      BY <3>1 DEF ListLabels
  <2>3. ASSUME NEW node, PickReturn(w, "PICK_SUCCESS", node) PROVE ret'[w].code = "PICK_SUCCESS"
    <3> DEFINE code == "PICK_SUCCESS"
    <3>1. Return(w, code, node)
      BY <2>3 DEF PickReturn
    <3> HIDE DEF code
    <3>2. ret'[w].code = code
      BY <1>1, <1>8, <3>1, PickMoves
    <3>. QED
      BY <3>2 DEF code
  <2>4. ASSUME MarkDead(w) PROVE FALSE
    <3> DEFINE f == ret[w].node
    <3>1. pc[w] = "mark_dead"
      BY <2>4 DEF MarkDead
    <3>2. f \in Node /\ Root[f] = f /\ Root[loc[w].pick.a] = f
      BY <1>8, <3>1, MarkedExplored DEF Picking
    <3>3. \E l \in ListLabels : Awaits(w, l)
      <4>1. PICK code \in {"PICK_DEAD", "PICK_MARK_DEAD"} : Return(w, code, 0)
        BY <2>4 DEF MarkDead, PickReturn
      <4>2. Outside(Callers) /\ ListLabels \subseteq Labels
        BY <1>1, LabelSets DEF SetsInv
      <4>3. pc'[w] \notin Callers
        BY <4>2 DEF Outside
      <4>. QED
        BY <1>1, <1>8, <4>1, <4>3, PickMoves
    <3>4. Root[loc[w].pick.a] \in {Root[a], Root[b]}
      BY <1>1, <3>3 DEF HomeInv, PickHome, ListLabels
    <3>5. uf'[f].uf_status = DEAD
      <4>1. f \in Slot
        BY <3>2 DEF Node, Slot
      <4>. QED
        BY <1>1, <2>4, <4>1 DEF MarkDead, UfTyped, Entry
    <3>6. Root' = Root /\ SetsRight'
      <4>1. ~SetParent(w)
        BY <3>1 DEF SetParent
      <4>. QED
        BY <4>1, DeadTo, StepSets
    <3>7. PICK x, y \in Node : x = a /\ y = b
      BY <1>4
    <3>8. Dead(x)' \/ Dead(y)'
      BY <3>2, <3>4, <3>5, <3>6, <3>7 DEF Dead
    <3>13. Mutual(x, y)' /\ Mutual(y, x)'
      <4>1. Mutual(x, y) /\ Mutual(y, x)
        BY <1>4, <3>7 DEF Mutual
      <4>. QED
        BY <4>1, SuccSame
    <3>9. Root[a] = Root[b]
      BY <3>6, <3>7, <3>8, <3>13 DEF SetsRight, Whole
    <3>10. UniteSets(w) /\ QRoot(w) /\ Region(w) /\ Linking(w)
      BY <1>1, <3>3 DEF SetsInv, Knows, Region, Linking
    <3>11. q < r /\ Root[q] = q /\ Root[q] = Root[r]
      BY <1>1, <1>5, <3>9, <3>10, RootFacts DEF UniteSets, QRoot
    <3>12. r <= Root[r]
      BY <1>1, <1>5, RootFacts
    <3>14. r <= q
      BY <3>11, <3>12
    <3>15. q \in Int /\ r \in Int
      BY <1>5, SlotZero
    <3>. QED
      BY <3>11, <3>14, <3>15
  <2>. QED
    BY <1>8, <2>1, <2>2, <2>3, <2>4, StepIs DEF PickA, PickNext, PickB, PickC, PickCompare, PickWrite, ContinueFromC, PickLabels
<1>9. CASE pc[w] \notin FindLabels \cup PickLabels
  <2>1. ASSUME NEW label \in Labels \ (FindLabels \cup ListLabels), Goto(w, label) \/ Resume(w, label) PROVE FALSE
    BY <1>9, <2>1, StepMoves
  <2>2. ASSUME NEW s \in Slot, NEW l \in FindBacks, CallFind(w, s, <<l>>) PROVE FALSE
    <3>1. pc'[w] = "find"
      BY <1>9, <2>2, StepMoves
    <3>. QED
      BY <3>1 DEF ListLabels
  <2>3. ASSUME UniteReturn(w) PROVE FALSE
    <3> DEFINE code == "united"
    <3>1. Return(w, code, 0)
      BY <2>3 DEF UniteReturn
    <3> HIDE DEF code
    <3>2. pc'[w] = Home(w)
      BY <1>9, <3>1, StepReturns
    <3>. QED
      BY <1>3, <3>2 DEF ListLabels
  <2>4. ASSUME UniteRetry(w) PROVE FALSE
    BY <1>4, <2>2, <2>4 DEF UniteRetry, FindBacks, Node, Slot
  <2>5. ASSUME NEW backs, Call(w, "pick_a", backs) PROVE FALSE
    BY <1>1, <2>5 DEF Call, ListLabels, SetsInv, Typed, ControlTyped
  <2>6. /\ pc[w] \in RegionLabels \cup {"unite_a", "unite_b"}
        /\ loc[w].unite.up \in Slot
    BY <1>1, <1>9, AwaitsOne, LocalsTyped DEF Busy, Region, FindBacks
  <2>7. pc[w] \notin ClaimLabels \cup SameLabels \cup RemoveLabels
    BY <2>6 DEF RegionLabels, ClaimLabels, SameLabels, RemoveLabels
  <2>8. CASE UniteFindB(w) \/ UniteRoots(w) \/ LockUf(w) \/ LockUfCheck(w) \/ LockUfUndo(w)
    BY <1>4, <2>1, <2>2, <2>3, <2>4, <2>5, <2>8
    DEF UniteFindB, UniteRoots, LockUf, LockUfCheck, LockUfUndo, CallPick, Labels, FindLabels, ListLabels, FindBacks, Node, Slot
  <2>9. CASE LockListA(w) \/ LockListB(w) \/ SwapLists(w) \/ SetParent(w)
    BY <2>1, <2>3, <2>5, <2>9
    DEF LockListA, LockListB, SwapLists, SetParent, CallPick, Labels, FindLabels, ListLabels
  <2>10. CASE \/ ReadQw(w) \/ CompareRw(w) \/ AddQw(w) \/ CheckR(w) \/ FoundR(w)
              \/ UnlockListA(w) \/ UnlockListB(w) \/ UnlockUf(w)
    BY <2>1, <2>2, <2>3, <2>6, <2>10
    DEF ReadQw, CompareRw, AddQw, CheckR, FoundR, UnlockListA, UnlockListB, UnlockUf, Labels, FindLabels, ListLabels, FindBacks
  <2>11. \/ UniteFindB(w) \/ UniteRoots(w) \/ LockUf(w) \/ LockUfCheck(w) \/ LockUfUndo(w)
         \/ LockListA(w) \/ LockListB(w) \/ SwapLists(w) \/ SetParent(w)
         \/ ReadQw(w) \/ CompareRw(w) \/ AddQw(w) \/ CheckR(w) \/ FoundR(w)
         \/ UnlockListA(w) \/ UnlockListB(w) \/ UnlockUf(w)
    BY <1>9, <2>7 DEF UFStep, FindRead, FindCompress, ClaimDead, ClaimFound, ClaimOr, ClaimCheck, SameB, SameA, SameRetry,
       PickA, PickNext, PickB, PickC, PickCompare, PickWrite, MarkDead, Remove, RemoveColor,
       FindLabels, PickLabels, ClaimLabels, SameLabels, RemoveLabels
  <2>. QED
    BY <2>8, <2>9, <2>10, <2>11
<1>. QED
  BY <1>7, <1>8, <1>9

AddsRight(w) ==
  LET u == loc[w].unite
  IN  Adding(w) => /\ u.qw \subseteq uf[u.q].workers
                   /\ pc[w] # "compare_rw" => Root[u.up] = Root[u.q]

\* Lines 351-358: the workers of q are added to a state of its set.
LEMMA OwnAdds ==
  ASSUME Search, NEW w \in Worker, UFStep(w), UNCHANGED <<G, tls>>, Busy(w), Adding(w)'
  PROVE  AddsRight(w)'
<1> DEFINE u == loc[w].unite
           v == loc'[w].unite
<1>1. /\ SetsInv(Callers) /\ OwnTyped /\ LocTyped /\ UfTyped /\ Calls(w) /\ loc \in [Worker -> Locals]
      /\ InCall(w, Callers) /\ Typed(Callers) /\ Outside(Callers)
  BY SearchBase DEF LocTyped, SetsInv, Knows
<1>2. Grows
  BY StepSets
<1>3. u \in Unites /\ u.q \in Slot /\ u.r \in Slot /\ u.up \in Slot
  BY <1>1, LocalsTyped
<1>4. UniteKnown(w) /\ pc[w] # "united"
  BY <1>1, BusyRuns
<1>5. AddsRight(w)
  BY <1>4 DEF UniteKnown, AddsRight
<1>6. ASSUME Adding(w), Root' = Root, v.qw = u.qw, v.q = u.q, v.up = u.up, pc[w] # "compare_rw"
      PROVE  AddsRight(w)'
  <2>1. u.qw \subseteq uf[u.q].workers /\ Root[u.up] = Root[u.q]
    BY <1>5, <1>6 DEF AddsRight
  <2>2. uf[u.q].workers \subseteq uf'[u.q].workers
    BY <1>2, <1>3 DEF Grows
  <2>. QED
    BY <1>6, <2>1, <2>2 DEF AddsRight
<1>7. Carrying(w)'
  BY DEF Adding, AddingLabels, Carrying, CarryLabels
<1>8. pc[w] \notin {"claim_or", "claim_check", "claim_again"}
  BY <1>1, AwaitsOne DEF Busy, Region, RegionLabels, FindBacks, FindLabels, PickLabels
<1>9. \/ FindRead(w) \/ FindCompress(w) \/ SetParent(w)
      \/ ReadQw(w) \/ CompareRw(w) \/ AddQw(w) \/ CheckR(w) \/ FoundR(w)
  <2>1. ~ClaimOr(w) /\ ~ClaimCheck(w)
    BY <1>8 DEF ClaimOr, ClaimCheck
  <2>. QED
    BY <1>1, <1>7, <2>1, NotCarrying
<1>10. ~SetParent(w) => Root' = Root
  BY DeadTo
<1>11. CASE FindRead(w) \/ FindCompress(w)
  <2>1. pc[w] \in FindLabels
    BY <1>11 DEF FindRead, FindCompress, FindLabels
  <2>2. /\ loc' = loc
        /\ \/ pc'[w] \in FindLabels /\ \A l : Awaits(w, l)' <=> Awaits(w, l)
           \/ Ended(w) /\ pc'[w] \notin FindLabels
    BY <2>1, FindGoes
  <2>3. Awaits(w, "found_r")
    <3>1. CASE pc'[w] \in FindLabels /\ \A l : Awaits(w, l)' <=> Awaits(w, l)
      BY <3>1 DEF Adding, AddingLabels, FindLabels
    <3>2. CASE Ended(w) /\ pc'[w] \notin FindLabels
      <4>1. Home(w)' \notin AddingLabels
        <5>1. Home(w)' = "united"
          BY <1>1, BusyRuns, OwnHome
        <5>. QED
          BY <5>1 DEF AddingLabels
      <4>2. pc'[w] # "mark_dead" \/ Awaits(w, "found_r")
        BY <3>2 DEF Adding, AddingLabels, Ended
      <4>3. \A l \in AddingLabels : Awaits(w, l) => l = "found_r"
        BY <1>1, <2>1 DEF InCall, Awaits, AddingLabels, FindBacks, FindLabels, ListLabels, PickLabels, Outside, Labels
      <4>. QED
        BY <3>2, <4>1, <4>2, <4>3 DEF Adding, Ended
    <3>. QED
      BY <2>2, <3>1, <3>2
  <2>4. Adding(w) /\ pc[w] # "compare_rw"
    BY <2>1, <2>3 DEF Adding, FindLabels
  <2>5. Root' = Root
    BY <1>10, <2>1 DEF SetParent, FindLabels
  <2>. QED
    BY <1>6, <2>2, <2>4, <2>5
<1>12. pc[w] \notin FindLabels \cup PickLabels \/ FindRead(w) \/ FindCompress(w)
  BY <1>9 DEF SetParent, ReadQw, CompareRw, AddQw, CheckR, FoundR, FindLabels, PickLabels
<1>13. ASSUME SetParent(w) PROVE FALSE
  <2>1. pc'[w] = "read_qw" /\ \A l : ~Awaits(w, l)'
    BY <1>12, <1>13, StepMoves DEF SetParent, Labels, FindLabels, FindRead, FindCompress
  <2>. QED
    BY <2>1 DEF Adding, AddingLabels
<1>14. CASE ReadQw(w)
  <2>1. pc'[w] = "compare_rw"
    BY <1>12, <1>14, StepMoves DEF ReadQw, Labels, FindLabels, FindRead, FindCompress
  <2>2. v.qw = uf[u.q].workers /\ v.q = u.q /\ uf' = uf
    BY <1>1, <1>14 DEF ReadQw, Locals, Unites
  <2>. QED
    BY <2>1, <2>2 DEF AddsRight
<1>15. CASE CompareRw(w)
  <2>1. v.qw = u.qw /\ v.q = u.q /\ v.up = u.r /\ uf' = uf
    BY <1>1, <1>15 DEF CompareRw, Locals, Unites
  <2>2. Joined(w) /\ Region(w) /\ UniteSets(w) /\ Adding(w) /\ ~SetParent(w)
    BY <1>1, <1>15 DEF CompareRw, Joined, JoinedLabels, Region, RegionLabels, SetsInv, Knows, Adding, AddingLabels, SetParent
  <2>3. Root[u.r] = Root[u.q]
    BY <2>2 DEF UniteSets
  <2>. QED
    BY <1>5, <1>10, <2>1, <2>2, <2>3 DEF AddsRight
<1>16. CASE AddQw(w) \/ CheckR(w)
  <2>1. pc[w] \in {"add_qw", "check_r"}
    BY <1>16 DEF AddQw, CheckR
  <2>2. Adding(w) /\ ~SetParent(w)
    BY <2>1 DEF Adding, AddingLabels, SetParent
  <2>3. v = u
    BY <1>16 DEF AddQw, CheckR
  <2>. QED
    BY <1>6, <1>10, <2>1, <2>2, <2>3
<1>17. CASE FoundR(w)
  <2>1. v.qw = u.qw /\ v.q = u.q /\ v.up = ret[w].node /\ uf' = uf /\ pc[w] = "found_r"
    BY <1>1, <1>17 DEF FoundR, Locals, Unites
  <2>2. Root[ret[w].node] = Root[u.up]
    BY <2>1 DEF Search, BitsInv, CarryFacts
  <2>3. Adding(w) /\ ~SetParent(w)
    BY <2>1 DEF Adding, AddingLabels, SetParent
  <2>. QED
    BY <1>5, <1>10, <2>1, <2>2, <2>3 DEF AddsRight
<1>. QED
  BY <1>9, <1>11, <1>13, <1>14, <1>15, <1>16, <1>17

\* The call at line 635
LEMMA OwnUniteKnown ==
  ASSUME Search, NEW w \in Worker, UFStep(w), UNCHANGED <<G, tls>>, Home(w) = "united"
  PROVE  UniteKnown(w)'
<1>1. SetsInv(Callers) /\ Calls(w) /\ Outside(Callers)
  BY SearchBase DEF SetsInv
<1>2. Home(w)' = "united" /\ pc[w] # "united"
  BY OwnHome
<1>3. Busy(w) /\ UniteKnown(w)
  BY <1>1, <1>2 DEF Calls, UniteKnown
<1>4. CASE Busy(w)' /\ loc'[w].unite.a = loc[w].unite.a /\ loc'[w].unite.b = loc[w].unite.b
  <2>1. PICK a, b \in Node : a = loc[w].unite.a /\ b = loc[w].unite.b
    BY <1>2, <1>3 DEF UniteKnown
  <2>2. Mutual(a, b)'
    BY <1>2, <1>3, <2>1, SuccSame DEF UniteKnown
  <2>3. pc'[w] \in ListLabels => ret'[w].code = "PICK_SUCCESS"
    BY <1>3, OwnListCodes
  <2>4. Adding(w)' => AddsRight(w)'
    BY <1>3, OwnAdds
  <2>. QED
    BY <1>4, <2>1, <2>2, <2>3, <2>4 DEF UniteKnown, AddsRight
<1>5. CASE pc'[w] \in Callers /\ stack'[w] = <<>>
  BY <1>2, <1>5 DEF Home, UniteKnown
<1>. QED
  BY <1>1, <1>3, <1>4, <1>5, UniteGoes

\* All that a worker knows in its calls after its own step.
LEMMA OwnCalls ==
  ASSUME Search, NWorkers <= WordBits, NEW w \in Worker, UFStep(w), UNCHANGED <<G, tls>>
  PROVE  Calls(w)'
<1>1. SetsInv(Callers) /\ Calls(w)
  BY SearchBase
<1>2. Home(w)' = Home(w) /\ pc[w] # Home(w)
  BY OwnHome
<1>3. Home(w) \in ClaimHomes => ClaimKnown(w)'
  <2>1. Home(w) \in ClaimHomes => pc[w] \in FindLabels \cup ClaimLabels
    BY <1>1, <1>2 DEF Calls, ClaimKnown, ClaimLabels
  <2>. QED
    BY <2>1, ClaimFind, ClaimStep
<1>4. Home(w) \in SameHomes => SameRuns(w)' /\ (Differs(w)' => TwoRoots(w, tls[w].roots)')
  BY OwnSame
<1>5. Differs(w)' => Home(w) \in SameHomes
  BY <1>2 DEF Differs, SameHomes
<1>6. /\ Home(w) = "explore" => PickKnown(w)'
      /\ Home(w) = "enter" => RemoveKnown(w)'
      /\ Home(w) = "united" => UniteKnown(w)'
  BY OwnPickKnown, OwnRemove, OwnUniteKnown
<1>7. PICK v, i : v = tls[w].v /\ i = tls[w].i
  OBVIOUS
<1>8. /\ Home(w) = "is_dead" => FindKnown(w, v)'
      /\ Home(w) = "collected" => FindKnown(w, i)'
  BY <1>1, <1>7, OwnFindKnown DEF Calls
<1>9. Home(w) \notin {"next", "edge", "backtrack", "join", "done", "collect", "end"}
  BY <1>1, <1>2 DEF Calls
<1>. QED
  BY <1>2, <1>3, <1>4, <1>5, <1>6, <1>7, <1>8, <1>9 DEF Calls

\* Every step of the union-find preserves Search.
LEMMA StepSearch ==
  ASSUME Search, NWorkers <= WordBits, NEW w \in Worker, UFStep(w), UNCHANGED <<G, tls, total, G_SCC>>
  PROVE  Search'
<1>1. SameKnown /\ SetsInv(Callers) /\ HomeInv /\ ListInv /\ BitsInv
  BY SearchBase DEF Search
<1>2. SameKnown'
  <2>1. Next
    BY DEF Next, Step
  <2>. QED
    BY <1>1, <2>1, NextSame
<1>3. BitsInv'
  BY <1>1, UFStepBits
<1>4. HomeInv' /\ ListInv'
  BY <1>1, UFStepRings
<1>5. SetsRight'
  BY StepSets
<1>6. \A t \in Worker : Stands(t)' /\ BitsHome(t)' /\ Calls(t)'
  <2>1. Stands(w)' /\ BitsHome(w)' /\ Calls(w)'
    BY OwnStands, OwnBits, OwnCalls
  <2>2. \A t \in Worker \ {w} : Stands(t)' /\ BitsHome(t)' /\ Calls(t)'
    BY OthersSearch
  <2>. QED
    BY <2>1, <2>2
<1>. QED
  BY <1>2, <1>3, <1>4, <1>5, <1>6 DEF Search, SearchInv

Own(t) == Stands(t) /\ BitsHome(t) /\ Calls(t)

\* Worker t outside the structure
LEMMA AtCaller ==
  ASSUME Search, NEW t \in Worker, pc[t] \in Callers
  PROVE  /\ stack[t] = <<>> /\ Home(t) = pc[t] /\ Class(t) = Root /\ ~Uniting(t)
         /\ (\A l : ~Awaits(t, l)) /\ pc[t] \notin Labels
<1>1. SetsInv(Callers) /\ Outside(Callers) /\ InCall(t, Callers)
  BY SearchBase DEF SetsInv, Knows
<1>2. stack[t] = <<>>
  BY <1>1, LabelSets DEF InCall, Outside
<1>3. Home(t) = pc[t]
  BY <1>2 DEF Home
<1>. QED
  BY <1>1, <1>2, <1>3 DEF Uniting, Class, Awaits, Outside

\* A step of the search itself changes nothing of the union-find.
LEMMA CallerFrame ==
  ASSUME Search, NEW t \in Worker, CallerStep(t, Callers), G' = G
  PROVE  /\ uf' = uf /\ Root' = Root /\ Grows /\ SetsRight' /\ \A x \in Worker : VisitsFrom(x)
         /\ pc[t] \in Callers
<1>1. SetsInv(Callers) /\ SetsRight
  BY SearchBase
<1>2. Typed(Callers)' /\ Upward' /\ Locked'
  BY <1>1, CallerStepKeeps DEF SetsInv
<1>3. uf' = uf /\ Root' = Root /\ pc[t] \in Callers
  BY <1>1, <1>2, CallerSets DEF CallerStep
<1>4. Grows
  BY <1>3 DEF Grows, Coarser, Dead
<1>5. SetsRight'
  <2>1. /\ \A m, n : Mutual(m, n)' <=> Mutual(m, n)
        /\ \A m : Succ(m)' = Succ(m)
    BY SuccSame
  <2>2. /\ \A n : Dead(n)' <=> Dead(n)
        /\ \A m, n : EdgeDone(m, n)' <=> EdgeDone(m, n)
        /\ \A n : Explored(n)' <=> Explored(n)
    BY <1>3 DEF Dead, EdgeDone, Explored
  <2>. QED
    BY <1>1, <1>3, <2>1, <2>2 DEF SetsRight, Sound, Whole, DeadClosed, TombClosed
<1>6. \A x \in Worker : VisitsFrom(x)
  BY <1>3 DEF VisitsFrom, Visited, w_id
<1>. QED
  BY <1>3, <1>4, <1>5, <1>6

\* Nor of what other workers know.
LEMMA CallerOthers ==
  ASSUME Search, NEW w \in Worker, CallerStep(w, Callers), G' = G, NEW t \in Worker \ {w}, tls'[t] = tls[t]
  PROVE  Own(t)'
<1>1. /\ SetsInv(Callers) /\ Typed(Callers) /\ Outside(Callers) /\ uf[0] = uf_node /\ LocTyped /\ OwnTyped
      /\ Stands(t) /\ BitsHome(t) /\ Calls(t) /\ InCall(w, Callers)
  BY SearchBase DEF SetsInv, Knows
<1>2. Grows /\ Coarser /\ VisitsFrom(t)
  BY CallerFrame DEF Grows
<1>3. Alone(w)
  BY <1>1, CallerMoves
<1>4. Still(t)
  BY <1>3 DEF Alone, OthersKept, Still
<1>5. Home(t)' = Home(t) /\ \A l : Awaits(t, l)' <=> Awaits(t, l)
  BY <1>4, StillHome
<1>6. Wider(t)
  <2>1. Uniting(t)' <=> Uniting(t)
    BY <1>4, <1>5 DEF Uniting, Still
  <2>. QED
    BY <1>1, <1>2, <1>4, <2>1, WiderBeside DEF Still
<1>7. Claiming(t) => Claiming(t)'
  BY <1>4, <1>5 DEF Claiming, Still
<1>8. Stands(t)'
  BY <1>1, <1>2, <1>5, <1>6, StandsGrow
<1>9. BitsHome(t)'
  BY <1>1, <1>2, <1>5, <1>6, <1>7, BitsGrow
<1>10. Calls(t)'
  BY <1>1, <1>2, <1>4, CallsStill
<1>. QED
  BY <1>8, <1>9, <1>10 DEF Own

\* So it preserves Search if its own worker knows what it must.
LEMMA CallerSearch ==
  ASSUME Search, [Next]_vars, NEW w \in Worker, CallerStep(w, Callers), G' = G,
         \A t \in Worker \ {w} : tls'[t] = tls[t], PassesNodes(w), Own(w)'
  PROVE  Search'
<1>1. SameKnown /\ SetsInv(Callers) /\ HomeInv /\ ListInv /\ BitsInv
  BY SearchBase DEF Search
<1>2. SameKnown'
  BY <1>1, NextSame
<1>3. Root' = Root /\ SetsRight'
  BY CallerFrame
<1>4. BitsInv'
  BY <1>1, <1>3, CallerBits
<1>5. HomeInv' /\ ListInv'
  BY <1>1, <1>3, CallerHomes, CallerRings
<1>6. \A t \in Worker \ {w} : Own(t)'
  BY CallerOthers
<1>7. \A t \in Worker : Own(t)'
  BY <1>6
<1>. QED
  BY <1>2, <1>3, <1>4, <1>5, <1>7 DEF Search, SearchInv, Own

-----------------------------------------------------------------------------
(* Where worker t goes on *)

Goes(t, label) == pc'[t] = label /\ Home(t)' = label /\ PassesNodes(t)

\* The next step of the search without a call.
LEMMA OnToLabel ==
  ASSUME Search, NEW t \in Worker, pc[t] \in Callers, NEW label \in Callers,
         Goto(t, label) \/ Resume(t, label)
  PROVE  Goes(t, label)
<1>1. pc \in [Worker -> Labels \cup Callers] /\ stack \in [Worker -> Seq(Back(Callers))] /\ Outside(Callers)
  BY SearchBase DEF Typed, ControlTyped, SetsInv
<1>2. stack[t] = <<>>
  BY AtCaller
<1>3. pc'[t] = label /\ stack'[t] = <<>>
  BY <1>1, <1>2 DEF Goto, Resume
<1>4. label \notin {"pick_a", "remove"}
  BY <1>1 DEF Outside, Labels
<1>. QED
  BY <1>3, <1>4 DEF Goes, Home, PassesNodes, Awaits

\* What a call of find begins with.
LEMMA CalledFind ==
  ASSUME Search, NEW t \in Worker, pc[t] \in Callers, NEW label \in Callers, NEW s,
         CallFind(t, s, <<label>>)
  PROVE  /\ pc'[t] = "find" /\ Home(t)' = label /\ path'[t][1] = s /\ (\A l : ~Awaits(t, l)')
         /\ PassesNodes(t)
<1>1. /\ pc \in [Worker -> Labels \cup Callers] /\ stack \in [Worker -> Seq(Back(Callers))]
      /\ path \in [Worker -> Seq(Slot)]
  BY SearchBase DEF Typed, ControlTyped
<1>2. stack[t] = <<>>
  BY AtCaller
<1>3. stack'[t] = <<label>> /\ pc'[t] = "find" /\ path'[t] = <<s>>
  BY <1>1, <1>2, PushOne DEF CallFind, Call
<1>. QED
  BY <1>3 DEF Home, PassesNodes, Awaits

\* What a call of make_claim begins with.
LEMMA CalledClaim ==
  ASSUME Search, NEW t \in Worker, pc[t] \in Callers, NEW label \in Callers, NEW s,
         CallClaim(t, s, label)
  PROVE  /\ pc'[t] = "find" /\ Home(t)' = label /\ path'[t][1] = s /\ Awaits(t, "claim_dead")'
         /\ PassesNodes(t)
<1>1. /\ pc \in [Worker -> Labels \cup Callers] /\ stack \in [Worker -> Seq(Back(Callers))]
      /\ path \in [Worker -> Seq(Slot)]
  BY SearchBase DEF Typed, ControlTyped
<1>2. stack[t] = <<>>
  BY AtCaller
<1>3. stack'[t] = <<label, "claim_dead">> /\ pc'[t] = "find" /\ path'[t] = <<s>>
  BY <1>1, <1>2, PushBoth DEF CallClaim, CallFind, Call
<1>. QED
  BY <1>3 DEF Home, PassesNodes, Awaits

\* What a call of sameset begins with, or answers at once.
LEMMA CalledSameset ==
  ASSUME Search, NEW t \in Worker, pc[t] \in Callers, NEW label \in Callers, NEW a, NEW b,
         CallSameset(t, a, b, label)
  PROVE  /\ Home(t)' = label /\ PassesNodes(t)
         /\ \/ pc'[t] = label /\ ret'[t].code = "same"
            \/ pc'[t] = "find" /\ Awaits(t, "same_b")'
<1>1. /\ pc \in [Worker -> Labels \cup Callers] /\ stack \in [Worker -> Seq(Back(Callers))]
      /\ ret \in [Worker -> [code : Codes, node : Slot]] /\ Outside(Callers)
  BY SearchBase DEF Typed, ControlTyped, SetsInv
<1>2. stack[t] = <<>>
  BY AtCaller
<1>3. CASE a = b
  <2>1. pc'[t] = label /\ stack'[t] = <<>> /\ ret'[t].code = "same"
    BY <1>1, <1>2, <1>3 DEF CallSameset
  <2>2. label \notin {"pick_a", "remove"}
    BY <1>1 DEF Outside, Labels
  <2>. QED
    BY <2>1, <2>2 DEF Home, PassesNodes, Awaits
<1>4. CASE a # b
  <2>1. stack'[t] = <<label, "same_b">> /\ pc'[t] = "find"
    BY <1>1, <1>2, <1>4, PushBoth DEF CallSameset, CallFind, Call
  <2>. QED
    BY <2>1 DEF Home, PassesNodes, Awaits
<1>. QED
  BY <1>3, <1>4

\* What a call of pick_from_list or remove_from_list begins with.
LEMMA CalledPick ==
  ASSUME Search, NEW t \in Worker, pc[t] \in Callers, NEW label \in Callers, NEW s \in Node,
         CallPick(t, s, <<label>>) \/ CallRemove(t, s, label)
  PROVE  /\ Home(t)' = label /\ loc'[t].pick.a = s /\ (\A l : ~Awaits(t, l)') /\ PassesNodes(t)
         /\ CallPick(t, s, <<label>>) => pc'[t] = "pick_a"
         /\ CallRemove(t, s, label) => pc'[t] = "remove"
<1>1. /\ pc \in [Worker -> Labels \cup Callers] /\ stack \in [Worker -> Seq(Back(Callers))]
      /\ loc \in [Worker -> Locals]
  BY SearchBase DEF Typed, ControlTyped, LocTyped
<1>2. stack[t] = <<>>
  BY AtCaller
<1>3. stack'[t] = <<label>>
  BY <1>1, <1>2, PushOne DEF CallPick, CallRemove, Call
<1>4. loc'[t].pick.a = s /\ s # 0
  BY <1>1 DEF CallPick, CallRemove, Locals, NoPick, Node
<1>5. /\ CallPick(t, s, <<label>>) => pc'[t] = "pick_a"
      /\ CallRemove(t, s, label) => pc'[t] = "remove"
  BY <1>1 DEF CallPick, CallRemove, Call
<1>. QED
  BY <1>3, <1>4, <1>5 DEF Home, PassesNodes, Awaits

\* What a call of unite begins with.
LEMMA CalledUnite ==
  ASSUME Search, NEW t \in Worker, pc[t] \in Callers, NEW label \in Callers, NEW a \in Node, NEW b \in Node,
         CallUnite(t, a, b, label)
  PROVE  /\ Home(t)' = label /\ pc'[t] = "find" /\ (\A l : Awaits(t, l)' <=> l = "unite_a") /\ PassesNodes(t)
         /\ loc'[t].unite.a = a /\ loc'[t].unite.b = b
<1>1. /\ pc \in [Worker -> Labels \cup Callers] /\ stack \in [Worker -> Seq(Back(Callers))]
      /\ loc \in [Worker -> Locals]
  BY SearchBase DEF Typed, ControlTyped, LocTyped
<1>2. stack[t] = <<>>
  BY AtCaller
<1>3. stack'[t] = <<label, "unite_a">> /\ pc'[t] = "find"
  BY <1>1, <1>2, PushBoth DEF CallUnite, CallFind, Call
<1>4. loc'[t].unite.a = a /\ loc'[t].unite.b = b /\ a # 0 /\ b # 0
  BY <1>1 DEF CallUnite, Locals, NoUnite, Node
<1>. QED
  BY <1>3, <1>4 DEF Home, PassesNodes, Awaits

-----------------------------------------------------------------------------
(* A step outside the structure leaves the sets as they are. *)

Frozen == uf' = uf /\ Root' = Root /\ G' = G

\* When the union-find does not change neither do the judgements about it.
LEMMA FrozenSame ==
  ASSUME Frozen, NEW t \in Worker
  PROVE  /\ \A n : (Dead(n)' <=> Dead(n)) /\ Succ(n)' = Succ(n)
         /\ \A m, n : (EdgeDone(m, n)' <=> EdgeDone(m, n)) /\ (Mutual(m, n)' <=> Mutual(m, n))
         /\ \A m, k : Successor(t, m, k)' = Successor(t, m, k)
         /\ \A m, k : EdgesTried(t, m, k)' <=> EdgesTried(t, m, k)
         /\ \A f, n : FrameRight(t, f, n)' <=> FrameRight(t, f, n)
         /\ \A d, X : Marked(t, d, X)' <=> Marked(t, d, X)
         /\ \A n : Visited(t, n)' <=> Visited(t, n)
<1>1. \A n : (Dead(n)' <=> Dead(n)) /\ Succ(n)' = Succ(n)
  BY SuccSame DEF Frozen, Dead
<1>2. \A m, n : (EdgeDone(m, n)' <=> EdgeDone(m, n)) /\ (Mutual(m, n)' <=> Mutual(m, n))
  BY <1>1, SuccSame DEF EdgeDone, Frozen
<1>3. \A m, k : Successor(t, m, k)' = Successor(t, m, k)
  BY DEF Successor, Frozen
<1>4. \A m, k : EdgesTried(t, m, k)' <=> EdgesTried(t, m, k)
  BY <1>2, <1>3 DEF EdgesTried, Frozen
<1>5. \A f, n : FrameRight(t, f, n)' <=> FrameRight(t, f, n)
  BY <1>3, <1>4 DEF FrameRight, Frozen
<1>6. \A d, X : Marked(t, d, X)' <=> Marked(t, d, X)
  BY DEF Marked, Frozen, w_id
<1>7. \A n : Visited(t, n)' <=> Visited(t, n)
  BY DEF Visited, Frozen, w_id
<1>. QED
  BY <1>1, <1>2, <1>3, <1>4, <1>5, <1>6, <1>7

\* Nor those about the frames of a worker.
LEMMA FramesFrozen ==
  ASSUME Frozen, OwnTyped, NEW t \in Worker, Frames(t), tls'[t].rec = tls[t].rec, tls'[t].v = tls[t].v
  PROVE  /\ Frames(t)' /\ Depth(t)' = Depth(t) /\ Trail(t)' = Trail(t)
<1>1. Depth(t)' = Depth(t) /\ Trail(t)' = Trail(t)
  BY DEF Depth, Trail
<1>2. ASSUME NEW i \in 1 .. Len(tls[t].rec)
      PROVE  FrameRight(t, tls[t].rec[i], Trail(t)[i + 1])'
  <2>1. PICK f, n : f = tls[t].rec[i] /\ n = Trail(t)[i + 1]
    OBVIOUS
  <2>2. FrameRight(t, f, n)
    BY <1>2, <2>1 DEF Frames
  <2>3. FrameRight(t, f, n)'
    BY <2>2, FrozenSame
  <2>4. (tls[t].rec[i])' = f /\ (Trail(t)[i + 1])' = n
    BY <1>1, <2>1
  <2>. QED
    BY <2>3, <2>4 DEF FrameRight
<1>. QED
  BY <1>1, <1>2 DEF Frames

\* Nor those about its claimed states.
LEMMA BitsFrozen ==
  ASSUME Search, Frozen, NEW t \in Worker, pc[t] \in Callers, ~Claiming(t), ~Uniting(t)',
         tls'[t].roots = tls[t].roots
  PROVE  BitsHome(t)'
<1>1. BitsHome(t) /\ Class(t) = Root
  BY SearchBase, AtCaller
<1>2. Class(t)' = Root
  BY DEF Class, Frozen
<1>3. \A n \in Node : Visited(t, n) => Dead(n) \/ OnRoots(Root, tls[t].roots, n)
  BY <1>1 DEF BitsHome
<1>4. ASSUME NEW n \in Node, Visited(t, n)' PROVE Dead(n)' \/ OnRoots(Class(t), tls[t].roots, n)'
  BY <1>2, <1>3, <1>4, FrozenSame DEF OnRoots
<1>. QED
  BY <1>4 DEF BitsHome

-----------------------------------------------------------------------------
(* What is known of a call when it starts *)

\* Nothing has to be known at these labels.
LEMMA CallsGoes ==
  ASSUME NEW t \in Worker,
         NEW label \in {"next", "enter", "edge", "backtrack", "join", "done", "collect", "end"}, Goes(t, label)
  PROVE  Calls(t)' /\ ~Uniting(t)' /\ PassesNodes(t)
BY DEF Goes, Calls, ClaimHomes, SameHomes, Differs, RemoveKnown, Uniting

\* Nothing has to be known when make_claim begins.
LEMMA CallsClaim ==
  ASSUME Frozen, NEW t \in Worker, NEW label \in ClaimHomes, NEW n \in Node, Target(t)' = n,
         pc'[t] = "find", Home(t)' = label, path'[t][1] = n, Awaits(t, "claim_dead")'
  PROVE  Calls(t)' /\ ~Uniting(t)'
<1>1. ClaimKnown(t)'
  BY DEF ClaimKnown, FindLabels
<1>. QED
  BY <1>1 DEF Calls, ClaimHomes, SameHomes, Differs, Uniting

\* Nothing has to be known when sameset begins.
LEMMA CallsSame ==
  ASSUME NEW t \in Worker, NEW label \in SameHomes, Home(t)' = label,
         \/ pc'[t] = label /\ ret'[t].code = "same"
         \/ pc'[t] = "find" /\ Awaits(t, "same_b")'
  PROVE  Calls(t)' /\ ~Uniting(t)'
<1>1. SameRuns(t)'
  BY DEF SameRuns, Verdicts, FindLabels
<1>2. ~Differs(t)'
  BY DEF Differs, SameHomes
<1>. QED
  BY <1>1, <1>2 DEF Calls, ClaimHomes, SameHomes, Uniting

\* When a pick begins it is of the current state.
LEMMA CallsPick ==
  ASSUME NEW t \in Worker, Home(t)' = "explore", pc'[t] = "pick_a", loc'[t].pick.a = tls'[t].v,
         \A l : ~Awaits(t, l)'
  PROVE  Calls(t)' /\ ~Uniting(t)'
<1>1. PickKnown(t)'
  BY DEF PickKnown, Picking, PickLabels
<1>. QED
  BY <1>1 DEF Calls, ClaimHomes, SameHomes, Differs, Uniting

\* When a state is removed all its edges are done.
LEMMA CallsRemove ==
  ASSUME Frozen, NEW t \in Worker, Home(t)' = "enter", pc'[t] = "remove", NEW n \in Node, loc'[t].pick.a = n,
         \A m \in Succ(n) : EdgeDone(n, m)
  PROVE  Calls(t)' /\ ~Uniting(t)'
<1>1. \A m \in Succ(n)' : EdgeDone(n, m)'
  BY FrozenSame
<1>2. RemoveKnown(t)'
  BY <1>1 DEF RemoveKnown
<1>. QED
  BY <1>2 DEF Calls, ClaimHomes, SameHomes, Differs, Uniting

\* When a unite begins its two states are on a cycle.
LEMMA CallsUnite ==
  ASSUME Frozen, NEW t \in Worker, Home(t)' = "united", pc'[t] = "find", NEW a \in Node, NEW b \in Node,
         loc'[t].unite.a = a, loc'[t].unite.b = b, \A l : Awaits(t, l)' <=> l = "unite_a", Mutual(a, b)
  PROVE  Calls(t)' /\ Uniting(t)'
<1>1. Mutual(a, b)'
  BY FrozenSame
<1>2. UniteKnown(t)'
  BY <1>1 DEF UniteKnown, Busy, ListLabels, Adding, AddingLabels
<1>. QED
  BY <1>2 DEF Calls, ClaimHomes, SameHomes, Differs, Uniting

\* The finds of the search itself are of the states its answers are about.
LEMMA CallsFind ==
  ASSUME NEW t \in Worker, NEW label \in {"is_dead", "collected"}, Home(t)' = label, pc'[t] = "find",
         \A l : ~Awaits(t, l)', path'[t][1] = IF label = "is_dead" THEN tls'[t].v ELSE tls'[t].i
  PROVE  Calls(t)' /\ ~Uniting(t)'
<1>1. /\ label = "is_dead" => FindKnown(t, tls[t].v)'
      /\ label = "collected" => FindKnown(t, tls[t].i)'
  BY DEF FindKnown, FindLabels
<1>. QED
  BY <1>1 DEF Calls, ClaimHomes, SameHomes, Differs, Uniting

-----------------------------------------------------------------------------
(* The steps of scc_ufscc_recurse *)

Walking(t) == Walk(Depth(t), Trail(t), tls[t].roots, Class(t), Looked(t))

Between == {"enter", "entered", "explore", "backtrack"}

\* What is the same before and after a step that leaves the recursion alone.
LEMMA TrailStays ==
  ASSUME Search, Frozen, NEW t \in Worker, pc[t] \in Callers, OnTrail(t), ~Uniting(t)',
         tls'[t].rec = tls[t].rec, tls'[t].v = tls[t].v, tls'[t].roots = tls[t].roots,
         Looked(t)' = Looked(t)
  PROVE  /\ tls'[t].v \in Node /\ Frames(t)' /\ Walking(t)'
         /\ Depth(t)' = Depth(t) /\ Trail(t)' = Trail(t)
         /\ \A d : Marked(t, d, {}) => Marked(t, d, {})'
<1>1. OwnTyped /\ Class(t) = Root
  BY SearchBase, AtCaller
<1>2. tls[t].v \in Node /\ Frames(t) /\ Walking(t)
  BY DEF OnTrail, Walking
<1>3. Frames(t)' /\ Depth(t)' = Depth(t) /\ Trail(t)' = Trail(t)
  BY <1>1, <1>2, FramesFrozen
<1>4. Class(t)' = Root
  BY DEF Class, Frozen
<1>5. Walking(t)'
  BY <1>1, <1>2, <1>3, <1>4 DEF Walking
<1>. QED
  BY <1>2, <1>3, <1>5, FrozenSame

\* A worker that moves on within its loops keeps its trail.
LEMMA StandsBetween ==
  ASSUME Search, Frozen, NEW t \in Worker, pc[t] \in Callers \ AtEdge, OnTrail(t), ~Uniting(t)', tls'[t] = tls[t],
         Home(t)' \in Between,
         Home(t)' = "backtrack" => Dead(tls[t].v) \/ (tls[t].rec # <<>> /\ Root[tls[t].rec[Len(tls[t].rec)].v] = Root[tls[t].v])
  PROVE  Stands(t)'
<1>1. Home(t) = pc[t] /\ Stands(t)
  BY SearchBase, AtCaller
<1>2. Looked(t)' = 0 /\ Looked(t) = 0
  BY <1>1 DEF Looked, Between, AtEdge
<1>3. /\ tls'[t].v \in Node /\ Frames(t)' /\ Walking(t)'
      /\ Depth(t)' = Depth(t) /\ Trail(t)' = Trail(t)
      /\ \A d : Marked(t, d, {}) => Marked(t, d, {})'
  BY <1>2, TrailStays
<1>4. Marked(t, Depth(t), {}) \/ (tls[t].rec = <<>> /\ Dead(tls[t].v))
  BY DEF OnTrail
<1>5. Marked(t, Depth(t), {})' \/ (tls[t].rec = <<>> /\ Dead(tls[t].v))'
  <2>1. PICK d, v : d = Depth(t) /\ v = tls[t].v
    OBVIOUS
  <2>2. Marked(t, d, {})' \/ (tls[t].rec = <<>> /\ Dead(v)')
    BY <1>3, <1>4, <2>1, FrozenSame
  <2>. QED
    BY <1>3, <2>1, <2>2 DEF Marked, Dead
<1>6. Home(t)' = "backtrack" => (Dead(tls[t].v) \/ (tls[t].rec # <<>> /\ Root[tls[t].rec[Len(tls[t].rec)].v] = Root[tls[t].v]))'
  BY DEF Frozen, Dead
<1>7. OnTrail(t)'
  BY <1>3, <1>5, <1>6 DEF OnTrail, Walking, Between, AtEdge, AtSucc
<1>. QED
  BY <1>1, <1>7 DEF Stands, Between, Searching

\* A worker in its search has a trail.
LEMMA AtTrail ==
  ASSUME Search, NEW t \in Worker, pc[t] \in Searching
  PROVE  OnTrail(t) /\ tls[t].i > 0 /\ pc[t] \in Callers /\ Home(t) = pc[t] /\ Calls(t) /\ tls[t].v \in Node
<1>1. pc[t] \in Callers
  BY DEF Searching, Callers
<1>. QED
  BY <1>1, SearchBase, AtCaller DEF Stands, OnTrail

\* Enter: the state of the call before is compared, or a pick begins.
LEMMA EnterOwn ==
  ASSUME Search, Frozen, NEW t \in Worker, Enter(t)
  PROVE  Own(t)' /\ PassesNodes(t)
<1>1. pc[t] = "enter" /\ tls' = tls
  BY DEF Enter
<1>2. OnTrail(t) /\ pc[t] \in Callers /\ Home(t) = "enter" /\ tls[t].v \in Node
  BY <1>1, AtTrail DEF Searching
<1>3. {"explore", "entered"} \subseteq Callers /\ pc[t] \notin AtEdge /\ ~Claiming(t)
  BY <1>1, <1>2 DEF Callers, AtEdge, Claiming, ClaimHomes
<1>4. CASE CallPick(t, tls[t].v, <<"explore">>)
  <2>1. /\ Home(t)' = "explore" /\ pc'[t] = "pick_a" /\ loc'[t].pick.a = tls'[t].v
        /\ (\A l : ~Awaits(t, l)') /\ PassesNodes(t)
    BY <1>1, <1>2, <1>3, <1>4, CalledPick
  <2>2. Calls(t)' /\ ~Uniting(t)'
    BY <2>1, CallsPick
  <2>3. Stands(t)'
    BY <1>1, <1>2, <1>3, <2>1, <2>2, StandsBetween DEF Between
  <2>4. BitsHome(t)'
    BY <1>1, <1>2, <1>3, <2>2, BitsFrozen
  <2>. QED
    BY <2>1, <2>2, <2>3, <2>4 DEF Own
<1>5. ASSUME NEW a, CallSameset(t, a, tls[t].v, "entered")
      PROVE  Own(t)' /\ PassesNodes(t)
  <2>1. /\ Home(t)' = "entered" /\ PassesNodes(t)
        /\ \/ pc'[t] = "entered" /\ ret'[t].code = "same"
           \/ pc'[t] = "find" /\ Awaits(t, "same_b")'
    BY <1>2, <1>3, <1>5, CalledSameset
  <2>2. Calls(t)' /\ ~Uniting(t)'
    BY <2>1, CallsSame DEF SameHomes
  <2>3. Stands(t)'
    BY <1>1, <1>2, <1>3, <2>1, <2>2, StandsBetween DEF Between
  <2>4. BitsHome(t)'
    BY <1>1, <1>2, <1>3, <2>2, BitsFrozen
  <2>. QED
    BY <2>1, <2>2, <2>3, <2>4 DEF Own
<1>. QED
  BY <1>4, <1>5 DEF Enter

\* The return of remove_from_list.
LEMMA EnteredOwn ==
  ASSUME Search, Frozen, NEW t \in Worker, Entered(t)
  PROVE  Own(t)' /\ PassesNodes(t)
<1>1. pc[t] = "entered" /\ tls' = tls
  BY DEF Entered
<1>2. OnTrail(t) /\ pc[t] \in Callers /\ Home(t) = "entered" /\ tls[t].v \in Node
  BY <1>1, AtTrail DEF Searching
<1>3. {"explore", "backtrack"} \subseteq Callers /\ pc[t] \notin AtEdge /\ ~Claiming(t)
  BY <1>1, <1>2 DEF Callers, AtEdge, Claiming, ClaimHomes
<1>4. CASE CallPick(t, tls[t].v, <<"explore">>)
  <2>1. /\ Home(t)' = "explore" /\ pc'[t] = "pick_a" /\ loc'[t].pick.a = tls'[t].v
        /\ (\A l : ~Awaits(t, l)') /\ PassesNodes(t)
    BY <1>1, <1>2, <1>3, <1>4, CalledPick
  <2>2. Calls(t)' /\ ~Uniting(t)'
    BY <2>1, CallsPick
  <2>3. Stands(t)'
    BY <1>1, <1>2, <1>3, <2>1, <2>2, StandsBetween DEF Between
  <2>4. BitsHome(t)'
    BY <1>1, <1>2, <1>3, <2>2, BitsFrozen
  <2>. QED
    BY <2>1, <2>2, <2>3, <2>4 DEF Own
<1>5. CASE ret[t].code = "same" /\ Resume(t, "backtrack")
  <2>1. Goes(t, "backtrack")
    BY <1>2, <1>3, <1>5, OnToLabel
  <2>2. Calls(t)' /\ ~Uniting(t)' /\ PassesNodes(t) /\ Home(t)' = "backtrack"
    BY <2>1, CallsGoes DEF Goes
  <2>3. tls[t].rec # <<>> /\ Root[tls[t].rec[Len(tls[t].rec)].v] = Root[tls[t].v]
    BY <1>2, <1>5, SearchBase DEF SameKnown, SameAsked, SameSets
  <2>4. Stands(t)'
    BY <1>1, <1>2, <1>3, <2>2, <2>3, StandsBetween DEF Between
  <2>5. BitsHome(t)'
    BY <1>1, <1>2, <1>3, <2>2, BitsFrozen
  <2>. QED
    BY <2>2, <2>4, <2>5 DEF Own
<1>. QED
  BY <1>4, <1>5 DEF Entered

\* On to an edge of v_p, from the k-th on
LEMMA StandsEdge ==
  ASSUME Search, Frozen, NEW t \in Worker, pc[t] \in Searching, ~Uniting(t)', Home(t)' = "edge",
         tls'[t].rec = tls[t].rec, tls'[t].v = tls[t].v, tls'[t].roots = tls[t].roots, tls'[t].i = tls[t].i,
         Walk(Depth(t), Trail(t), tls[t].roots, Root, 0), Marked(t, Depth(t), {}),
         NEW m \in Node, tls'[t].v_p = m, Root[m] = Root[tls[t].v],
         NEW k, tls'[t].k = k, EdgesTried(t, m, k)
  PROVE  Stands(t)'
<1>1. OwnTyped /\ OnTrail(t) /\ tls[t].i > 0
  BY SearchBase, AtTrail
<1>2. Frames(t)' /\ Depth(t)' = Depth(t) /\ Trail(t)' = Trail(t)
  BY <1>1, FramesFrozen DEF OnTrail
<1>3. Class(t)' = Root /\ Looked(t)' = 0
  BY DEF Class, Frozen, Looked
<1>4. Walking(t)'
  BY <1>2, <1>3 DEF Walking
<1>5. EdgesTried(t, m, k)'
  BY FrozenSame
<1>6. Marked(t, Depth(t), {})'
  <2>1. PICK d : d = Depth(t)
    OBVIOUS
  <2>2. Marked(t, d, {})'
    BY <2>1, FrozenSame
  <2>. QED
    BY <1>2, <2>1, <2>2 DEF Marked
<1>7. tls'[t].v \in Node
  BY <1>1 DEF OnTrail
<1>8. EdgesTried(t, tls[t].v_p, tls[t].k)'
  BY <1>5 DEF EdgesTried
<1>9. (Root[tls[t].v_p] = Root[tls[t].v])'
  BY DEF Frozen
<1>10. OnTrail(t)'
  BY <1>2, <1>4, <1>6, <1>7, <1>8, <1>9 DEF OnTrail, Walking, AtSucc
<1>. QED
  BY <1>1, <1>10 DEF Stands, Searching

\* The loop over the edges begins, or goes on.
LEMMA OwnEdge ==
  ASSUME Search, Frozen, NEW t \in Worker, pc[t] \in Searching, ~Claiming(t), Goes(t, "edge"),
         tls'[t].rec = tls[t].rec, tls'[t].v = tls[t].v, tls'[t].roots = tls[t].roots, tls'[t].i = tls[t].i,
         Walk(Depth(t), Trail(t), tls[t].roots, Root, 0), Marked(t, Depth(t), {}),
         NEW m \in Node, tls'[t].v_p = m, Root[m] = Root[tls[t].v],
         NEW k, tls'[t].k = k, EdgesTried(t, m, k)
  PROVE  Own(t)' /\ PassesNodes(t)
<1>1. Calls(t)' /\ ~Uniting(t)' /\ PassesNodes(t) /\ Home(t)' = "edge"
  BY CallsGoes DEF Goes
<1>2. pc[t] \in Callers
  BY AtTrail
<1>3. BitsHome(t)'
  BY <1>1, <1>2, BitsFrozen
<1>4. Stands(t)'
  BY <1>1, StandsEdge
<1>. QED
  BY <1>1, <1>3, <1>4 DEF Own

\* One more edge done
LEMMA TriedOne ==
  ASSUME OwnTyped, NEW t \in Worker, NEW m \in Node, NEW k \in Nat, EdgesTried(t, m, k), k < Len(G[m]),
         EdgeDone(m, Successor(t, m, k))
  PROVE  EdgesTried(t, m, k + 1)
<1>1. G[m] \in Seq(Node)
  BY SuccTyped
<1>2. k + 1 <= Len(G[m])
  BY <1>1
<1>3. \A j \in 0 .. (k + 1) - 1 : j \in 0 .. k - 1 \/ j = k
  OBVIOUS
<1>. QED
  BY <1>2, <1>3 DEF EdgesTried

\* The picked state is explored, or the list is done.
LEMMA ExploreOwn ==
  ASSUME Search, Frozen, NEW t \in Worker, Explore(t)
  PROVE  Own(t)' /\ PassesNodes(t)
<1>1. pc[t] = "explore"
  BY DEF Explore
<1>2. OnTrail(t) /\ pc[t] \in Callers /\ Home(t) = "explore" /\ tls[t].v \in Node /\ Calls(t) /\ pc[t] \in Searching
  BY <1>1, AtTrail DEF Searching
<1>3. {"edge", "backtrack"} \subseteq Callers /\ pc[t] \notin AtEdge /\ ~Claiming(t)
  BY <1>1, <1>2 DEF Callers, AtEdge, Claiming, ClaimHomes
<1>4. OwnTyped /\ tls[t] \in Tls /\ tls \in [Worker -> Tls]
  BY SearchBase, TlsTyped DEF OwnTyped
<1>5. \/ /\ ret[t].code = "PICK_SUCCESS" /\ ret[t].node \in Node /\ Root[ret[t].node] = Root[tls[t].v]
         /\ Marked(t, Depth(t), {})
      \/ ret[t].code \in {"PICK_DEAD", "PICK_MARK_DEAD"} /\ Dead(tls[t].v)
  <2>1. ~Picking(t)
    BY <1>1, <1>2, AtCaller DEF Picking, PickLabels
  <2>. QED
    BY <1>2, <2>1 DEF Calls, PickKnown
<1>6. CASE /\ ret[t].code = "PICK_SUCCESS" /\ Resume(t, "edge")
           /\ tls' = [tls EXCEPT ![t].v_p = ret[t].node, ![t].k = 0]
  <2>1. PICK m \in Node : m = ret[t].node
    BY <1>5, <1>6
  <2>2. /\ tls'[t].rec = tls[t].rec /\ tls'[t].v = tls[t].v /\ tls'[t].roots = tls[t].roots /\ tls'[t].i = tls[t].i
        /\ tls'[t].v_p = m /\ tls'[t].k = 0
    BY <1>4, <1>6, <2>1 DEF Tls
  <2>3. Goes(t, "edge")
    BY <1>2, <1>3, <1>6, OnToLabel
  <2>4. Walk(Depth(t), Trail(t), tls[t].roots, Root, 0)
    BY <1>2, AtCaller DEF OnTrail, Looked
  <2>5. Marked(t, Depth(t), {}) /\ Root[m] = Root[tls[t].v]
    BY <1>5, <1>6, <2>1
  <2>6. EdgesTried(t, m, 0)
    BY <1>4, SuccTyped DEF EdgesTried
  <2>. QED
    BY <1>2, <1>3, <2>2, <2>3, <2>4, <2>5, <2>6, OwnEdge
<1>7. CASE ret[t].code # "PICK_SUCCESS" /\ Resume(t, "backtrack") /\ tls' = tls
  <2>1. Calls(t)' /\ ~Uniting(t)' /\ PassesNodes(t) /\ Home(t)' = "backtrack"
    BY <1>2, <1>3, <1>7, OnToLabel, CallsGoes DEF Goes
  <2>2. Stands(t)'
    BY <1>2, <1>3, <1>5, <1>7, <2>1, StandsBetween DEF Between
  <2>3. BitsHome(t)'
    BY <1>2, <1>3, <1>7, <2>1, BitsFrozen
  <2>. QED
    BY <2>1, <2>2, <2>3 DEF Own
<1>. QED
  BY <1>6, <1>7 DEF Explore

\* Back to the loop at line 562 with nothing left to do at v_p
LEMMA OwnRemoved ==
  ASSUME Search, Frozen, NEW t \in Worker, pc[t] \in {"edge", "is_dead"}, tls' = tls,
         NEW m \in Node, CallRemove(t, m, "enter"), \A n \in Succ(m) : EdgeDone(m, n)
  PROVE  Own(t)' /\ PassesNodes(t)
<1>1. OnTrail(t) /\ pc[t] \in Callers /\ Home(t) = pc[t] /\ tls[t].i > 0
  BY AtTrail DEF Searching
<1>2. /\ Home(t)' = "enter" /\ pc'[t] = "remove" /\ loc'[t].pick.a = m /\ PassesNodes(t)
  BY <1>1, CalledPick DEF Callers
<1>3. Calls(t)' /\ ~Uniting(t)'
  BY <1>2, CallsRemove
<1>4. BitsHome(t)'
  BY <1>1, <1>3, BitsFrozen DEF Claiming, ClaimHomes
<1>5. Stands(t)'
  <2>1. Looked(t)' = Looked(t)
    BY <1>1, <1>2 DEF Looked
  <2>2. /\ tls'[t].v \in Node /\ Frames(t)' /\ Walking(t)'
        /\ Depth(t)' = Depth(t) /\ Trail(t)' = Trail(t)
        /\ \A d : Marked(t, d, {}) => Marked(t, d, {})'
    BY <1>1, <1>3, <2>1, TrailStays
  <2>3. Marked(t, Depth(t), {})
    BY <1>1 DEF OnTrail, AtEdge
  <2>4. Marked(t, Depth(t), {})'
    BY <2>2, <2>3 DEF Marked
  <2>5. OnTrail(t)'
    BY <1>2, <2>2, <2>4 DEF OnTrail, Walking, AtEdge, AtSucc
  <2>. QED
    BY <1>1, <1>2, <2>5 DEF Stands, Searching
<1>. QED
  BY <1>2, <1>3, <1>4, <1>5 DEF Own

\* Worker t at an edge
LEMMA AtAnEdge ==
  ASSUME Search, NEW t \in Worker, pc[t] \in AtEdge
  PROVE  /\ OnTrail(t) /\ pc[t] \in Callers /\ Home(t) = pc[t] /\ pc[t] \in Searching /\ Calls(t)
         /\ tls[t].v_p \in Node /\ Root[tls[t].v_p] = Root[tls[t].v] /\ EdgesTried(t, tls[t].v_p, tls[t].k)
         /\ Marked(t, Depth(t), {}) /\ tls[t].k \in Nat /\ tls[t].v \in Node
         /\ Walk(Depth(t), Trail(t), tls[t].roots, Root, Looked(t))
         /\ OwnTyped /\ tls[t] \in Tls /\ tls \in [Worker -> Tls] /\ tls[t].i > 0
<1>1. pc[t] \in Searching
  BY DEF AtEdge, Searching
<1>2. OnTrail(t) /\ pc[t] \in Callers /\ Home(t) = pc[t] /\ Calls(t) /\ tls[t].v \in Node /\ tls[t].i > 0
  BY <1>1, AtTrail
<1>3. /\ Root[tls[t].v_p] = Root[tls[t].v] /\ EdgesTried(t, tls[t].v_p, tls[t].k)
      /\ Marked(t, Depth(t), {}) /\ Walk(Depth(t), Trail(t), tls[t].roots, Root, Looked(t))
  BY <1>2, AtCaller DEF OnTrail
<1>. QED
  BY <1>1, <1>2, <1>3, SearchBase, TlsTyped DEF EdgesTried, OwnTyped

\* The next edge: line 575
LEMMA OwnNextEdge ==
  ASSUME Search, Frozen, NEW t \in Worker, pc[t] \in AtEdge, ~Claiming(t), NextEdge(t),
         Walk(Depth(t), Trail(t), tls[t].roots, Root, 0),
         tls[t].k < Len(G[tls[t].v_p]), EdgeDone(tls[t].v_p, Successor(t, tls[t].v_p, tls[t].k))
  PROVE  Own(t)' /\ PassesNodes(t)
<1>1. /\ OnTrail(t) /\ pc[t] \in Callers /\ pc[t] \in Searching
      /\ tls[t].v_p \in Node /\ Root[tls[t].v_p] = Root[tls[t].v] /\ EdgesTried(t, tls[t].v_p, tls[t].k)
      /\ Marked(t, Depth(t), {}) /\ tls[t].k \in Nat
      /\ OwnTyped /\ tls[t] \in Tls /\ tls \in [Worker -> Tls]
  BY AtAnEdge
<1>2. PICK m \in Node, k \in {tls[t].k + 1} : m = tls[t].v_p /\ k = tls[t].k + 1
  BY <1>1
<1>3. /\ tls'[t].rec = tls[t].rec /\ tls'[t].v = tls[t].v /\ tls'[t].roots = tls[t].roots /\ tls'[t].i = tls[t].i
      /\ tls'[t].v_p = m /\ tls'[t].k = k
  BY <1>1, <1>2 DEF NextEdge, Tls
<1>4. Goes(t, "edge")
  BY <1>1, OnToLabel DEF NextEdge, Callers
<1>5. EdgesTried(t, m, k)
  BY <1>1, <1>2, TriedOne
<1>. QED
  BY <1>1, <1>2, <1>3, <1>4, <1>5, OwnEdge

\* The next edge, or the end of the loop.
LEMMA EdgeOwn ==
  ASSUME Search, Frozen, NEW t \in Worker, Edge(t)
  PROVE  Own(t)' /\ PassesNodes(t)
<1> DEFINE me == tls[t]
           w == Successor(t, me.v_p, me.k)
<1>1. pc[t] = "edge"
  BY DEF Edge
<1>2. /\ OnTrail(t) /\ pc[t] \in Callers /\ Home(t) = "edge" /\ pc[t] \in Searching /\ Calls(t)
      /\ me.v_p \in Node /\ Root[me.v_p] = Root[me.v] /\ EdgesTried(t, me.v_p, me.k)
      /\ Marked(t, Depth(t), {}) /\ me.k \in Nat /\ me.v \in Node
      /\ Walk(Depth(t), Trail(t), me.roots, Root, Looked(t))
      /\ OwnTyped /\ tls[t] \in Tls /\ tls \in [Worker -> Tls] /\ me.i > 0
  BY <1>1, AtAnEdge DEF AtEdge
<1>3. ~Claiming(t) /\ Looked(t) = 0
  BY <1>2 DEF Claiming, ClaimHomes, Looked
<1>4. G[me.v_p] \in Seq(Node)
  BY <1>2, SuccTyped
<1>5. CASE me.k >= Len(G[me.v_p]) /\ CallRemove(t, me.v_p, "enter") /\ tls' = tls
  <2>1. me.k = Len(G[me.v_p])
    BY <1>2, <1>4, <1>5 DEF EdgesTried
  <2>2. \A n \in Succ(me.v_p) : EdgeDone(me.v_p, n)
    BY <1>2, <2>1, AllEdges
  <2>. QED
    BY <1>1, <1>2, <1>5, <2>2, OwnRemoved
<1>6. CASE me.k < Len(G[me.v_p]) /\ w = me.v_p /\ tls' = [tls EXCEPT ![t].k = @ + 1] /\ UNCHANGED control
  <2>1. PICK m \in Node, k \in {me.k + 1} : m = me.v_p /\ k = me.k + 1
    BY <1>2
  <2>2. /\ tls'[t].rec = me.rec /\ tls'[t].v = me.v /\ tls'[t].roots = me.roots /\ tls'[t].i = me.i
        /\ tls'[t].v_p = m /\ tls'[t].k = k
    BY <1>2, <1>6, <2>1 DEF Tls
  <2>3. EdgeDone(me.v_p, w)
    BY <1>6 DEF EdgeDone
  <2>4. EdgesTried(t, m, k)
    BY <1>2, <1>6, <2>1, <2>3, TriedOne
  <2>5. Goes(t, "edge")
    BY <1>1, <1>2, <1>6, AtCaller DEF Goes, control, Home, PassesNodes, Awaits
  <2>. QED
    BY <1>2, <1>3, <2>1, <2>2, <2>4, <2>5, OwnEdge
<1>7. CASE me.k < Len(G[me.v_p]) /\ w # me.v_p /\ tls' = [tls EXCEPT ![t].w = w] /\ CallClaim(t, w, "claimed")
  <2>1. PICK n \in Node : n = w
    BY <1>2, <1>7, EdgeOf
  <2>2. /\ tls'[t].rec = me.rec /\ tls'[t].v = me.v /\ tls'[t].roots = me.roots /\ tls'[t].i = me.i
        /\ tls'[t].v_p = me.v_p /\ tls'[t].k = me.k /\ tls'[t].w = n
    BY <1>2, <1>7, <2>1 DEF Tls
  <2>3. /\ pc'[t] = "find" /\ Home(t)' = "claimed" /\ path'[t][1] = n /\ Awaits(t, "claim_dead")'
        /\ PassesNodes(t)
    BY <1>2, <1>7, <2>1, CalledClaim DEF Callers
  <2>4. Target(t)' = n
    BY <2>2, <2>3 DEF Target
  <2>5. Calls(t)' /\ ~Uniting(t)'
    BY <2>3, <2>4, CallsClaim DEF ClaimHomes
  <2>6. BitsHome(t)'
    BY <1>2, <1>3, <2>2, <2>5, BitsFrozen
  <2>7. Looked(t)' = Looked(t)
    BY <1>3, <2>3 DEF Looked
  <2>8. /\ tls'[t].v \in Node /\ Frames(t)' /\ Walking(t)'
        /\ Depth(t)' = Depth(t) /\ Trail(t)' = Trail(t)
        /\ \A d : Marked(t, d, {}) => Marked(t, d, {})'
    BY <1>2, <2>2, <2>5, <2>7, TrailStays
  <2>9. Marked(t, Depth(t), {})'
    BY <1>2, <2>8 DEF Marked
  <2>10. PICK m \in Node, k \in {me.k} : m = me.v_p /\ k = me.k
    BY <1>2
  <2>11. EdgesTried(t, m, k)' /\ Successor(t, m, k)' = n
    BY <1>2, <2>1, <2>10, FrozenSame
  <2>12. EdgesTried(t, tls[t].v_p, tls[t].k)' /\ Successor(t, tls[t].v_p, tls[t].k)' = n
    BY <2>2, <2>10, <2>11 DEF EdgesTried, Successor
  <2>13. (Root[tls[t].v_p] = Root[tls[t].v])' /\ (tls[t].k < Len(G[tls[t].v_p]))'
    BY <1>2, <1>7, <2>2 DEF Frozen
  <2>14. OnTrail(t)'
    BY <2>2, <2>3, <2>8, <2>9, <2>12, <2>13 DEF OnTrail, Walking
  <2>15. Stands(t)'
    BY <1>2, <2>2, <2>3, <2>14 DEF Stands, Searching
  <2>. QED
    BY <2>3, <2>5, <2>6, <2>15 DEF Own
<1>. QED
  BY <1>2, <1>4, <1>5, <1>6, <1>7 DEF Edge

\* The test of line 620.
LEMMA IsDeadOwn ==
  ASSUME Search, Frozen, NEW t \in Worker, IsDead(t)
  PROVE  Own(t)' /\ PassesNodes(t)
<1> DEFINE me == tls[t]
           f == ret[t].node
<1>1. pc[t] = "is_dead"
  BY DEF IsDead
<1>2. /\ OnTrail(t) /\ pc[t] \in Callers /\ Home(t) = "is_dead" /\ pc[t] \in Searching /\ Calls(t)
      /\ me.v_p \in Node /\ Root[me.v_p] = Root[me.v] /\ EdgesTried(t, me.v_p, me.k)
      /\ Marked(t, Depth(t), {}) /\ me.k \in Nat /\ me.v \in Node
      /\ Walk(Depth(t), Trail(t), me.roots, Root, Looked(t))
      /\ OwnTyped /\ tls[t] \in Tls /\ tls \in [Worker -> Tls] /\ me.i > 0
  BY <1>1, AtAnEdge DEF AtEdge
<1>3. ~Claiming(t) /\ Looked(t) = 0
  BY <1>2 DEF Claiming, ClaimHomes, Looked
<1>4. CASE uf[f].uf_status = DEAD /\ CallRemove(t, me.v_p, "enter") /\ tls' = tls
  <2>1. Root[f] = Root[me.v]
    BY <1>1, <1>2 DEF Calls, FindKnown, FindLabels
  <2>2. f \in Slot
    BY SearchBase, PlaceTyped
  <2>3. Root[f] = f
    BY <1>4, <2>2, DeadsExplored
  <2>4. Dead(me.v_p)
    BY <1>2, <1>4, <2>1, <2>3 DEF Dead
  <2>5. \A n \in Succ(me.v_p) : EdgeDone(me.v_p, n)
    BY <1>2, <2>4, SearchBase DEF SetsRight, DeadClosed, EdgeDone
  <2>. QED
    BY <1>1, <1>2, <1>4, <2>5, OwnRemoved
<1>5. CASE NextEdge(t)
  <2>1. me.k < Len(G[me.v_p]) /\ EdgeDone(me.v_p, Successor(t, me.v_p, me.k))
    BY <1>2 DEF OnTrail
  <2>. QED
    BY <1>1, <1>2, <1>3, <1>5, <2>1, OwnNextEdge DEF AtEdge
<1>. QED
  BY <1>4, <1>5 DEF IsDead, Breaks

\* At a successor already found: lines 631-635
LEMMA StandsLook ==
  ASSUME Search, Frozen, NEW t \in Worker, pc[t] \in AtSucc, Home(t)' \in {"found", "united"},
         tls'[t].rec = tls[t].rec, tls'[t].v = tls[t].v, tls'[t].i = tls[t].i,
         tls'[t].v_p = tls[t].v_p, tls'[t].k = tls[t].k, tls'[t].w = tls[t].w,
         NEW rts, tls'[t].roots = rts, NEW c, Class(t)' = c,
         Walk(Depth(t), Trail(t), rts, c, tls[t].w), OnRoots(c, rts, tls[t].w)
  PROVE  Stands(t)'
<1>1. /\ OnTrail(t) /\ pc[t] \in Callers /\ Home(t) = pc[t] /\ pc[t] \in Searching
      /\ tls[t].v_p \in Node /\ Root[tls[t].v_p] = Root[tls[t].v] /\ EdgesTried(t, tls[t].v_p, tls[t].k)
      /\ Marked(t, Depth(t), {}) /\ tls[t].k \in Nat /\ tls[t].v \in Node /\ OwnTyped /\ tls[t].i > 0
  BY AtAnEdge DEF AtSucc, AtEdge
<1>2. Frames(t)' /\ Depth(t)' = Depth(t) /\ Trail(t)' = Trail(t)
  BY <1>1, FramesFrozen DEF OnTrail
<1>3. Looked(t)' = tls[t].w
  BY DEF Looked
<1>4. Walking(t)' /\ OnRoots(Class(t), tls[t].roots, tls[t].w)'
  BY <1>2, <1>3 DEF Walking, OnRoots
<1>5. Marked(t, Depth(t), {})'
  <2>1. PICK d : d = Depth(t)
    OBVIOUS
  <2>2. Marked(t, d, {})'
    BY <1>1, <2>1, FrozenSame
  <2>. QED
    BY <1>2, <2>1, <2>2 DEF Marked
<1>6. PICK m \in Node : m = tls[t].v_p
  BY <1>1
<1>7. PICK j : j = tls[t].k
  OBVIOUS
<1>8. EdgesTried(t, m, j)' /\ Successor(t, m, j)' = tls[t].w
  BY <1>1, <1>6, <1>7, FrozenSame DEF OnTrail
<1>9. EdgesTried(t, tls[t].v_p, tls[t].k)' /\ Successor(t, tls[t].v_p, tls[t].k)' = tls'[t].w
  BY <1>6, <1>7, <1>8 DEF EdgesTried, Successor
<1>10. (Root[tls[t].v_p] = Root[tls[t].v])' /\ (tls[t].k < Len(G[tls[t].v_p]))' /\ tls'[t].v \in Node
  BY <1>1 DEF Frozen, OnTrail
<1>11. OnTrail(t)'
  BY <1>2, <1>4, <1>5, <1>9, <1>10 DEF OnTrail, Walking, AtSucc, AtEdge
<1>. QED
  BY <1>1, <1>11 DEF Stands, Searching

\* line 631: is this edge inside the set of v?
LEMMA OwnSameset ==
  ASSUME Search, Frozen, NEW t \in Worker, pc[t] \in AtSucc, ~Claiming(t), tls' = tls,
         NEW a, NEW b, CallSameset(t, a, b, "found"),
         Walk(Depth(t), Trail(t), tls[t].roots, Root, tls[t].w), OnRoots(Root, tls[t].roots, tls[t].w)
  PROVE  Own(t)' /\ PassesNodes(t)
<1>1. pc[t] \in Callers /\ Home(t) = pc[t] /\ "found" \in Callers
  BY AtAnEdge DEF AtSucc, AtEdge, Callers
<1>2. /\ Home(t)' = "found" /\ PassesNodes(t)
      /\ \/ pc'[t] = "found" /\ ret'[t].code = "same"
         \/ pc'[t] = "find" /\ Awaits(t, "same_b")'
  BY <1>1, CalledSameset
<1>3. Calls(t)' /\ ~Uniting(t)'
  BY <1>2, CallsSame DEF SameHomes
<1>4. BitsHome(t)'
  BY <1>1, <1>3, BitsFrozen
<1>5. Class(t)' = Root
  BY <1>3 DEF Class, Frozen
<1>6. Stands(t)'
  BY <1>2, <1>5, StandsLook
<1>. QED
  BY <1>2, <1>3, <1>4, <1>6 DEF Own

\* One frame more: lines 557 and 612-613
LEMMA TrailPushed ==
  ASSUME Frozen, OwnTyped, NEW t \in Worker, Frames(t), NEW w \in Slot,
         NEW f, FrameRight(t, f, w), f.v = tls[t].v,
         tls'[t].rec = Append(tls[t].rec, f), tls'[t].v = w
  PROVE  /\ Frames(t)' /\ Depth(t)' = Depth(t) + 1 /\ Trail(t)'[Depth(t) + 1] = w
         /\ \A i \in 1 .. Depth(t) : Trail(t)'[i] = Trail(t)[i]
<1>1. /\ tls[t].rec \in Seq(Frame) /\ Len(tls[t].rec) \in Nat /\ Depth(t) = Len(tls[t].rec) + 1
  BY TlsTyped DEF Depth
<1>2. PICK s, n : n \in Nat /\ s = tls[t].rec /\ n = Len(s)
  BY <1>1
<1>3. /\ Len(tls'[t].rec) = n + 1 /\ tls'[t].rec[n + 1] = f
      /\ \A i \in 1 .. n : tls'[t].rec[i] = s[i]
  BY <1>1, <1>2
<1>4. Depth(t)' = n + 2 /\ Depth(t) = n + 1
  BY <1>1, <1>2, <1>3 DEF Depth
<1>5. Trail(t)' = [i \in 1 .. n + 2 |-> IF i < n + 2 THEN tls'[t].rec[i].v ELSE w]
  BY <1>4 DEF Trail
<1>6. Trail(t) = [i \in 1 .. n + 1 |-> IF i < n + 1 THEN s[i].v ELSE tls[t].v]
  BY <1>2, <1>4 DEF Trail
<1>7. Trail(t)'[n + 2] = w
  BY <1>2, <1>5
<1>8. ASSUME NEW i \in 1 .. n + 1 PROVE Trail(t)'[i] = Trail(t)[i]
  <2>1. i < n + 1 \/ i = n + 1
    BY <1>2
  <2>. QED
    BY <1>2, <1>3, <1>5, <1>6, <2>1
<1>9. ASSUME NEW i \in 1 .. n + 1 PROVE FrameRight(t, tls[t].rec[i], Trail(t)[i + 1])'
  <2>1. PICK g, m : g = tls'[t].rec[i] /\ m = Trail(t)'[i + 1]
    OBVIOUS
  <2>4. FrameRight(t, g, m)
    <3>1. CASE i \in 1 .. n
      <4>1. g = tls[t].rec[i]
        BY <1>2, <1>3, <2>1, <3>1
      <4>2. m = Trail(t)[i + 1]
        BY <1>2, <1>8, <2>1, <3>1
      <4>3. i \in 1 .. Len(tls[t].rec)
        BY <1>2, <3>1
      <4>. QED
        BY <4>1, <4>2, <4>3 DEF Frames
    <3>2. CASE i = n + 1
      <4>1. g = f
        BY <1>3, <2>1, <3>2
      <4>2. m = w
        BY <1>2, <1>7, <2>1, <3>2
      <4>. QED
        BY <4>1, <4>2
    <3>3. i \in 1 .. n \/ i = n + 1
      BY <1>2
    <3>. QED
      BY <3>1, <3>2, <3>3
  <2>5. FrameRight(t, g, m)'
    BY <2>4, FrozenSame
  <2>. QED
    BY <2>1, <2>5 DEF FrameRight
<1>10. Frames(t)'
  <2>1. Len(tls[t].rec)' = n + 1
    BY <1>3
  <2>. QED
    BY <1>2, <1>9, <2>1 DEF Frames
<1>. QED
  BY <1>2, <1>4, <1>7, <1>8, <1>10

\* A target that was claimed is pushed and entered.
LEMMA ClaimedPush ==
  ASSUME Search, Frozen, NEW t \in Worker, pc[t] = "claimed", ret[t].code \in Claims,
         tls' = [tls EXCEPT ![t].unique = @ + First(t),
                            ![t].rec = Append(@, [v_p |-> tls[t].v_p, k |-> tls[t].k, v |-> tls[t].v]),
                            ![t].roots = Append(@, tls[t].w), ![t].v = tls[t].w, ![t].w = 0],
         Resume(t, "enter")
  PROVE  Own(t)' /\ PassesNodes(t)
<1> DEFINE me == tls[t]
           f  == [v_p |-> me.v_p, k |-> me.k, v |-> me.v]
<1>1. /\ OnTrail(t) /\ pc[t] \in Callers /\ Home(t) = "claimed" /\ Calls(t)
      /\ me.v_p \in Node /\ Root[me.v_p] = Root[me.v] /\ EdgesTried(t, me.v_p, me.k)
      /\ me.v \in Node /\ Walk(Depth(t), Trail(t), me.roots, Root, 0)
      /\ OwnTyped /\ me \in Tls /\ tls \in [Worker -> Tls] /\ me.i > 0
  BY AtAnEdge DEF AtEdge, Looked
<1>2. Class(t) = Root /\ (\A l : ~Awaits(t, l)) /\ pc[t] \notin Labels
  BY <1>1, AtCaller
<1>3. me.w \in Node /\ Marked(t, Depth(t) + 1, {})
  <2>1. ClaimKnown(t)
    BY <1>1 DEF Calls, ClaimHomes
  <2>2. Target(t) = me.w /\ Pushes(t) = Depth(t)
    BY <1>1 DEF Target, Pushes
  <2>. QED
    BY <1>1, <1>2, <2>1, <2>2 DEF ClaimKnown
<1>4. PICK w \in Node : w = me.w
  BY <1>3
<1>5. /\ tls'[t].rec = Append(me.rec, f) /\ tls'[t].roots = Append(me.roots, w) /\ tls'[t].v = w
      /\ tls'[t].i = me.i
  BY <1>1, <1>4 DEF Tls
<1>6. Goes(t, "enter")
  BY <1>1, OnToLabel DEF Callers
<1>7. Calls(t)' /\ ~Uniting(t)' /\ PassesNodes(t) /\ Home(t)' = "enter"
  BY <1>6, CallsGoes DEF Goes
<1>8. FrameRight(t, f, w)
  BY <1>1, <1>4 DEF FrameRight, OnTrail, AtSucc
<1>9. /\ Frames(t)' /\ Depth(t)' = Depth(t) + 1 /\ Trail(t)'[Depth(t) + 1] = w
      /\ \A i \in 1 .. Depth(t) : Trail(t)'[i] = Trail(t)[i]
  <2>1. Frames(t) /\ w \in Slot /\ f.v = tls[t].v
    BY <1>1, <1>4 DEF OnTrail, Slot, Node
  <2>2. PICK g : g = f
    OBVIOUS
  <2>. QED
    BY <1>1, <1>5, <1>8, <2>1, <2>2, TrailPushed
<1>10. Class(t)' = Root /\ Looked(t)' = 0
  BY <1>7 DEF Class, Looked, Frozen
<1>11. me.roots \in Seq(Slot) /\ Depth(t) \in Nat /\ w \in Slot
  BY <1>1, TlsTyped, TrailTyped DEF Slot, Node
<1>12. Walking(t)'
  <2>1. PICK L \in Nat, v \in {Trail(t)} : L = Depth(t) /\ v = Trail(t)
    BY <1>11
  <2>2. PICK v2, rts : v2 = Trail(t)' /\ rts = tls'[t].roots
    OBVIOUS
  <2>3. Walk(L + 1, v2, rts, Root, 0)
    <3>1. Walk(L, v, me.roots, Root, 0) /\ (\A i \in 1 .. L : v2[i] = v[i]) /\ v2[L + 1] = w
      BY <1>1, <1>9, <2>1, <2>2
    <3>2. PICK r \in Seq(Slot) : r = me.roots
      BY <1>11
    <3>3. Walk(L + 1, v2, Append(r, w), Root, 0)
      BY <1>11, <3>1, <3>2, WalkPush
    <3>. QED
      BY <1>5, <2>2, <3>2, <3>3
  <2>. QED
    BY <1>9, <1>10, <2>1, <2>2, <2>3 DEF Walking
<1>13. Marked(t, Depth(t), {})'
  <2>1. PICK d : d = Depth(t) + 1
    OBVIOUS
  <2>2. Marked(t, d, {})'
    BY <1>3, <2>1, FrozenSame
  <2>. QED
    BY <1>9, <2>1, <2>2 DEF Marked
<1>14. OnTrail(t)'
  BY <1>5, <1>7, <1>9, <1>12, <1>13, <1>4 DEF OnTrail, Walking, AtEdge, AtSucc
<1>15. Stands(t)'
  BY <1>1, <1>5, <1>7, <1>14 DEF Stands, Searching
<1>16. BitsHome(t)'
  <2>1. ASSUME NEW n \in Node, Visited(t, n)
        PROVE  Dead(n) \/ OnRoots(Root, Append(me.roots, w), n)
    <3>1. Dead(n) \/ OnRoots(Root, me.roots, n) \/ Root[n] = Root[w]
      <4>1. BitsHome(t) /\ Target(t) = w
        BY <1>1, <1>4, SearchBase DEF Target
      <4>. QED
        BY <1>2, <2>1, <4>1 DEF BitsHome
    <3>2. /\ Len(Append(me.roots, w)) = Len(me.roots) + 1 /\ Append(me.roots, w)[Len(me.roots) + 1] = w
          /\ Len(me.roots) \in Nat
          /\ \A a \in 1 .. Len(me.roots) : Append(me.roots, w)[a] = me.roots[a]
      BY <1>11
    <3>3. OnRoots(Root, me.roots, n) => OnRoots(Root, Append(me.roots, w), n)
      BY <3>2 DEF OnRoots
    <3>4. Root[n] = Root[w] => OnRoots(Root, Append(me.roots, w), n)
      <4>1. Len(me.roots) + 1 \in 1 .. Len(Append(me.roots, w))
        BY <3>2
      <4>. QED
        BY <3>2, <4>1 DEF OnRoots
    <3>. QED
      BY <3>1, <3>3, <3>4
  <2>2. ASSUME NEW n \in Node, Visited(t, n)'
        PROVE  Dead(n)' \/ OnRoots(Class(t), tls[t].roots, n)'
    <3>1. Dead(n) \/ OnRoots(Root, Append(me.roots, w), n)
      BY <2>1, <2>2, FrozenSame
    <3>2. OnRoots(Class(t)', tls'[t].roots, n) <=> OnRoots(Root, Append(me.roots, w), n)
      BY <1>5, <1>10
    <3>3. Dead(n)' <=> Dead(n)
      BY FrozenSame
    <3>. QED
      BY <3>1, <3>2, <3>3 DEF OnRoots
  <2>. QED
    BY <2>2 DEF BitsHome
<1>. QED
  BY <1>7, <1>15, <1>16 DEF Own

\* The three answers of make_claim.
LEMMA ClaimedOwn ==
  ASSUME Search, Frozen, NEW t \in Worker, Claimed(t)
  PROVE  Own(t)' /\ PassesNodes(t)
<1> DEFINE me == tls[t]
<1>1. pc[t] = "claimed"
  BY DEF Claimed
<1>2. /\ OnTrail(t) /\ pc[t] \in Callers /\ Home(t) = "claimed" /\ Calls(t)
      /\ Walk(Depth(t), Trail(t), me.roots, Root, 0) /\ OwnTyped
      /\ me.v_p \in Node /\ me.k < Len(G[me.v_p]) /\ me.w = Successor(t, me.v_p, me.k)
  BY <1>1, AtAnEdge DEF AtEdge, Looked, OnTrail, AtSucc
<1>3. (\A l : ~Awaits(t, l)) /\ pc[t] \notin Labels
  BY <1>2, AtCaller
<1>4. /\ ret[t].code = "CLAIM_DEAD" => Dead(me.w)
      /\ ret[t].code = "CLAIM_FOUND" => OnRoots(Root, me.roots, me.w)
  <2>1. ClaimKnown(t)
    BY <1>2 DEF Calls, ClaimHomes
  <2>2. Target(t) = me.w
    BY <1>2 DEF Target
  <2>3. ~(pc[t] \in FindLabels) /\ pc[t] \notin {"claim_dead", "claim_found", "claim_or", "claim_check", "claim_again"}
    BY <1>1, <1>3 DEF Labels, FindLabels
  <2>. QED
    BY <1>2, <1>3, <2>1, <2>2, <2>3 DEF ClaimKnown
<1>5. ret[t].code \notin Claims => ~Claiming(t)
  BY <1>1, <1>3 DEF Claiming
<1>6. CASE ret[t].code = "CLAIM_DEAD" /\ NextEdge(t)
  BY <1>1, <1>2, <1>4, <1>5, <1>6, OwnNextEdge DEF Claims, EdgeDone, AtEdge
<1>7. CASE ret[t].code = "CLAIM_FOUND" /\ CallSameset(t, me.w, me.v, "found") /\ tls' = tls
  <2>1. Walk(Depth(t), Trail(t), me.roots, Root, me.w)
    <3>1. PICK L \in Nat : L = Depth(t)
      BY <1>2, TrailTyped
    <3>. QED
      BY <1>2, <3>1, WalkLook
  <2>. QED
    BY <1>1, <1>4, <1>5, <1>7, <2>1, OwnSameset DEF Claims, AtSucc
<1>8. CASE /\ ret[t].code \in Claims
           /\ tls' = [tls EXCEPT ![t].unique = @ + First(t),
                                 ![t].rec = Append(@, [v_p |-> me.v_p, k |-> me.k, v |-> me.v]),
                                 ![t].roots = Append(@, me.w), ![t].v = me.w, ![t].w = 0]
           /\ Resume(t, "enter")
  BY <1>1, <1>8, ClaimedPush
<1>. QED
  BY <1>6, <1>7, <1>8 DEF Claimed, Claims

\* The roots are states of the trail.
LEMMA RootsOnTrail ==
  ASSUME OwnTyped, Sound, NEW t \in Worker, tls[t].v \in Node, Frames(t), NEW rts, NEW c, NEW w,
         Walk(Depth(t), Trail(t), rts, c, w), NEW a \in 1 .. Len(rts)
  PROVE  /\ rts[a] \in Node
         /\ \E i \in 1 .. Depth(t) : rts[a] = Trail(t)[i]
<1>1. PICK p \in [1 .. Len(rts) -> 1 .. Depth(t)] : At(Depth(t), Trail(t), rts, p)
  BY DEF Walk
<1>2. p[a] \in 1 .. Depth(t) /\ rts[a] = Trail(t)[p[a]]
  BY <1>1 DEF At
<1>. QED
  BY <1>2, TrailReach

\* The return of unite: the loop of line 631 asks again.
LEMMA UnitedOwn ==
  ASSUME Search, Frozen, NEW t \in Worker, United(t)
  PROVE  Own(t)' /\ PassesNodes(t)
<1>1. pc[t] = "united" /\ tls' = tls /\ CallSameset(t, tls[t].w, tls[t].v, "found")
  BY DEF United
<1>2. OnTrail(t) /\ Home(t) = "united" /\ Walk(Depth(t), Trail(t), tls[t].roots, Root, tls[t].w)
  BY <1>1, AtAnEdge DEF AtEdge, Looked
<1>3. OnRoots(Root, tls[t].roots, tls[t].w)
  BY <1>1, <1>2 DEF OnTrail, Class, Uniting
<1>4. ~Claiming(t)
  BY <1>2 DEF Claiming, ClaimHomes
<1>. QED
  BY <1>1, <1>2, <1>3, <1>4, OwnSameset DEF AtSucc

\* line 635: the top root joins the one below it
LEMMA FoundUnites ==
  ASSUME Search, Frozen, NEW t \in Worker, pc[t] = "found", ret[t].code = "different",
         tls' = [tls EXCEPT ![t].roots = Pop(tls[t].roots)],
         CallUnite(t, Top(Pop(tls[t].roots)), Top(tls[t].roots), "united")
  PROVE  Own(t)' /\ PassesNodes(t)
<1> DEFINE me == tls[t]
<1>1. /\ OnTrail(t) /\ pc[t] \in Callers /\ Home(t) = "found" /\ Calls(t)
      /\ me.v \in Node /\ Walk(Depth(t), Trail(t), me.roots, Root, me.w)
      /\ OwnTyped /\ me \in Tls /\ tls \in [Worker -> Tls]
  BY AtAnEdge DEF AtEdge, Looked
<1>2. PICK rts \in Seq(Slot) : rts = me.roots
  BY <1>1, TlsTyped
<1>3. PICK x, y : x = Top(Pop(rts)) /\ y = Top(rts)
  OBVIOUS
<1>4. PICK rest : rest = Pop(rts)
  OBVIOUS
<1>5. PICK d : d = JoinClass(Root, x, y)
  OBVIOUS
<1>6. /\ Len(rts) > 1 /\ Mutual(x, y)
      /\ Walk(Depth(t), Trail(t), rest, d, me.w) /\ OnRoots(d, rest, me.w)
  <2>1. TwoRoots(t, rts)
    BY <1>1, <1>2 DEF Calls, Differs
  <2>. QED
    BY <2>1, <1>3, <1>4, <1>5 DEF TwoRoots
<1>7. /\ Len(rts) \in Nat /\ y = rts[Len(rts)] /\ x = rest[Len(rts) - 1]
      /\ x = rts[Len(rts) - 1]
      /\ Len(rest) = Len(rts) - 1 /\ \A a \in 1 .. Len(rts) - 1 : rest[a] = rts[a]
  BY <1>3, <1>4, <1>6, TopTwo
<1>8. x \in Node /\ y \in Node
  <2>1. Sound /\ Frames(t)
    BY <1>1, SearchBase DEF SetsRight, OnTrail
  <2>2. Len(rts) \in 1 .. Len(rts) /\ Len(rts) - 1 \in 1 .. Len(rts)
    BY <1>6, <1>7
  <2>3. \A a \in 1 .. Len(rts) : rts[a] \in Node
    BY <1>1, <1>2, <2>1, RootsOnTrail
  <2>. QED
    BY <1>7, <2>2, <2>3
<1>9. /\ tls'[t].rec = me.rec /\ tls'[t].v = me.v /\ tls'[t].i = me.i
      /\ tls'[t].v_p = me.v_p /\ tls'[t].k = me.k /\ tls'[t].w = me.w /\ tls'[t].roots = rest
  BY <1>1, <1>2, <1>4 DEF Tls
<1>10. /\ Home(t)' = "united" /\ pc'[t] = "find" /\ (\A l : Awaits(t, l)' <=> l = "unite_a") /\ PassesNodes(t)
       /\ loc'[t].unite.a = x /\ loc'[t].unite.b = y
  BY <1>1, <1>2, <1>3, <1>8, CalledUnite DEF Callers
<1>11. Calls(t)' /\ Uniting(t)'
  BY <1>6, <1>8, <1>10, CallsUnite
<1>12. Class(t)' = d
  BY <1>5, <1>10, <1>11 DEF Class, Frozen
<1>13. Stands(t)'
  BY <1>6, <1>9, <1>10, <1>12, StandsLook DEF AtSucc
<1>14. BitsHome(t)'
  <2>1. ASSUME NEW n \in Node, Visited(t, n)
        PROVE  Dead(n) \/ OnRoots(d, rest, n)
    <3>1. Dead(n) \/ OnRoots(Root, rts, n)
      <4>1. BitsHome(t) /\ Class(t) = Root /\ ~Claiming(t)
        BY <1>1, SearchBase, AtCaller DEF Claiming, ClaimHomes
      <4>. QED
        BY <1>2, <2>1, <4>1 DEF BitsHome
    <3>2. ASSUME NEW a \in 1 .. Len(rts), Root[rts[a]] = Root[n] PROVE OnRoots(d, rest, n)
      <4>1. n \in Slot /\ x \in Slot /\ rts[a] \in Slot
        <5>1. rts[a] \in Slot
          BY <1>2
        <5>2. Node \subseteq Slot
          BY DEF Node, Slot
        <5>. QED
          BY <1>8, <5>1, <5>2
      <4>2. CASE a \in 1 .. Len(rts) - 1
        <5>1. d[rts[a]] = d[n] /\ rest[a] = rts[a] /\ a \in 1 .. Len(rest)
          BY <1>5, <1>7, <3>2, <4>1, <4>2 DEF JoinClass
        <5>. QED
          BY <5>1 DEF OnRoots
      <4>3. CASE a = Len(rts)
        <5>1. d[x] = Root[y] /\ d[n] = Root[y]
          BY <1>5, <1>7, <3>2, <4>1, <4>3 DEF JoinClass
        <5>2. Len(rts) - 1 \in 1 .. Len(rest)
          BY <1>6, <1>7
        <5>. QED
          BY <1>7, <5>1, <5>2 DEF OnRoots
      <4>. QED
        BY <1>7, <4>2, <4>3
    <3>. QED
      BY <3>1, <3>2 DEF OnRoots
  <2>2. ASSUME NEW n \in Node, Visited(t, n)'
        PROVE  Dead(n)' \/ OnRoots(Class(t), tls[t].roots, n)'
    <3>1. Dead(n) \/ OnRoots(d, rest, n)
      BY <2>1, <2>2, FrozenSame
    <3>2. OnRoots(Class(t)', tls'[t].roots, n) <=> OnRoots(d, rest, n)
      BY <1>9, <1>12
    <3>3. Dead(n)' <=> Dead(n)
      BY FrozenSame
    <3>. QED
      BY <3>1, <3>2, <3>3 DEF OnRoots
  <2>. QED
    BY <2>2 DEF BitsHome
<1>. QED
  BY <1>10, <1>11, <1>13, <1>14 DEF Own

\* The loop of line 631: what is popped and united.
LEMMA FoundOwn ==
  ASSUME Search, Frozen, NEW t \in Worker, Found(t)
  PROVE  Own(t)' /\ PassesNodes(t)
<1> DEFINE me == tls[t]
<1>1. pc[t] = "found"
  BY DEF Found
<1>2. /\ OnTrail(t) /\ pc[t] \in Callers /\ Home(t) = "found" /\ Calls(t)
      /\ Walk(Depth(t), Trail(t), me.roots, Root, me.w) /\ OwnTyped
      /\ me.v_p \in Node /\ Root[me.v_p] = Root[me.v]
      /\ me.k < Len(G[me.v_p]) /\ me.w = Successor(t, me.v_p, me.k)
  BY <1>1, AtAnEdge DEF AtEdge, Looked, OnTrail, AtSucc
<1>3. CASE ret[t].code = "same" /\ NextEdge(t)
  <2>1. Root[me.w] = Root[me.v]
    BY <1>2, <1>3, SearchBase DEF SameKnown, SameAsked, SameSets
  <2>2. Walk(Depth(t), Trail(t), me.roots, Root, 0)
    <3>1. PICK L \in Nat : L = Depth(t)
      BY <1>2, TrailTyped
    <3>2. Root[me.w] = Root[Trail(t)[L]]
      BY <1>2, <2>1, <3>1, TrailTyped
    <3>. QED
      BY <1>2, <3>1, <3>2, WalkLooked
  <2>3. EdgeDone(me.v_p, Successor(t, me.v_p, me.k))
    BY <1>2, <2>1 DEF EdgeDone
  <2>4. ~Claiming(t)
    BY <1>2 DEF Claiming, ClaimHomes
  <2>. QED
    BY <1>1, <1>2, <1>3, <2>2, <2>3, <2>4, OwnNextEdge DEF AtEdge
<1>4. CASE /\ ret[t].code = "different"
           /\ tls' = [tls EXCEPT ![t].roots = Pop(me.roots)]
           /\ CallUnite(t, Top(Pop(me.roots)), Top(me.roots), "united")
  BY <1>1, <1>4, FoundUnites
<1>. QED
  BY <1>3, <1>4 DEF Found

\* The roots that Backtrack leaves: all but the top, if that is v
LEMMA LeftOnRoots ==
  ASSUME OwnTyped, NEW t \in Worker, NEW n, OnRoots(Root, tls[t].roots, n)
  PROVE  Root[tls[t].v] = Root[n] \/ OnRoots(Root, RootsLeft(t), n)
<1>1. PICK rts \in Seq(Slot) : rts = tls[t].roots
  BY TlsTyped
<1>2. PICK a \in 1 .. Len(rts) : Root[rts[a]] = Root[n]
  BY <1>1 DEF OnRoots
<1>3. CASE Top(rts) # tls[t].v
  BY <1>1, <1>3 DEF RootsLeft
<1>4. CASE Top(rts) = tls[t].v
  <2>1. RootsLeft(t) = Pop(rts) /\ Top(rts) = rts[Len(rts)] /\ Len(rts) \in Nat
    BY <1>1, <1>2, <1>4 DEF RootsLeft, Top
  <2>2. CASE a = Len(rts)
    BY <1>2, <1>4, <2>1, <2>2
  <2>3. CASE a \in 1 .. Len(rts) - 1
    <3>1. Len(Pop(rts)) = Len(rts) - 1 /\ Pop(rts)[a] = rts[a]
      BY <2>1, <2>3 DEF Pop
    <3>. QED
      BY <1>2, <2>1, <2>3, <3>1 DEF OnRoots
  <2>. QED
    BY <2>1, <2>2, <2>3
<1>. QED
  BY <1>3, <1>4

\* The return from the first call.
LEMMA BacktrackOut ==
  ASSUME Search, Frozen, NEW t \in Worker, pc[t] = "backtrack", tls[t].rec = <<>>,
         tls' = [tls EXCEPT ![t].roots = RootsLeft(t), ![t].i = @ + 1, ![t].v = 0, ![t].v_p = 0, ![t].k = 0],
         Goto(t, "next")
  PROVE  Own(t)' /\ PassesNodes(t)
<1> DEFINE me == tls[t]
<1>1. OnTrail(t) /\ tls[t].i > 0 /\ pc[t] \in Callers /\ Home(t) = "backtrack" /\ Class(t) = Root
  BY AtTrail, AtCaller DEF Searching
<1>2. OwnTyped /\ me \in Tls /\ tls \in [Worker -> Tls] /\ me.roots \in Seq(Slot) /\ me.i \in Nat
  BY SearchBase, TlsTyped DEF OwnTyped
<1>3. Dead(me.v) /\ Walk(Depth(t), Trail(t), me.roots, Root, 0)
  BY <1>1 DEF OnTrail, Looked
<1>4. Len(me.roots) = 1 /\ me.roots[1] = me.v
  <2>1. Depth(t) = 1 /\ Trail(t)[1] = me.v
    BY <1>2, TrailTyped
  <2>. QED
    BY <1>2, <1>3, <2>1, WalkAlone
<1>5. RootsLeft(t) = <<>>
  BY <1>2, <1>4 DEF RootsLeft, Top, Pop
<1>6. tls'[t].roots = <<>> /\ tls'[t].rec = <<>> /\ tls'[t].i = me.i + 1
  BY <1>2, <1>5 DEF Tls
<1>7. Goes(t, "next")
  BY <1>1, OnToLabel DEF Callers
<1>8. Calls(t)' /\ PassesNodes(t) /\ Home(t)' = "next"
  BY <1>7, CallsGoes DEF Goes
<1>9. Stands(t)'
  BY <1>1, <1>2, <1>6, <1>8 DEF Stands, Searching
<1>10. BitsHome(t)'
  <2>1. ASSUME NEW n \in Node, Visited(t, n) PROVE Dead(n)
    <3>1. Dead(n) \/ OnRoots(Root, me.roots, n)
      BY <1>1, <2>1, SearchBase DEF BitsHome, Claiming, ClaimHomes
    <3>2. OnRoots(Root, me.roots, n) => Root[me.v] = Root[n]
      BY <1>4 DEF OnRoots
    <3>. QED
      BY <1>3, <3>1, <3>2 DEF Dead
  <2>2. \A n \in Node : Visited(t, n)' => Dead(n)'
    BY <2>1, FrozenSame
  <2>. QED
    BY <2>2 DEF BitsHome
<1>. QED
  BY <1>8, <1>9, <1>10 DEF Own

\* One frame less: lines 615-620
LEMMA TrailPopped ==
  ASSUME Frozen, OwnTyped, NEW t \in Worker, Frames(t), tls[t].rec # <<>>,
         tls'[t].rec = Pop(tls[t].rec), tls'[t].v = tls[t].rec[Len(tls[t].rec)].v
  PROVE  /\ Frames(t)' /\ Depth(t) > 1 /\ Depth(t)' = Depth(t) - 1
         /\ \A i \in 1 .. Depth(t) - 1 : Trail(t)'[i] = Trail(t)[i]
<1>1. /\ tls[t].rec \in Seq(Frame) /\ Len(tls[t].rec) \in Nat \ {0} /\ Depth(t) = Len(tls[t].rec) + 1
  BY TlsTyped DEF Depth
<1>2. PICK s, n : n \in Nat \ {0} /\ s = tls[t].rec /\ n = Len(s)
  BY <1>1
<1>3. Len(tls'[t].rec) = n - 1 /\ \A i \in 1 .. n - 1 : tls'[t].rec[i] = s[i]
  BY <1>1, <1>2 DEF Pop
<1>4. Depth(t)' = n /\ Depth(t) = n + 1
  BY <1>1, <1>2, <1>3 DEF Depth
<1>5. Trail(t)' = [i \in 1 .. n |-> IF i < n THEN tls'[t].rec[i].v ELSE s[n].v]
  BY <1>2, <1>4 DEF Trail
<1>6. Trail(t) = [i \in 1 .. n + 1 |-> IF i < n + 1 THEN s[i].v ELSE tls[t].v]
  BY <1>2, <1>4 DEF Trail
<1>7. ASSUME NEW i \in 1 .. n PROVE Trail(t)'[i] = Trail(t)[i]
  <2>1. Trail(t)[i] = s[i].v
    BY <1>2, <1>6
  <2>2. CASE i = n
    BY <1>2, <1>5, <2>1, <2>2
  <2>3. CASE i \in 1 .. n - 1
    <3>1. Trail(t)'[i] = tls'[t].rec[i].v
      BY <1>2, <1>5, <2>3
    <3>. QED
      BY <1>3, <2>1, <2>3, <3>1
  <2>. QED
    BY <1>2, <2>2, <2>3
<1>8. ASSUME NEW i \in 1 .. n - 1 PROVE FrameRight(t, tls[t].rec[i], Trail(t)[i + 1])'
  <2>1. PICK g, m : g = tls'[t].rec[i] /\ m = Trail(t)'[i + 1]
    OBVIOUS
  <2>2. g = tls[t].rec[i]
    BY <1>2, <1>3, <2>1
  <2>3. m = Trail(t)[i + 1]
    BY <1>2, <1>7, <2>1
  <2>4. i \in 1 .. Len(tls[t].rec)
    BY <1>2
  <2>5. FrameRight(t, g, m)
    BY <2>2, <2>3, <2>4 DEF Frames
  <2>6. FrameRight(t, g, m)'
    BY <2>5, FrozenSame
  <2>. QED
    BY <2>1, <2>6 DEF FrameRight
<1>9. Frames(t)'
  BY <1>2, <1>3, <1>8 DEF Frames
<1>. QED
  BY <1>2, <1>4, <1>7, <1>9

\* The return to the call before.
LEMMA BacktrackIn ==
  ASSUME Search, Frozen, NEW t \in Worker, pc[t] = "backtrack", tls[t].rec # <<>>,
         NEW frame, frame = tls[t].rec[Len(tls[t].rec)],
         tls' = [tls EXCEPT ![t].roots = RootsLeft(t), ![t].rec = Pop(@),
                            ![t].v = frame.v, ![t].v_p = frame.v_p, ![t].k = frame.k],
         CallFind(t, frame.v, <<"is_dead">>)
  PROVE  Own(t)' /\ PassesNodes(t)
<1> DEFINE me == tls[t]
<1>1. OnTrail(t) /\ tls[t].i > 0 /\ pc[t] \in Callers /\ Home(t) = "backtrack" /\ Class(t) = Root /\ me.v \in Node
  BY AtTrail, AtCaller DEF Searching
<1>2. OwnTyped /\ me \in Tls /\ tls \in [Worker -> Tls] /\ me.roots \in Seq(Slot) /\ me.rec \in Seq(Frame)
  BY SearchBase, TlsTyped DEF OwnTyped
<1>3. /\ Walk(Depth(t), Trail(t), me.roots, Root, 0) /\ Frames(t) /\ Marked(t, Depth(t), {})
      /\ Dead(me.v) \/ Root[frame.v] = Root[me.v]
  BY <1>1 DEF OnTrail, Looked
<1>4. PICK L, v : L = Depth(t) /\ v = Trail(t)
  OBVIOUS
<1>5. /\ L \in Nat /\ L > 1 /\ L = Len(me.rec) + 1 /\ Len(me.rec) \in Nat
      /\ v[L] = me.v /\ v[L - 1] = frame.v /\ frame \in Frame
  <2>1. /\ Depth(t) \in Nat \ {0} /\ Len(me.rec) \in Nat /\ Depth(t) = Len(me.rec) + 1 /\ Trail(t)[Depth(t)] = me.v
        /\ \A i \in 1 .. Len(me.rec) : Trail(t)[i] = me.rec[i].v /\ me.rec[i] \in Frame
    BY <1>2, TrailTyped
  <2>2. Len(me.rec) > 0
    BY <1>2
  <2>3. Len(me.rec) \in 1 .. Len(me.rec)
    BY <2>1, <2>2
  <2>. QED
    BY <1>4, <2>1, <2>2, <2>3
<1>6. FrameRight(t, frame, me.v)
  <2>1. Len(me.rec) \in 1 .. Len(me.rec)
    BY <1>5
  <2>2. FrameRight(t, me.rec[Len(me.rec)], v[Len(me.rec) + 1])
    BY <1>3, <1>4, <2>1 DEF Frames
  <2>. QED
    BY <1>5, <2>2
<1>7. /\ \A i \in 1 .. L : v[i] \in Node
      /\ \A i, j \in 1 .. L : i <= j => Reaches(v[i], v[j])
  BY <1>1, <1>2, <1>3, <1>4, TrailReach, SearchBase DEF SetsRight
<1>8. PICK rts : rts = RootsLeft(t)
  OBVIOUS
<1>9. rts \in Seq(Slot)
  BY <1>2, <1>8, PopTyped DEF RootsLeft
<1>10. Walk(L - 1, v, rts, Root, 0)
  <2>1. ASSUME NEW j \in 1 .. L - 1, Root[v[j]] = Root[v[L]]
        PROVE  Root[v[L - 1]] = Root[v[L]]
    <3>1. CASE Root[frame.v] = Root[me.v]
      BY <1>5, <3>1
    <3>2. CASE Dead(me.v)
      <4>1. j \in 1 .. L /\ L - 1 \in 1 .. L /\ L \in 1 .. L /\ j <= L - 1 /\ L - 1 <= L
        BY <1>5
      <4>2. v[j] \in Node /\ v[L - 1] \in Node /\ v[L] \in Node
        BY <1>7, <4>1
      <4>3. Reaches(v[L], v[j])
        BY <2>1, <4>2, SearchBase DEF SetsRight, Sound, Mutual
      <4>4. Reaches(v[j], v[L - 1]) /\ Reaches(v[L - 1], v[L])
        BY <1>7, <4>1
      <4>5. Mutual(v[L], v[L - 1])
        BY <4>2, <4>3, <4>4, ReachOn DEF Mutual
      <4>. QED
        BY <1>5, <3>2, <4>2, <4>5, SearchBase DEF SetsRight, Whole
    <3>. QED
      BY <1>3, <3>1, <3>2
  <2>2. RootsLeft(t) = IF Top(me.roots) = v[L] THEN Pop(me.roots) ELSE me.roots
    BY <1>5 DEF RootsLeft
  <2>3. Walk(L, v, me.roots, Root, 0)
    BY <1>3, <1>4
  <2>4. (\E j \in 1 .. L - 1 : Root[v[j]] = Root[v[L]]) => Root[v[L - 1]] = Root[v[L]]
    BY <2>1
  <2>5. Walk(L - 1, v, IF Top(me.roots) = v[L] THEN Pop(me.roots) ELSE me.roots, Root, 0)
    BY <1>2, <1>5, <2>3, <2>4, WalkBack
  <2>. QED
    BY <1>8, <2>2, <2>5
<1>11. /\ tls'[t].rec = Pop(me.rec) /\ tls'[t].v = frame.v /\ tls'[t].i = me.i
       /\ tls'[t].v_p = frame.v_p /\ tls'[t].k = frame.k /\ tls'[t].roots = rts
  BY <1>2, <1>8 DEF Tls
<1>12. Frames(t)' /\ Depth(t)' = L - 1 /\ \A i \in 1 .. L - 1 : Trail(t)'[i] = v[i]
  BY <1>2, <1>3, <1>4, <1>11, TrailPopped
<1>13. /\ pc'[t] = "find" /\ Home(t)' = "is_dead" /\ path'[t][1] = frame.v /\ (\A l : ~Awaits(t, l)')
       /\ PassesNodes(t)
  BY <1>1, CalledFind DEF Callers
<1>14. Calls(t)' /\ ~Uniting(t)'
  BY <1>11, <1>13, CallsFind
<1>15. Class(t)' = Root /\ Looked(t)' = 0
  BY <1>13, <1>14 DEF Class, Looked, Frozen
<1>16. Walking(t)'
  <2>1. PICK v2 : v2 = Trail(t)'
    OBVIOUS
  <2>2. L - 1 \in Nat
    BY <1>5
  <2>3. Walk(L - 1, v2, rts, Root, 0)
    BY <1>10, <1>12, <2>1, <2>2, WalkSame
  <2>. QED
    BY <1>11, <1>12, <1>15, <2>1, <2>3 DEF Walking
<1>17. Marked(t, Depth(t), {})'
  <2>1. Marked(t, L - 1, {})
    <3>1. PICK S \in SUBSET (Node \ {}) : L <= Cardinality(S) /\ \A m \in S : w_id(t) \subseteq uf[m].workers
      BY <1>3, <1>4 DEF Marked
    <3>2. Cardinality(S) \in Nat
      <4>1. IsFiniteSet(S)
        <5>1. IsFiniteSet(Node)
          BY UFConstants, FS_Interval DEF Node
        <5>. QED
          BY <5>1, FS_Subset
      <4>. QED
        BY <4>1, FS_CardinalityType
    <3>3. L - 1 <= Cardinality(S)
      BY <1>5, <3>1, <3>2
    <3>. QED
      BY <3>1, <3>3 DEF Marked
  <2>2. PICK d : d = L - 1
    OBVIOUS
  <2>3. Marked(t, d, {})'
    BY <2>1, <2>2, FrozenSame
  <2>. QED
    BY <1>12, <2>2, <2>3 DEF Marked
<1>18. /\ EdgesTried(t, tls[t].v_p, tls[t].k)' /\ (Root[tls[t].v_p] = Root[tls[t].v])'
       /\ (tls[t].k < Len(G[tls[t].v_p]))'
       /\ EdgeDone(tls[t].v_p, Successor(t, tls[t].v_p, tls[t].k))'
  <2>1. PICK m, k : m = frame.v_p /\ k = frame.k
    OBVIOUS
  <2>2. /\ Root[m] = Root[frame.v] /\ EdgesTried(t, m, k) /\ k < Len(G[m]) /\ me.v = Successor(t, m, k)
    BY <1>6, <2>1 DEF FrameRight
  <2>3. EdgeDone(m, me.v)
    BY <1>3, <2>2 DEF EdgeDone
  <2>4. PICK n : n = me.v
    OBVIOUS
  <2>5. EdgeDone(m, n)' /\ EdgesTried(t, m, k)' /\ Successor(t, m, k)' = n
    BY <2>2, <2>3, <2>4, FrozenSame
  <2>6. (k < Len(G[m]))' /\ Root'[m] = Root'[frame.v]
    BY <2>2 DEF Frozen
  <2>7. tls'[t].v_p = m /\ tls'[t].k = k /\ tls'[t].v = frame.v
    BY <1>11, <2>1
  <2>8. EdgesTried(t, tls[t].v_p, tls[t].k)'
    BY <2>5, <2>7 DEF EdgesTried
  <2>9. EdgeDone(tls[t].v_p, Successor(t, tls[t].v_p, tls[t].k))'
    BY <2>5, <2>7 DEF EdgeDone, Dead, Successor
  <2>. QED
    BY <2>6, <2>7, <2>8, <2>9
<1>19. tls'[t].v \in Node
  BY <1>6, <1>11 DEF FrameRight
<1>20. OnTrail(t)'
  BY <1>12, <1>13, <1>16, <1>17, <1>18, <1>19 DEF OnTrail, Walking, AtSucc, AtEdge
<1>21. Stands(t)'
  BY <1>1, <1>11, <1>13, <1>20 DEF Stands, Searching
<1>22. BitsHome(t)'
  <2>1. ASSUME NEW n \in Node, Visited(t, n) PROVE Dead(n) \/ OnRoots(Root, rts, n)
    <3>1. Dead(n) \/ OnRoots(Root, me.roots, n)
      BY <1>1, <2>1, SearchBase DEF BitsHome, Claiming, ClaimHomes
    <3>2. OnRoots(Root, me.roots, n) => Root[me.v] = Root[n] \/ OnRoots(Root, rts, n)
      BY <1>2, <1>8, LeftOnRoots
    <3>3. CASE Root[me.v] = Root[n] /\ Dead(me.v)
      BY <3>3 DEF Dead
    <3>4. CASE Root[me.v] = Root[n] /\ Root[frame.v] = Root[me.v]
      <4>1. L - 1 \in Nat /\ L - 1 \in 1 .. L - 1
        BY <1>5
      <4>2. Covered(v, rts, Root, L - 1)
        BY <1>9, <1>10, <4>1, WalkRoots
      <4>. QED
        BY <1>5, <3>4, <4>2 DEF Covered, OnRoots
    <3>. QED
      BY <1>3, <3>1, <3>2, <3>3, <3>4
  <2>2. ASSUME NEW n \in Node, Visited(t, n)'
        PROVE  Dead(n)' \/ OnRoots(Class(t), tls[t].roots, n)'
    <3>1. Dead(n) \/ OnRoots(Root, rts, n)
      BY <2>1, <2>2, FrozenSame
    <3>2. OnRoots(Class(t)', tls'[t].roots, n) <=> OnRoots(Root, rts, n)
      BY <1>11, <1>15
    <3>3. Dead(n)' <=> Dead(n)
      BY FrozenSame
    <3>. QED
      BY <3>1, <3>2, <3>3 DEF OnRoots
  <2>. QED
    BY <2>2 DEF BitsHome
<1>. QED
  BY <1>13, <1>14, <1>21, <1>22 DEF Own

\* The return: the top root is popped when it is the current state (line 644).
LEMMA BacktrackOwn ==
  ASSUME Search, Frozen, NEW t \in Worker, Backtrack(t)
  PROVE  Own(t)' /\ PassesNodes(t)
BY BacktrackOut, BacktrackIn DEF Backtrack
==============================================================================
