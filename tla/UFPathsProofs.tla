---------------------------- MODULE UFPathsProofs ----------------------------
(***************************************************************************)
(* Theorems about workers that close cycles with claim, sameset and unite, *)
(* for every number of workers and every choice of paths: what the calls   *)
(* promise to the search that makes them, as long as no state is explored. *)
(***************************************************************************)
EXTENDS UFPaths, UFSetsProofs

Walkers == {"descend", "close", "closing", "done"}

\* t is in the unite that follows an answer "different".
Uniting(t) == Home(t) = "close" /\ stack[t] # <<>>

\* Where the joined part of t's path starts
JoinedFrom(t) == IF Uniting(t) THEN pos[t] + 1 ELSE pos[t]

WalkTyped ==
  /\ walk \in [Worker -> Seq(Node) \ {<<>>}]
  /\ pos \in [Worker -> Nat]

\* What t knows of its path: the upper part of it is in one set, unite works on
\* the two states below, and sameset is asked for the first and the last state.
OnPath(t) ==
  LET p == walk[t]
      k == pos[t]
  IN  /\ k <= Len(p)
      /\ Home(t) # "descend" =>
           /\ k > 0
           /\ \A j \in JoinedFrom(t) + 1 .. Len(p) : Root[p[j]] = Root[p[j-1]]
      /\ Uniting(t) => Busy(t) /\ k < Len(p) /\ loc[t].unite.a = p[k] /\ loc[t].unite.b = p[k+1]
      /\ Home(t) = "closing" /\ k = 1 => SameSets(t, p[1], p[1]) /\ Meets(t)

PathsInv ==
  /\ SetsInv(Walkers) /\ BitsInv /\ NoTombs /\ WalkTyped
  /\ \A t \in Worker : Plain(t) /\ OnPath(t)

\* The labels of the callers in the walk are none of the union-find's.
LEMMA WalkersOutside == Outside(Walkers)
BY DEF Outside, Walkers, Labels

\* Neighbours in one set: all in one set.
LEMMA ChainOne ==
  ASSUME NEW n \in Nat, NEW f, \A j \in 2 .. n : f[j] = f[j-1]
  PROVE  \A j \in 1 .. n : f[j] = f[1]
<1> DEFINE T == {j \in 1 .. n : f[j] # f[1]}
<1>1. SUFFICES ASSUME T # {} PROVE FALSE
  OBVIOUS
<1>2. T \subseteq Nat
  OBVIOUS
<1> HIDE DEF T
<1>3. PICK m \in T : \A k \in T : m <= k
  BY <1>1, <1>2, LeastNumber
<1>4. m \in 2 .. n /\ f[m] # f[1]
  BY <1>3 DEF T
<1>5. m - 1 \notin T
  BY <1>3, <1>4
<1>. QED
  BY <1>4, <1>5 DEF T

\* It holds initially.
LEMMA InitPaths == Init => PathsInv
<1> SUFFICES ASSUME Init PROVE PathsInv
  OBVIOUS
<1>1. /\ \A w \in Worker : pc[w] = "descend" /\ stack[w] = <<>> /\ path[w] = <<>> /\ ret[w] = NoRet
      /\ \A w \in Worker : loc[w].unite = NoUnite
      /\ pc \in [Worker -> Walkers]
  BY DEF Init, UFInit, Walkers
<1>2. Typed(Walkers)
  <2>1. uf_node \in Entry
    BY SlotZero DEF uf_node, Entry, WorkerSet
  <2>2. [first |-> FALSE, same |-> NoSame, pick |-> NoPick, unite |-> NoUnite] \in Locals
    BY NoneTyped DEF Locals
  <2>3. UfTyped /\ LocTyped
    BY <2>1, <2>2 DEF Init, UFInit, UfTyped, LocTyped
  <2>4. ret \in [Worker -> [code : Codes, node : Slot]]
    BY SlotZero DEF Init, UFInit, NoRet, Codes
  <2>5. stack \in [Worker -> Seq(Back(Walkers))] /\ path \in [Worker -> Seq(Slot)]
    BY DEF Init, UFInit
  <2>. QED
    BY <1>1, <2>3, <2>4, <2>5 DEF Typed, ControlTyped
<1>3. Upward
  <2>1. ParentIncreasing
    BY DEF Init, UFInit, uf_node, ParentIncreasing
  <2>2. \A w \in Worker : Ascending(path[w])
    BY <1>1 DEF Ascending
  <2>. QED
    BY <1>1, <2>1, <2>2 DEF Upward, NoUnite
<1>4. Locked
  <2>1. \A w \in Worker : HoldsUf(w) = {} /\ HoldsList(w) = {}
    BY <1>1 DEF HoldsUf, HoldsList, NoUnite
  <2>. QED
    BY <1>1, <2>1 DEF Locked, NoUnite
<1>5. OneHolder
  BY <1>1 DEF OneHolder, Holding, NoUnite
<1>6. ASSUME NEW w \in Worker
      PROVE  Knows(w, Walkers) /\ Plain(w)
  <2>1. InCall(w, Walkers)
    BY <1>1 DEF InCall, Walkers
  <2>2. \A l : ~Awaits(w, l)
    BY <1>1 DEF Awaits
  <2>3. ~Busy(w) /\ pc[w] \notin FindLabels
    BY <1>1, <2>2 DEF Busy, Region, RegionLabels, FindLabels
  <2>. QED
    BY <1>1, <2>1, <2>3, IdleSets DEF Knows, PathOne, Plain, PickLabels, FindLabels, ListLabels
<1>7. SetsInv(Walkers)
  BY <1>2, <1>3, <1>4, <1>5, <1>6, WalkersOutside DEF SetsInv
<1>8. BitsInv
  BY <1>1, WalkersOutside, BitsInit DEF Init
<1>9. NoTombs
  BY DEF Init, UFInit, uf_node, NoTombs, LIVE, TOMB
<1>10. WalkTyped /\ \A t \in Worker : pos[t] = 0
  BY PathsAssumption DEF Init, WalkTyped
<1>11. \A t \in Worker : OnPath(t)
  <2>1. \A t \in Worker : Home(t) = "descend" /\ Len(walk[t]) \in Nat
    BY <1>1, <1>10 DEF Home, WalkTyped
  <2>. QED
    BY <1>10, <2>1 DEF OnPath, Uniting
<1>. QED
  BY <1>6, <1>7, <1>8, <1>9, <1>10, <1>11 DEF PathsInv

\* The steps of a walker use the union-find as CallerStep says.
LEMMA WalkCalls ==
  ASSUME PathsInv, NEW t \in Worker, Descend(t) \/ Close(t) \/ Closing(t)
  PROVE  /\ CallerStep(t, Walkers) /\ stack[t] = <<>> /\ Home(t) = pc[t] /\ pos[t] \in Nat
         /\ WalkTyped' /\ \A x \in Worker \ {t} : pos'[x] = pos[x] /\ walk'[x] = walk[x]
<1>1. {"descend", "close", "closing", "done"} \subseteq Walkers
  BY DEF Walkers
<1>2. pc[t] \in Walkers /\ UNCHANGED <<uf, G_Color, walk>>
  BY <1>1 DEF Descend, Close, Closing
<1>3. /\ stack[t] = <<>>
  <2>1. pc[t] \notin Labels
    BY <1>2 DEF Walkers, Labels
  <2>2. pc[t] \notin FindLabels \cup PickLabels
    BY <2>1, LabelSets
  <2>. QED
    BY <2>1, <2>2 DEF PathsInv, SetsInv, Knows, InCall
<1>4. /\ walk[t] \in Seq(Node) /\ walk[t] # <<>> /\ Len(walk[t]) \in Nat /\ Len(walk[t]) > 0
      /\ pos[t] \in Nat /\ pos[t] <= Len(walk[t]) /\ Node \subseteq Slot
  <2>1. walk[t] \in Seq(Node) /\ walk[t] # <<>>
    BY DEF PathsInv, WalkTyped
  <2>2. pos[t] \in Nat /\ pos[t] <= Len(walk[t]) /\ Node \subseteq Slot
    BY DEF PathsInv, WalkTyped, OnPath, Node, Slot
  <2>. QED
    BY <2>1, <2>2, EmptySeq
<1>5. \A j \in 1 .. Len(walk[t]) : walk[t][j] \in Slot
  BY <1>4
<1>6. Home(t) = pc[t]
  BY <1>3 DEF Home
<1> DEFINE Stays == WalkTyped' /\ \A x \in Worker \ {t} : pos'[x] = pos[x] /\ walk'[x] = walk[x]
<1>10. ASSUME UNCHANGED pos \/ \E n \in Nat : pos' = [pos EXCEPT ![t] = n]
       PROVE  Stays
  <2>1. pos \in [Worker -> Nat] /\ walk \in [Worker -> Seq(Node) \ {<<>>}]
    BY DEF PathsInv, WalkTyped
  <2>2. walk' \in [Worker -> Seq(Node) \ {<<>>}] /\ walk' = walk
    BY <1>2, <2>1
  <2>3. pos' \in [Worker -> Nat] /\ \A x \in Worker \ {t} : pos'[x] = pos[x]
    BY <1>10, <2>1
  <2>. QED
    BY <2>2, <2>3 DEF WalkTyped
<1> HIDE DEF Stays
<1>7. CASE Descend(t)
  <2>2. Stays
    BY <1>4, <1>7, <1>10 DEF Descend
  <2>1. CallerStep(t, Walkers)
    <3>1. pos[t] < Len(walk[t]) => walk[t][pos[t] + 1] \in Slot
      BY <1>4, <1>5
    <3>. QED
      BY <1>1, <1>2, <1>4, <1>7, <3>1 DEF Descend, CallerStep
  <2>. QED
    BY <1>3, <1>4, <1>6, <2>1, <2>2 DEF Stays
<1>8. CASE Close(t)
  <2>1. walk[t][1] \in Slot /\ walk[t][Len(walk[t])] \in Slot
    BY <1>4, <1>5
  <2>2. CallerStep(t, Walkers)
    BY <1>1, <1>2, <1>8, <2>1 DEF Close, CallerStep
  <2>3. Stays
    BY <1>8, <1>10 DEF Close
  <2>. QED
    BY <1>3, <1>4, <1>6, <2>2, <2>3 DEF Stays
<1>9. CASE Closing(t)
  <2>1. pos[t] > 0
    BY <1>6, <1>9 DEF Closing, PathsInv, OnPath
  <2>2. ret[t].code = "different" => pos[t] > 1
    <3>1. pos[t] = 1 => Meets(t)
      BY <1>6, <1>9 DEF Closing, PathsInv, OnPath
    <3>. QED
      BY <1>4, <2>1, <3>1 DEF Meets
  <2>3. pos[t] > 1 => walk[t][pos[t] - 1] \in Slot /\ walk[t][pos[t]] \in Slot
    BY <1>4, <1>5
  <2>4. CallerStep(t, Walkers)
    BY <1>1, <1>2, <1>4, <1>9, <2>2, <2>3 DEF Closing, CallerStep
  <2>5. pos[t] > 1 => pos[t] - 1 \in Nat
    BY <1>4
  <2>6. Stays
    BY <1>9, <1>10, <2>2, <2>5 DEF Closing
  <2>. QED
    BY <1>3, <1>4, <1>6, <2>4, <2>6 DEF Stays
<1>. QED
  BY <1>7, <1>8, <1>9

\* The states of a path are nodes, and its length is a number.
LEMMA WalkFacts ==
  ASSUME WalkTyped, NEW t \in Worker
  PROVE  /\ Len(walk[t]) \in Nat /\ Len(walk[t]) > 0 /\ pos[t] \in Nat
         /\ \A j \in 1 .. Len(walk[t]) : walk[t][j] \in Slot
<1>1. walk[t] \in Seq(Node) /\ walk[t] # <<>> /\ pos[t] \in Nat /\ Node \subseteq Slot
  BY DEF WalkTyped, Node, Slot
<1>. QED
  BY <1>1, EmptySeq

\* A walker calls neither pick_from_list nor remove_from_list.
LEMMA WalkPlain ==
  ASSUME PathsInv, NEW t \in Worker, Descend(t) \/ Close(t) \/ Closing(t)
  PROVE  Plain(t)'
<1>1. Typed(Walkers) /\ Outside(Walkers) /\ InCall(t, Walkers) /\ CallerStep(t, Walkers)
  BY WalkCalls DEF PathsInv, SetsInv, Knows
<1>2. pc'[t] \in Walkers \cup {"find"}
  BY <1>1 DEF Descend, Close, Closing, CallSameset, CallUnite, CallClaim, CallFind, Call, Resume,
     Typed, ControlTyped, Walkers
<1>3. Walkers \cap (PickLabels \cup ListLabels \cup FindLabels \cup {"remove", "remove_color"}) = {}
  BY DEF Walkers, PickLabels, ListLabels, FindLabels
<1>4. "find" \notin PickLabels \cup ListLabels \cup {"remove", "remove_color"}
  BY DEF PickLabels, ListLabels
<1>5. pc'[t] = "find" => \E c \in Walkers, b \in {"claim_dead", "same_b", "unite_a"} :
                           stack'[t] = <<c>> \/ stack'[t] = <<c, b>>
  BY <1>1, <1>3, CallerMoves DEF FindLabels
<1>6. ASSUME NEW c, NEW b \in {"claim_dead", "same_b", "unite_a"}, stack'[t] = <<c>> \/ stack'[t] = <<c, b>>
      PROVE  \A l \in ListLabels \cup {"mark_dead"} : ~Awaits(t, l)'
  <2>1. stack'[t] = <<c>> => Len(stack'[t]) = 1
    OBVIOUS
  <2>2. stack'[t] = <<c, b>> => stack'[t][2] = b
    OBVIOUS
  <2>3. b \notin ListLabels \cup {"mark_dead"}
    BY DEF ListLabels
  <2>. QED
    BY <1>6, <2>1, <2>2, <2>3 DEF Awaits
<1>7. pc'[t] \in FindLabels => pc'[t] = "find"
  BY <1>2, <1>3
<1>. QED
  BY <1>2, <1>3, <1>4, <1>5, <1>6, <1>7 DEF Plain

\* A walker's own steps keep what it knows of its path.
LEMMA OwnWalk ==
  ASSUME PathsInv, NEW t \in Worker, Descend(t) \/ Close(t) \/ Closing(t), Root' = Root
  PROVE  OnPath(t)'
<1> DEFINE p == walk[t]
           k == pos[t]
<1>1. /\ Typed(Walkers) /\ Outside(Walkers) /\ InCall(t, Walkers) /\ UfTyped
      /\ CallerStep(t, Walkers) /\ pc[t] \in Walkers /\ stack[t] = <<>> /\ Home(t) = pc[t]
      /\ OnPath(t) /\ WalkTyped
  BY WalkCalls DEF PathsInv, SetsInv, Knows, Typed, CallerStep
<1>2. /\ Len(p) \in Nat /\ Len(p) > 0 /\ k \in Nat /\ k <= Len(p) /\ \A j \in 1 .. Len(p) : p[j] \in Slot
  BY <1>1, WalkFacts DEF OnPath
<1>3. walk' = walk /\ pos \in [Worker -> Nat]
  BY <1>1 DEF Descend, Close, Closing, WalkTyped
<1>4. ~Uniting(t)
  BY <1>1 DEF Uniting
<1>5. CASE Descend(t)
  <2>1. CASE k < Len(p) /\ pos' = [pos EXCEPT ![t] = k + 1] /\ CallClaim(t, p[k + 1], "descend")
    <3>1. Home(t)' = "descend"
      BY <1>1, <2>1, CallerHome
    <3>2. pos'[t] = k + 1 /\ k + 1 <= Len(p)
      BY <1>2, <1>3, <2>1
    <3>. QED
      BY <1>3, <3>1, <3>2 DEF OnPath, Uniting
  <2>2. CASE k = Len(p) /\ Resume(t, "close") /\ UNCHANGED pos
    <3>1. Home(t)' = "close" /\ stack'[t] = <<>>
      BY <1>1, <2>2, CallerHome DEF Resume
    <3>2. ~Uniting(t)' /\ JoinedFrom(t)' = k
      BY <2>2, <3>1 DEF Uniting, JoinedFrom
    <3>3. k + 1 .. Len(p) = {} /\ k > 0
      BY <1>2, <2>2
    <3>. QED
      BY <1>2, <1>3, <2>2, <3>1, <3>2, <3>3 DEF OnPath
  <2>. QED
    BY <1>5, <2>1, <2>2 DEF Descend
<1>6. CASE Close(t)
  <2>1. pc[t] = "close" /\ CallSameset(t, p[1], p[Len(p)], "closing") /\ pos' = pos
    BY <1>6 DEF Close
  <2>2. PICK x \in Slot, y \in Slot : x = p[1] /\ y = p[Len(p)]
    BY <1>2
  <2>3. "closing" \in Walkers
    BY DEF Walkers
  <2>4. SameSets(t, x, y)' /\ Home(t)' = "closing" /\ Meets(t)'
    BY <1>1, <2>1, <2>2, <2>3, SamesetCalled, SamesetMeets
  <2>5. ~Uniting(t)' /\ JoinedFrom(t)' = k /\ JoinedFrom(t) = k
    BY <1>4, <2>1, <2>4 DEF Uniting, JoinedFrom
  <2>6. k > 0 /\ \A j \in k + 1 .. Len(p) : Root[p[j]] = Root[p[j-1]]
    BY <1>1, <2>1, <2>5 DEF OnPath
  <2>7. k = 1 => SameSets(t, x, x)'
    <3>1. ASSUME k = 1
          PROVE  Root[p[Len(p)]] = Root[p[1]]
      <4> DEFINE f == [j \in 1 .. Len(p) |-> Root[p[j]]]
                 n == Len(p)
      <4>1. n \in Nat /\ n > 0 /\ (\A j \in 2 .. n : f[j] = f[j-1])
        BY <1>2, <2>6, <3>1
      <4>2. f[n] = Root[p[n]] /\ f[1] = Root[p[1]]
        BY <4>1
      <4> HIDE DEF f, n
      <4>3. f[n] = f[1]
        BY <4>1, ChainOne
      <4>. QED
        BY <4>2, <4>3 DEF n
    <3>2. k = 1 => Root'[x] = Root'[y]
      BY <2>2, <3>1
    <3>. QED
      BY <2>4, <3>2 DEF SameSets
  <2>. QED
    BY <1>2, <1>3, <2>1, <2>2, <2>4, <2>5, <2>6, <2>7 DEF OnPath
<1>7. CASE Closing(t)
  <2>1. k > 0 /\ \A j \in k + 1 .. Len(p) : Root[p[j]] = Root[p[j-1]]
    BY <1>1, <1>4, <1>7 DEF Closing, OnPath, JoinedFrom
  <2>2. CASE Resume(t, "done") /\ pos' = pos
    <3>1. Home(t)' = "done" /\ stack'[t] = <<>>
      BY <1>1, <2>2, CallerHome DEF Resume
    <3>2. ~Uniting(t)' /\ JoinedFrom(t)' = k
      BY <2>2, <3>1 DEF Uniting, JoinedFrom
    <3>. QED
      BY <1>2, <1>3, <2>1, <2>2, <3>1, <3>2 DEF OnPath
  <2>3. CASE /\ ret[t].code = "different" /\ pos' = [pos EXCEPT ![t] = @ - 1]
             /\ CallUnite(t, p[k - 1], p[k], "close")
    <3>1. k # 1
      BY <1>1, <1>7, <2>3 DEF Closing, OnPath, Meets
    <3>2. pos'[t] = k - 1 /\ k - 1 \in Nat /\ k - 1 > 0 /\ k - 1 < Len(p) /\ k = (k - 1) + 1
      BY <1>2, <1>3, <2>1, <2>3, <3>1
    <3>3. Home(t)' = "close"
      BY <1>1, <2>3, CallerHome
    <3>4. loc'[t].unite = [NoUnite EXCEPT !.a = p[k-1], !.b = p[k]]
      BY <1>1, <2>3 DEF CallUnite, Typed, LocTyped, Locals
    <3>5. loc'[t].unite.a = p[k-1] /\ loc'[t].unite.b = p[k]
      BY <3>4 DEF NoUnite
    <3>6. stack'[t] = <<"close", "unite_a">>
      <4>1. stack'[t] = stack[t] \o <<"close", "unite_a">>
        BY <1>1, <2>3 DEF CallUnite, CallFind, Call, Typed, ControlTyped
      <4>. QED
        BY <1>1, <4>1, PushBoth
    <3>7. stack'[t] # <<>> /\ Busy(t)'
      <4>1. Len(stack'[t]) = 2 /\ stack'[t][2] = "unite_a"
        BY <3>6
      <4>2. stack'[t] # <<>>
        BY <4>1
      <4>. QED
        BY <4>1, <4>2 DEF Busy, Awaits
    <3>8. Uniting(t)' /\ JoinedFrom(t)' = k
      BY <3>2, <3>3, <3>7 DEF Uniting, JoinedFrom
    <3>9. k - 1 <= Len(p)
      BY <1>2, <3>2
    <3>. QED
      BY <1>3, <2>1, <3>2, <3>3, <3>5, <3>7, <3>8, <3>9 DEF OnPath
  <2>. QED
    BY <1>7, <2>2, <2>3 DEF Closing
<1>. QED
  BY <1>5, <1>6, <1>7

\* So do the steps of the union-find it runs.
LEMMA UFStepWalk ==
  ASSUME PathsInv, NEW t \in Worker, UFStep(t), UNCHANGED <<walk, pos>>
  PROVE  OnPath(t)'
<1> DEFINE p == walk[t]
           k == pos[t]
<1>1. /\ SetsInv(Walkers) /\ Typed(Walkers) /\ Outside(Walkers) /\ InCall(t, Walkers)
      /\ OnPath(t) /\ WalkTyped /\ Plain(t)
  BY DEF PathsInv, SetsInv, Knows
<1>2. SetsInv(Walkers)' /\ Coarser
  BY UFStepSets DEF PathsInv
<1>3. Home(t)' = Home(t)
  BY <1>1, UFStepHome
<1>4. /\ Len(p) \in Nat /\ Len(p) > 0 /\ k \in Nat /\ k <= Len(p) /\ \A j \in 1 .. Len(p) : p[j] \in Slot
  BY <1>1, WalkFacts DEF OnPath
<1>5. walk' = walk /\ pos' = pos
  OBVIOUS
<1>6. pc[t] \in Labels /\ pc[t] \notin Walkers
  <2>1. pc[t] \in Labels
    BY DEF UFStep, FindRead, FindCompress, ClaimDead, ClaimFound, ClaimOr, ClaimCheck, SameB, SameA,
       SameRetry, PickA, PickNext, PickB, PickC, PickCompare, PickWrite, MarkDead, Remove, RemoveColor,
       UniteFindB, UniteRoots, LockUf, LockUfCheck, LockUfUndo, LockListA, LockListB, SwapLists, SetParent,
       ReadQw, CompareRw, AddQw, CheckR, FoundR, UnlockListA, UnlockListB, UnlockUf, Labels
  <2>. QED
    BY <1>1, <2>1 DEF Outside
<1>7. stack[t] # <<>>
  <2>1. \A c, b, d : <<c>> # <<>> /\ <<c, b>> # <<>> /\ <<c, b, d>> # <<>>
    OBVIOUS
  <2>. QED
    BY <1>1, <1>6, <2>1 DEF InCall
<1>8. ASSUME Home(t) # "descend"
      PROVE  k > 0 /\ \A j \in JoinedFrom(t) + 1 .. Len(p) : Root'[p[j]] = Root'[p[j-1]]
  <2>1. k > 0 /\ \A j \in JoinedFrom(t) + 1 .. Len(p) : Root[p[j]] = Root[p[j-1]]
    BY <1>1, <1>8 DEF OnPath
  <2>2. ASSUME NEW j \in JoinedFrom(t) + 1 .. Len(p)
        PROVE  p[j] \in Slot /\ p[j-1] \in Slot
    <3>1. JoinedFrom(t) = k \/ JoinedFrom(t) = k + 1
      BY DEF JoinedFrom
    <3>2. j \in 1 .. Len(p) /\ j - 1 \in 1 .. Len(p)
      BY <1>4, <2>1, <3>1
    <3>. QED
      BY <1>4, <3>2
  <2>. QED
    BY <1>2, <2>1, <2>2 DEF Coarser
<1>9. CASE Home(t) = "descend"
  BY <1>1, <1>3, <1>5, <1>9 DEF OnPath, Uniting
<1>10. CASE Home(t) = "close"
  <2>1. Uniting(t)
    BY <1>7, <1>10 DEF Uniting
  <2>2. Busy(t) /\ k < Len(p) /\ loc[t].unite.a = p[k] /\ loc[t].unite.b = p[k+1]
    BY <1>1, <2>1 DEF OnPath
  <2>3. JoinedFrom(t) = k + 1
    BY <2>1 DEF JoinedFrom
  <2>4. CASE Busy(t)' /\ loc'[t].unite.a = p[k] /\ loc'[t].unite.b = p[k+1]
    <3>1. stack'[t] # <<>>
      BY <1>1, <1>2, <2>4, BusyStackNext DEF SetsInv, Knows
    <3>2. Uniting(t)' /\ JoinedFrom(t)' = k + 1
      BY <1>3, <1>5, <1>10, <3>1 DEF Uniting, JoinedFrom
    <3>. QED
      BY <1>3, <1>4, <1>5, <1>8, <1>10, <2>2, <2>3, <2>4, <3>2 DEF OnPath
  <2>5. CASE stack'[t] = <<>> /\ Root'[p[k]] = Root'[p[k+1]]
    <3>1. ~Uniting(t)' /\ JoinedFrom(t)' = k
      BY <1>5, <2>5 DEF Uniting, JoinedFrom
    <3>2. ASSUME NEW j \in k + 1 .. Len(p)
          PROVE  Root'[p[j]] = Root'[p[j-1]]
      <4>1. CASE j = k + 1
        <5>1. j - 1 = k
          BY <1>4, <4>1
        <5>. QED
          BY <2>5, <4>1, <5>1
      <4>2. CASE j # k + 1
        <5>1. j \in (k + 1) + 1 .. Len(p)
          BY <1>4, <4>2
        <5>. QED
          BY <1>8, <1>10, <2>3, <5>1
      <4>. QED
        BY <4>1, <4>2
    <3>. QED
      BY <1>3, <1>4, <1>5, <1>8, <1>10, <3>1, <3>2 DEF OnPath
  <2>6. ~(pc[t] \in ListLabels /\ Completed(t))
    BY <1>1 DEF Plain, Completed
  <2>. QED
    BY <1>1, <2>2, <2>4, <2>5, <2>6, UniteGoes
<1>11. CASE Home(t) \notin {"descend", "close"}
  <2>1. ~Uniting(t) /\ ~Uniting(t)' /\ JoinedFrom(t) = k /\ JoinedFrom(t)' = k
    BY <1>3, <1>5, <1>11 DEF Uniting, JoinedFrom
  <2>2. ASSUME Home(t) = "closing", k = 1
        PROVE  SameSets(t, p[1], p[1])' /\ Meets(t)'
    <3>1. PICK x \in Slot : x = p[1]
      BY <1>4
    <3>2. SameSets(t, x, x) /\ Meets(t)
      BY <1>1, <2>2, <3>1 DEF OnPath
    <3>3. SameSets(t, x, x)' /\ Meets(t)'
      BY <1>1, <3>2, UFStepSame, UFStepMeets
    <3>. QED
      BY <1>5, <3>1, <3>3
  <2>. QED
    BY <1>3, <1>4, <1>5, <1>8, <1>11, <2>1, <2>2 DEF OnPath
<1>. QED
  BY <1>9, <1>10, <1>11

\* And no other worker disturbs it.
LEMMA OthersWalk ==
  ASSUME PathsInv, NEW t \in Worker, Alone(t), Coarser, NEW x \in Worker \ {t},
         walk'[x] = walk[x], pos'[x] = pos[x]
  PROVE  OnPath(x)' /\ Plain(x)'
<1> DEFINE p == walk[x]
           k == pos[x]
<1>1. /\ pc'[x] = pc[x] /\ stack'[x] = stack[x] /\ ret'[x] = ret[x]
      /\ path'[x] = path[x] /\ loc'[x] = loc[x]
  BY DEF Alone, OthersKept
<1>2. /\ \A l : Awaits(x, l)' <=> Awaits(x, l)
      /\ Home(x)' = Home(x) /\ Uniting(x)' = Uniting(x) /\ JoinedFrom(x)' = JoinedFrom(x)
  BY <1>1 DEF Awaits, Home, Uniting, JoinedFrom
<1>3. Plain(x)'
  BY <1>1, <1>2 DEF PathsInv, Plain
<1>4. OnPath(x) /\ Len(p) \in Nat /\ Len(p) > 0 /\ k \in Nat /\ \A j \in 1 .. Len(p) : p[j] \in Slot
  BY WalkFacts DEF PathsInv
<1>5. ASSUME Home(x) # "descend"
      PROVE  k > 0 /\ \A j \in JoinedFrom(x) + 1 .. Len(p) : Root'[p[j]] = Root'[p[j-1]]
  <2>1. k > 0 /\ \A j \in JoinedFrom(x) + 1 .. Len(p) : Root[p[j]] = Root[p[j-1]]
    BY <1>4, <1>5 DEF OnPath
  <2>2. ASSUME NEW j \in JoinedFrom(x) + 1 .. Len(p)
        PROVE  p[j] \in Slot /\ p[j-1] \in Slot
    <3>1. JoinedFrom(x) = k \/ JoinedFrom(x) = k + 1
      BY DEF JoinedFrom
    <3>2. j \in 1 .. Len(p) /\ j - 1 \in 1 .. Len(p)
      BY <1>4, <2>1, <3>1
    <3>. QED
      BY <1>4, <3>2
  <2>. QED
    BY <2>1, <2>2 DEF Coarser
<1>6. Busy(x) => Busy(x)'
  BY <1>1, <1>2 DEF Busy, Region
<1>7. ASSUME Home(x) = "closing", k = 1
      PROVE  SameSets(x, p[1], p[1])' /\ Meets(x)'
  <2>1. PICK y \in Slot : y = p[1]
    BY <1>4
  <2>2. SameSets(x, y, y) /\ Meets(x)
    BY <1>4, <1>7, <2>1 DEF OnPath
  <2>3. SameSets(x, y, y)' /\ Meets(x)'
    BY <2>2, OthersSame, OthersMeet DEF PathsInv
  <2>. QED
    BY <2>1, <2>3
<1>. QED
  BY <1>1, <1>2, <1>3, <1>4, <1>5, <1>6, <1>7 DEF OnPath

\* Every step keeps the inductive invariant.
LEMMA NextPaths ==
  ASSUME PathsInv, [Next]_pathVars
  PROVE  PathsInv'
<1>1. ASSUME NEW t \in Worker, Alone(t), Coarser, OnPath(t)', Plain(t)',
             \A x \in Worker \ {t} : walk'[x] = walk[x] /\ pos'[x] = pos[x]
      PROVE  \A x \in Worker : Plain(x)' /\ OnPath(x)'
  BY <1>1, OthersWalk
<1>2. ASSUME NEW t \in Worker, UFStep(t), UNCHANGED <<walk, pos>>
      PROVE  PathsInv'
  <2>1. SetsInv(Walkers)' /\ Coarser /\ BitsInv' /\ WalkTyped'
    BY <1>2, UFStepSets, UFStepBits DEF PathsInv, WalkTyped
  <2>2. NoTombs' /\ Plain(t)'
    BY <1>2, UFStepPlain DEF PathsInv, SetsInv, Knows
  <2>3. Alone(t)
    BY <1>2, UFStepAlone DEF PathsInv, SetsInv
  <2>4. OnPath(t)'
    BY <1>2, UFStepWalk
  <2>. QED
    BY <1>1, <1>2, <2>1, <2>2, <2>3, <2>4 DEF PathsInv
<1>3. ASSUME NEW t \in Worker, Descend(t) \/ Close(t) \/ Closing(t)
      PROVE  PathsInv'
  <2>1. /\ CallerStep(t, Walkers) /\ WalkTyped'
        /\ \A x \in Worker \ {t} : walk'[x] = walk[x] /\ pos'[x] = pos[x]
    BY <1>3, WalkCalls
  <2>2. Typed(Walkers)' /\ Upward' /\ Locked'
    BY <2>1, CallerStepKeeps DEF PathsInv, SetsInv
  <2>3. SetsInv(Walkers)' /\ Root' = Root
    BY <2>1, <2>2, CallerSets DEF PathsInv
  <2>4. BitsInv' /\ Coarser
    BY <2>1, <2>3, CallerBits DEF PathsInv, Coarser
  <2>5. NoTombs'
    BY <2>1 DEF CallerStep, PathsInv, NoTombs
  <2>6. Alone(t)
    BY <2>1, CallerMoves DEF PathsInv, SetsInv, Knows
  <2>7. OnPath(t)' /\ Plain(t)'
    BY <1>3, <2>3, OwnWalk, WalkPlain
  <2>. QED
    BY <1>1, <2>1, <2>3, <2>4, <2>5, <2>6, <2>7 DEF PathsInv
<1>4. ASSUME UNCHANGED pathVars
      PROVE  PathsInv'
  <2>1. UNCHANGED <<uf, G_Color, pc, stack, ret, path, loc, walk, pos>>
    BY <1>4 DEF pathVars, ufVars, control
  <2>2. SetsInv(Walkers)' /\ Root' = Root /\ BitsInv' /\ \A t \in Worker : Alone(t)
    BY <2>1, StutterKeeps, StutterBits DEF PathsInv
  <2>3. NoTombs' /\ WalkTyped'
    BY <2>1 DEF PathsInv, NoTombs, WalkTyped
  <2>4. ASSUME NEW t \in Worker
        PROVE  Plain(t)' /\ OnPath(t)'
    <3>1. /\ \A l : Awaits(t, l)' <=> Awaits(t, l)
          /\ Home(t)' = Home(t) /\ Uniting(t)' = Uniting(t) /\ JoinedFrom(t)' = JoinedFrom(t)
      BY <2>1 DEF Awaits, Home, Uniting, JoinedFrom
    <3>2. Region(t)' = Region(t) /\ Busy(t)' = Busy(t) /\ Meets(t)' = Meets(t)
      BY <2>1, <3>1 DEF Region, Busy, Meets
    <3>3. \A x : SameSets(t, x, x)' = SameSets(t, x, x)
      BY <2>1, <2>2, <3>1 DEF SameSets
    <3>4. Plain(t)'
      BY <2>1, <3>1 DEF PathsInv, Plain
    <3>. QED
      BY <2>1, <2>2, <3>1, <3>2, <3>3, <3>4 DEF PathsInv, OnPath
  <2>. QED
    BY <2>2, <2>3, <2>4 DEF PathsInv
<1>. QED
  BY <1>2, <1>3, <1>4 DEF Next, Closed

\* unite (a, b) returns only with a and b in one set, whoever united them.
THEOREM UniteIsDone == Spec => []UniteJoins
<1>1. PathsInv => UniteJoins
  <2> SUFFICES ASSUME PathsInv, NEW t \in Worker, pc[t] \in {"close", "done"},
                      NEW j \in pos[t] + 1 .. Len(walk[t])
               PROVE  Root[walk[t][j]] = Root[walk[t][j-1]]
    BY DEF UniteJoins
  <2>1. stack[t] = <<>>
    <3>1. {"close", "done"} \cap (Labels \cup FindLabels \cup PickLabels) = {}
      BY DEF Labels, FindLabels, PickLabels
    <3>. QED
      BY <3>1 DEF PathsInv, SetsInv, Knows, InCall
  <2>2. Home(t) = pc[t] /\ JoinedFrom(t) = pos[t]
    BY <2>1 DEF Home, JoinedFrom, Uniting
  <2>. QED
    BY <2>2 DEF PathsInv, OnPath
<1>2. PathsInv /\ [Next]_pathVars => PathsInv'
  BY NextPaths
<1>. QED
  BY InitPaths, <1>1, <1>2, PTL DEF Spec

\* Asked for two states of one set, sameset answers "same": a path is closed
\* before its stack is used up.
THEOREM ClosesBeforeTheEnd == Spec => []ClosesInTime
<1>1. PathsInv => ClosesInTime
  <2> SUFFICES ASSUME PathsInv, NEW t \in Worker, pc[t] = "closing", ret[t].code = "different"
               PROVE  pos[t] > 1
    BY DEF ClosesInTime
  <2>1. stack[t] = <<>>
    <3>1. "closing" \notin Labels \cup FindLabels \cup PickLabels
      BY DEF Labels, FindLabels, PickLabels
    <3>. QED
      BY <3>1 DEF PathsInv, SetsInv, Knows, InCall
  <2>2. Home(t) = "closing" /\ pos[t] \in Nat
    BY <2>1 DEF Home, PathsInv, WalkTyped
  <2>3. pos[t] > 0 /\ pos[t] # 1
    BY <2>2 DEF PathsInv, OnPath, Meets
  <2>. QED
    BY <2>2, <2>3
<1>2. PathsInv /\ [Next]_pathVars => PathsInv'
  BY NextPaths
<1>. QED
  BY InitPaths, <1>1, <1>2, PTL DEF Spec

\* No worker's bit is left behind at a state that stopped being a representative.
THEOREM BitsFollow == Spec => []BitsAtRoot
<1>1. PathsInv => BitsAtRoot
  BY BitsArrive DEF PathsInv
<1>2. PathsInv /\ [Next]_pathVars => PathsInv'
  BY NextPaths
<1>. QED
  BY InitPaths, <1>1, <1>2, PTL DEF Spec
==============================================================================
