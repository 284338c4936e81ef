--------------------------- MODULE UFSearchProofs ---------------------------
(***************************************************************************)
(* The search of one worker among all others. Search is the inductive      *)
(* invariant of the whole program: it rests on the components of the       *)
(* graph, because a state is removed from its list, and a set completed,   *)
(* on what several workers have seen of its edges. Then what Search gives: *)
(* who holds the locks, what the lists hold, and the end. A worker that    *)
(* has come to the end has seen every node of its chunk explored, so that  *)
(* when all have, the nodes are completed and G_SCC is the decomposition:  *)
(* UFSCC implements SCCPartition. Last, the counts of the workers: every   *)
(* state is claimed first once.                                            *)
(***************************************************************************)
EXTENDS UFSCCProofs

-----------------------------------------------------------------------------
(* The steps of do_ufscc_all *)

\* Outside a search a worker has empty stacks.
LEMMA AtLoop ==
  ASSUME Search, NEW t \in Worker, pc[t] \in Callers \ Searching
  PROVE  /\ Home(t) = pc[t] /\ tls[t].roots = <<>> /\ tls[t].rec = <<>> /\ tls[t].i > 0 /\ Calls(t)
         /\ pc[t] = "start" => tls[t].v \in Node
         /\ pc[t] = "collected" => tls[t].i \in Node
         /\ OwnTyped /\ tls[t] \in Tls /\ tls \in [Worker -> Tls] /\ tls[t].i \in Nat
BY AtCaller, SearchBase, TlsTyped DEF Stands, OwnTyped

\* It knows nothing but where its loop stands.
LEMMA OwnLoop ==
  ASSUME Search, Frozen, NEW t \in Worker, pc[t] \in Callers \ Searching, ~Claiming(t), Home(t)' \notin Searching,
         tls'[t].roots = <<>>, tls'[t].rec = <<>>, tls'[t].i > 0,
         Home(t)' = "start" => tls'[t].v \in Node, Home(t)' = "collected" => tls'[t].i \in Node,
         Calls(t)'
  PROVE  Own(t)'
<1>1. tls[t].roots = <<>> /\ BitsHome(t)
  BY AtLoop, SearchBase
<1>2. Stands(t)'
  BY DEF Stands
<1>3. \A n \in Node : Visited(t, n) => Dead(n)
  BY <1>1 DEF BitsHome, OnRoots
<1>4. \A n \in Node : Visited(t, n)' => Dead(n)'
  BY <1>3, FrozenSame
<1>. QED
  BY <1>2, <1>4 DEF Own, BitsHome

\* The loop over the initial states.
LEMMA NextStateOwn ==
  ASSUME Search, Frozen, NEW t \in Worker, NextState(t)
  PROVE  Own(t)' /\ PassesNodes(t)
<1> DEFINE n == tls[t].i
<1>1. pc[t] = "next" /\ pc[t] \in Callers \ Searching
  BY DEF NextState, Callers, Searching
<1>2. /\ Home(t) = "next" /\ tls[t].roots = <<>> /\ tls[t].rec = <<>> /\ n > 0
      /\ tls[t] \in Tls /\ tls \in [Worker -> Tls] /\ n \in Nat
  BY <1>1, AtLoop
<1>3. ~Claiming(t)
  BY <1>2 DEF Claiming, ClaimHomes
<1>4. CASE Goto(t, "join") /\ tls' = tls
  <2>1. Goes(t, "join")
    BY <1>1, <1>4, OnToLabel DEF Callers
  <2>2. Calls(t)' /\ PassesNodes(t) /\ Home(t)' = "join"
    BY <2>1, CallsGoes DEF Goes
  <2>. QED
    BY <1>1, <1>2, <1>3, <1>4, <2>2, OwnLoop DEF Searching
<1>5. CASE tls' = [tls EXCEPT ![t].i = n + 1] /\ UNCHANGED control
  <2>1. Goes(t, "next")
    BY <1>1, <1>5, AtCaller DEF Goes, control, Home, PassesNodes, Awaits
  <2>2. Calls(t)' /\ PassesNodes(t) /\ Home(t)' = "next"
    BY <2>1, CallsGoes DEF Goes
  <2>3. tls'[t].roots = <<>> /\ tls'[t].rec = <<>> /\ tls'[t].i > 0
    BY <1>2, <1>5 DEF Tls
  <2>. QED
    BY <1>1, <1>3, <2>2, <2>3, OwnLoop DEF Searching
<1>6. CASE n < ChunkFirst(t + 1) /\ tls' = [tls EXCEPT ![t].v = n] /\ CallClaim(t, n, "start")
  <2>1. n \in Node
    <3>1. t + 1 \in 0 .. NWorkers
      BY UFConstants DEF Worker
    <3>2. ChunkFirst(t + 1) \in 1 .. N + 1
      BY <3>1, ChunkBounds
    <3>. QED
      BY <1>2, <1>6, <3>2, UFConstants DEF Node
  <2>2. PICK m \in Node : m = n
    BY <2>1
  <2>3. /\ pc'[t] = "find" /\ Home(t)' = "start" /\ path'[t][1] = m /\ Awaits(t, "claim_dead")'
        /\ PassesNodes(t)
    BY <1>1, <1>6, <2>2, CalledClaim DEF Callers
  <2>4. tls'[t].roots = <<>> /\ tls'[t].rec = <<>> /\ tls'[t].i > 0 /\ tls'[t].v = m
    BY <1>2, <1>6, <2>2 DEF Tls
  <2>5. Target(t)' = m
    BY <2>3, <2>4 DEF Target
  <2>6. Calls(t)'
    BY <2>3, <2>5, CallsClaim DEF ClaimHomes
  <2>. QED
    BY <1>1, <1>3, <2>3, <2>4, <2>6, OwnLoop DEF Searching
<1>. QED
  BY <1>4, <1>5, <1>6 DEF NextState

\* The test of line 674 and the first call.
LEMMA StartOwn ==
  ASSUME Search, Frozen, NEW t \in Worker, Start(t)
  PROVE  Own(t)' /\ PassesNodes(t)
<1> DEFINE me == tls[t]
<1>1. pc[t] = "start" /\ pc[t] \in Callers \ Searching
  BY DEF Start, Callers, Searching
<1>2. /\ Home(t) = "start" /\ me.roots = <<>> /\ me.rec = <<>> /\ me.i > 0 /\ me.v \in Node /\ Calls(t)
      /\ me \in Tls /\ tls \in [Worker -> Tls] /\ me.i \in Nat
  BY <1>1, AtLoop
<1>3. Class(t) = Root /\ (\A l : ~Awaits(t, l)) /\ pc[t] \notin Labels
  BY <1>1, AtCaller
<1>4. Target(t) = me.v /\ Pushes(t) = 0
  BY <1>2 DEF Target, Pushes
<1>5. Marked(t, 1, {}) \/ Dead(me.v)
  <2>1. ClaimKnown(t)
    BY <1>2 DEF Calls, ClaimHomes
  <2>2. ~(pc[t] \in FindLabels) /\ pc[t] \notin {"claim_dead", "claim_found", "claim_or", "claim_check", "claim_again"}
    BY <1>1 DEF FindLabels
  <2>3. ~OnRoots(Root, me.roots, me.v)
    BY <1>2 DEF OnRoots
  <2>. QED
    BY <1>4, <2>1, <2>2, <2>3 DEF ClaimKnown, ClaimCodes, Claims
<1>6. PICK v \in Node : v = me.v
  BY <1>2
<1>7. tls'[t].roots = <<v>> /\ tls'[t].rec = <<>> /\ tls'[t].v = v /\ tls'[t].i = me.i
  <2>1. Append(me.roots, me.v) = <<v>>
    BY <1>2, <1>6
  <2>. QED
    BY <1>2, <1>6, <2>1 DEF Start, Tls
<1>8. Goes(t, "enter")
  BY <1>1, OnToLabel DEF Start, Callers
<1>9. Calls(t)' /\ ~Uniting(t)' /\ PassesNodes(t) /\ Home(t)' = "enter"
  BY <1>8, CallsGoes DEF Goes
<1>10. Class(t)' = Root /\ Looked(t)' = 0
  BY <1>9 DEF Class, Looked, Frozen
<1>11. Depth(t)' = 1 /\ Trail(t)'[1] = v /\ Frames(t)'
  <2>1. Depth(t)' = 1
    BY <1>7 DEF Depth
  <2>2. Trail(t)' = [i \in 1 .. 1 |-> IF i < 1 THEN tls'[t].rec[i].v ELSE v]
    BY <1>7, <2>1 DEF Trail
  <2>3. Frames(t)'
    BY <1>7 DEF Frames
  <2>. QED
    BY <2>1, <2>2, <2>3
<1>12. Walking(t)'
  <2>1. PICK u : u = Trail(t)'
    OBVIOUS
  <2>2. <<v>> = <<u[1]>>
    BY <1>11, <2>1
  <2>3. PICK rts : rts = <<v>>
    OBVIOUS
  <2>4. Walk(1, u, rts, Root, 0)
    BY <2>2, <2>3, WalkStart
  <2>. QED
    BY <1>7, <1>10, <1>11, <2>1, <2>3, <2>4 DEF Walking
<1>13. Marked(t, Depth(t), {})' \/ Dead(tls[t].v)'
  <2>1. PICK d : d = 1
    OBVIOUS
  <2>2. Marked(t, d, {})' \/ Dead(v)'
    BY <1>5, <1>6, <2>1, FrozenSame
  <2>. QED
    BY <1>7, <1>11, <2>1, <2>2 DEF Marked, Dead
<1>14. OnTrail(t)'
  BY <1>7, <1>9, <1>11, <1>12, <1>13 DEF OnTrail, Walking, AtEdge, AtSucc
<1>15. Stands(t)'
  BY <1>2, <1>7, <1>9, <1>14 DEF Stands, Searching
<1>16. BitsHome(t)'
  <2>1. ASSUME NEW n \in Node, Visited(t, n) PROVE Dead(n) \/ OnRoots(Root, <<v>>, n)
    <3>1. Dead(n) \/ OnRoots(Root, <<>>, n) \/ Root[n] = Root[v]
      BY <1>2, <1>3, <1>4, <1>6, <2>1, SearchBase DEF BitsHome
    <3>2. ~OnRoots(Root, <<>>, n)
      BY DEF OnRoots
    <3>3. Root[n] = Root[v] => OnRoots(Root, <<v>>, n)
      BY DEF OnRoots
    <3>. QED
      BY <3>1, <3>2, <3>3
  <2>2. ASSUME NEW n \in Node, Visited(t, n)'
        PROVE  Dead(n)' \/ OnRoots(Class(t), tls[t].roots, n)'
    <3>1. Dead(n) \/ OnRoots(Root, <<v>>, n)
      BY <2>1, <2>2, FrozenSame
    <3>2. OnRoots(Class(t)', tls'[t].roots, n) <=> OnRoots(Root, <<v>>, n)
      BY <1>7, <1>10
    <3>3. Dead(n)' <=> Dead(n)
      BY FrozenSame
    <3>. QED
      BY <3>1, <3>2, <3>3 DEF OnRoots
  <2>. QED
    BY <2>2 DEF BitsHome
<1>. QED
  BY <1>9, <1>15, <1>16 DEF Own

\* The end of a worker's share.
LEMMA JoinOwn ==
  ASSUME Search, Frozen, NEW t \in Worker, Join(t)
  PROVE  Own(t)' /\ PassesNodes(t)
<1>1. pc[t] = "join" /\ pc[t] \in Callers \ Searching
  BY DEF Join, Callers, Searching
<1>2. /\ Home(t) = "join" /\ tls[t].roots = <<>> /\ tls[t].rec = <<>> /\ tls[t].i > 0
      /\ tls[t] \in Tls /\ tls \in [Worker -> Tls]
  BY <1>1, AtLoop
<1>3. tls'[t].roots = <<>> /\ tls'[t].rec = <<>> /\ tls'[t].i > 0
  BY <1>2 DEF Join, Tls
<1>4. Goes(t, "done")
  BY <1>1, OnToLabel DEF Join, Callers
<1>5. Calls(t)' /\ PassesNodes(t) /\ Home(t)' = "done"
  BY <1>4, CallsGoes DEF Goes
<1>. QED
  BY <1>1, <1>2, <1>3, <1>5, OwnLoop DEF Searching, Claiming, ClaimHomes

\* The report of thread 0.
LEMMA ReportOwn ==
  ASSUME Search, Frozen, Report, 0 \in Worker
  PROVE  Own(0)' /\ PassesNodes(0)
<1>1. PICK t \in Worker : t = 0
  OBVIOUS
<1>2. pc[t] \in {"done", "collect", "collected"}
  BY <1>1 DEF Report, Barrier, Collect, Collected
<1>3. pc[t] \in Callers \ Searching
  BY <1>2 DEF Callers, Searching
<1>4. /\ Home(t) = pc[t] /\ tls[t].roots = <<>> /\ tls[t].rec = <<>> /\ tls[t].i > 0 /\ tls[t].i \in Nat
      /\ tls[t] \in Tls /\ tls \in [Worker -> Tls]
  BY <1>3, AtLoop
<1>5. ~Claiming(t)
  BY <1>2, <1>4 DEF Claiming, ClaimHomes
<1>6. tls'[t].roots = <<>> /\ tls'[t].rec = <<>> /\ tls'[t].i > 0 /\ (Collect => tls' = tls)
  BY <1>1, <1>4 DEF Report, Barrier, Collect, Collected, Tls
<1>7. ASSUME NEW label \in {"collect", "end"}, Goto(t, label) \/ Resume(t, label)
      PROVE  Own(t)' /\ PassesNodes(t)
  <2>1. Goes(t, label)
    BY <1>3, <1>7, OnToLabel DEF Callers
  <2>2. Calls(t)' /\ PassesNodes(t) /\ Home(t)' = label
    BY <2>1, CallsGoes DEF Goes
  <2>. QED
    BY <1>3, <1>5, <1>6, <2>2, OwnLoop DEF Searching
<1>8. CASE Collect /\ tls[t].i <= N /\ CallFind(t, tls[t].i, <<"collected">>)
  <2>1. tls[t].i \in Node
    BY <1>4, <1>8, UFConstants DEF Node
  <2>2. /\ pc'[t] = "find" /\ Home(t)' = "collected" /\ path'[t][1] = tls[t].i /\ (\A l : ~Awaits(t, l)')
        /\ PassesNodes(t)
    BY <1>3, <1>8, CalledFind DEF Callers
  <2>3. Calls(t)'
    BY <1>6, <1>8, <2>2, CallsFind
  <2>. QED
    BY <1>1, <1>3, <1>5, <1>6, <1>8, <2>1, <2>2, <2>3, OwnLoop DEF Searching
<1>9. \/ \E label \in {"collect", "end"} : Goto(t, label) \/ Resume(t, label)
      \/ Collect /\ tls[t].i <= N /\ CallFind(t, tls[t].i, <<"collected">>)
  BY <1>1 DEF Report, Barrier, Collect, Collected
<1>. QED
  BY <1>1, <1>7, <1>8, <1>9

-----------------------------------------------------------------------------
(* The induction *)

\* A step of the search itself leaves the union-find as it is.
LEMMA StepFrozen ==
  ASSUME Search, NEW t \in Worker, CallerStep(t, Callers), G' = G
  PROVE  Frozen
BY CallerFrame DEF Frozen

\* All steps of the search together.
LEMMA RecurseOwn ==
  ASSUME Search, Frozen, NEW t \in Worker, Recurse(t) \/ NextState(t) \/ Start(t) \/ Join(t)
  PROVE  Own(t)' /\ PassesNodes(t)
BY EnterOwn, EnteredOwn, ExploreOwn, EdgeOwn, ClaimedOwn, FoundOwn, UnitedOwn, BacktrackOwn, IsDeadOwn,
   NextStateOwn, StartOwn, JoinOwn DEF Recurse

\* A step of the search moves one worker.
LEMMA OneMoves ==
  ASSUME Search, NEW t \in Worker, Recurse(t) \/ NextState(t) \/ Start(t) \/ Join(t)
  PROVE  \A x \in Worker \ {t} : tls'[x] = tls[x]
<1>1. tls \in [Worker -> Tls]
  BY SearchBase DEF OwnTyped
<1>2. \/ tls' = tls
      \/ \E e : tls' = [tls EXCEPT ![t] = e]
  <2>1. \/ Enter(t) \/ Entered(t) \/ Explore(t) \/ Edge(t) \/ Claimed(t) \/ Found(t) \/ United(t)
        \/ Backtrack(t) \/ IsDead(t) \/ NextState(t) \/ Start(t) \/ Join(t)
    BY DEF Recurse
  <2>2. CASE Enter(t)
    BY <2>2 DEF Enter
  <2>3. CASE Entered(t)
    BY <2>3 DEF Entered
  <2>4. CASE Explore(t)
    BY <2>4 DEF Explore
  <2>5. CASE Edge(t)
    BY <2>5 DEF Edge
  <2>6. CASE Claimed(t)
    BY <2>6 DEF Claimed, NextEdge
  <2>7. CASE Found(t)
    BY <2>7 DEF Found, NextEdge
  <2>8. CASE United(t)
    BY <2>8 DEF United, NextEdge
  <2>9. CASE Backtrack(t)
    BY <2>9 DEF Backtrack
  <2>10. CASE IsDead(t)
    <3>1. tls' = tls \/ NextEdge(t)
      BY <2>10 DEF IsDead
    <3>. QED
      BY <3>1 DEF NextEdge
  <2>11. CASE NextState(t)
    BY <2>11 DEF NextState
  <2>12. CASE Start(t)
    BY <2>12 DEF Start
  <2>13. CASE Join(t)
    BY <2>13 DEF Join
  <2>. QED
    BY <2>1, <2>2, <2>3, <2>4, <2>5, <2>6, <2>7, <2>8, <2>9, <2>10, <2>11, <2>12, <2>13
<1>. QED
  BY <1>1, <1>2

\* So does the report.
LEMMA ReportMoves ==
  ASSUME Search, Report
  PROVE  \A x \in Worker \ {0} : tls'[x] = tls[x]
BY SearchBase DEF OwnTyped, Report, Barrier, Collect, Collected

\* A stuttering step keeps HomeInv.
LEMMA StutterHomes ==
  ASSUME HomeInv, UNCHANGED <<uf, pc, stack, ret, path, loc>>
  PROVE  HomeInv'
<1>1. Root' = Root /\ \A w \in Worker : (\A l : Awaits(w, l)' <=> Awaits(w, l))
  BY DEF Awaits, Root
<1>2. \A w \in Worker : Picking(w)' <=> Picking(w)
  BY <1>1 DEF Picking
<1>3. \A w \in Worker : Busy(w)' <=> Busy(w)
  BY <1>1 DEF Busy, Region
<1>4. /\ \A w \in Worker : Pending(w)' <=> Pending(w)
      /\ \A n : (Explored(n)' <=> Explored(n)) /\ NextOrSelf(n)' = NextOrSelf(n)
  BY DEF Pending, Explored, NextOrSelf
<1>5. \A n : Crossing(n)' <=> Crossing(n)
  BY <1>4 DEF Crossing
<1>6. ListsHome'
  BY <1>1, <1>4, <1>5 DEF HomeInv, ListsHome
<1>7. ASSUME NEW w \in Worker PROVE UniteHome(w)'
  BY <1>1, <1>3 DEF HomeInv, UniteHome
<1>8. ASSUME NEW w \in Worker PROVE PickHome(w)'
  <2>1. PICK al, bl : al = loc[w].unite.al /\ bl = loc[w].unite.bl
    OBVIOUS
  <2>2. PickHome(w)
    BY DEF HomeInv
  <2>3. loc' = loc /\ NextOrSelf(al)' = NextOrSelf(al) /\ NextOrSelf(bl)' = NextOrSelf(bl)
    BY <1>4
  <2>4. NextOrSelf(loc[w].unite.al)' = NextOrSelf(loc[w].unite.al)
    BY <2>1, <2>3 DEF NextOrSelf
  <2>5. NextOrSelf(loc[w].unite.bl)' = NextOrSelf(loc[w].unite.bl)
    BY <2>1, <2>3 DEF NextOrSelf
  <2>6. Explored(loc[w].pick.a)' <=> Explored(loc[w].pick.a)
    BY DEF Explored
  <2>7. Explored(loc[w].pick.b)' <=> Explored(loc[w].pick.b)
    BY DEF Explored
  <2>. QED
    BY <1>1, <1>2, <1>4, <2>2, <2>4, <2>5, <2>6, <2>7 DEF PickHome
<1>. QED
  BY <1>6, <1>7, <1>8 DEF HomeInv

\* A stuttering step keeps Search.
LEMMA StutterSearch ==
  ASSUME Search, UNCHANGED vars
  PROVE  Search'
<1>1. /\ uf' = uf /\ pc' = pc /\ stack' = stack /\ ret' = ret /\ path' = path /\ loc' = loc
      /\ G' = G /\ tls' = tls
  BY DEF vars, ufVars, control
<1>2. Root' = Root
  BY <1>1 DEF Root
<1>3. Frozen /\ Grows /\ \A x \in Worker : VisitsFrom(x)
  BY <1>1, <1>2 DEF Frozen, Grows, Coarser, Dead, VisitsFrom, Visited, w_id
<1>4. SameKnown' /\ BitsInv' /\ HomeInv'
  BY <1>1, SearchBase, NextSame, StutterBits, StutterHomes DEF Search
<1>5. ListInv'
  <2>1. \A x \in Worker : Pending(x)' <=> Pending(x)
    BY <1>1 DEF Pending
  <2>2. PICK S \in SUBSET Worker : S = {}
    OBVIOUS
  <2>3. ListInv
    BY SearchBase
  <2>4. \A x \in S : ~OnList(x)' \/ pc'[x] \in {"pick_a", "remove"}
    BY <2>2
  <2>. QED
    BY <1>1, <1>2, <2>1, <2>2, <2>3, <2>4, RingsSame
<1>6. SetsRight'
  <2>1. /\ \A m, n : Mutual(m, n)' <=> Mutual(m, n)
        /\ \A m : Succ(m)' = Succ(m)
    BY <1>1, SuccSame
  <2>2. /\ \A n : Dead(n)' <=> Dead(n)
        /\ \A m, n : EdgeDone(m, n)' <=> EdgeDone(m, n)
        /\ \A n : Explored(n)' <=> Explored(n)
    BY <1>1, <1>2 DEF Dead, EdgeDone, Explored
  <2>. QED
    BY <1>1, <1>2, <2>1, <2>2, SearchBase DEF SetsRight, Sound, Whole, DeadClosed, TombClosed
<1>7. ASSUME NEW t \in Worker PROVE Own(t)'
  <2>1. Still(t)
    BY <1>1 DEF Still
  <2>2. Home(t)' = Home(t) /\ \A l : Awaits(t, l)' <=> Awaits(t, l)
    BY <2>1, StillHome
  <2>3. Wider(t)
    <3>1. Uniting(t)' <=> Uniting(t)
      BY <1>1, <2>2 DEF Uniting
    <3>. QED
      BY <1>1, <1>3, <3>1, SearchBase, WiderBeside DEF Grows
  <2>4. Claiming(t) => Claiming(t)'
    BY <1>1, <2>2 DEF Claiming
  <2>5. OwnTyped /\ SetsInv(Callers) /\ uf[0] = uf_node /\ Stands(t) /\ BitsHome(t) /\ Calls(t) /\ tls'[t] = tls[t]
    BY <1>1, SearchBase
  <2>6. Stands(t)'
    BY <1>3, <2>2, <2>3, <2>5, StandsGrow
  <2>7. BitsHome(t)'
    BY <1>3, <2>2, <2>3, <2>4, <2>5, BitsGrow
  <2>8. Calls(t)'
    BY <1>3, <2>1, <2>5, CallsStill
  <2>. QED
    BY <2>6, <2>7, <2>8 DEF Own
<1>. QED
  BY <1>4, <1>5, <1>6, <1>7 DEF Search, SearchInv, Own

\* Every step preserves Search.
LEMMA NextSearch ==
  ASSUME Search, NWorkers <= WordBits, [Next]_vars
  PROVE  Search'
<1>1. Types
  BY SearchBase
<1>2. ASSUME NEW t \in Worker, Recurse(t) \/ NextState(t) \/ Start(t) \/ Join(t), G' = G PROVE Search'
  <2>1. CallerStep(t, Callers)
    BY <1>1, <1>2, RecurseCalls
  <2>2. Frozen
    BY <1>2, <2>1, StepFrozen
  <2>3. Own(t)' /\ PassesNodes(t)
    BY <1>2, <2>2, RecurseOwn
  <2>4. \A x \in Worker \ {t} : tls'[x] = tls[x]
    BY <1>2, OneMoves
  <2>. QED
    BY <1>2, <2>1, <2>3, <2>4, CallerSearch
<1>3. ASSUME Report PROVE Search'
  <2>1. 0 \in Worker /\ CallerStep(0, Callers) /\ G' = G
    BY <1>1, <1>3, ReportCalls DEF Report, Barrier, Collect, Collected
  <2>2. Frozen
    BY <2>1, StepFrozen
  <2>3. Own(0)' /\ PassesNodes(0)
    BY <1>3, <2>1, <2>2, ReportOwn
  <2>4. \A x \in Worker \ {0} : tls'[x] = tls[x]
    BY <1>3, ReportMoves
  <2>. QED
    BY <2>1, <2>3, <2>4, CallerSearch
<1>4. ASSUME NEW t \in Worker, Step(t) PROVE Search'
  <2>1. CASE UFStep(t) /\ UNCHANGED <<G, tls, total, G_SCC>>
    BY <2>1, StepSearch
  <2>2. CASE (Recurse(t) \/ NextState(t) \/ Start(t)) /\ UNCHANGED <<G, total, G_SCC>>
    BY <1>2, <2>2
  <2>3. CASE Join(t)
    BY <1>2, <2>3 DEF Join
  <2>. QED
    BY <1>4, <2>1, <2>2, <2>3 DEF Step
<1>. QED
  BY <1>3, <1>4, StutterSearch DEF Next, Terminated

\* No worker reads a list at first.
LEMMA InitHomes ==
  ASSUME Init
  PROVE  HomeInv
<1>1. /\ \A n \in Slot : uf[n] = uf_node
      /\ \A w \in Worker : pc[w] = "next" /\ stack[w] = <<>> /\ loc[w].unite = NoUnite
  BY DEF Init, UFInit
<1>2. /\ \A n \in Slot : Root[n] = n
      /\ \A n \in Slot : ~Explored(n) /\ NextOrSelf(n) = n
  <2>1. SetsInv(Callers)
    BY InitSets DEF SetsKnown
  <2>2. UfTyped /\ ParentIncreasing
    BY <2>1 DEF SetsInv, Typed, Upward
  <2>3. \A n \in Slot : uf[n].parent = 0 => Root[n] = n
    BY <2>2, RootFacts
  <2>. QED
    BY <1>1, <2>3 DEF uf_node, Explored, NextOrSelf, LIVE, TOMB
<1>3. \A w \in Worker : ~Picking(w) /\ ~Busy(w) /\ ~Pending(w) /\ \A l : ~Awaits(w, l)
  BY <1>1 DEF Awaits, Picking, Busy, Region, Pending, PickLabels, RegionLabels
<1>4. ListsHome
  <2>1. 0 \in Slot
    BY UFConstants DEF Slot
  <2>. QED
    BY <1>2, <1>3, <2>1 DEF ListsHome
<1>5. \A w \in Worker : UniteHome(w)
  BY <1>1, <1>3 DEF UniteHome, NoUnite
<1>6. \A w \in Worker : PickHome(w)
  BY <1>1, <1>3 DEF PickHome, PickBLabels, PickCLabels
<1>. QED
  BY <1>4, <1>5, <1>6 DEF HomeInv

\* At first every list is a state by itself.
LEMMA InitLists ==
  ASSUME Init
  PROVE  ListInv
<1>1. /\ \A n \in Slot : uf[n] = uf_node
      /\ \A w \in Worker : pc[w] = "next" /\ stack[w] = <<>>
  BY DEF Init, UFInit
<1>2. /\ \A n \in Slot : Root[n] = n
      /\ \A n \in Slot : ~Explored(n) /\ NextOrSelf(n) = n /\ uf[n].uf_status # DEAD
  <2>1. SetsInv(Callers)
    BY InitSets DEF SetsKnown
  <2>2. UfTyped /\ ParentIncreasing
    BY <2>1 DEF SetsInv, Typed, Upward
  <2>3. \A n \in Slot : uf[n].parent = 0 => Root[n] = n
    BY <2>2, RootFacts
  <2>. QED
    BY <1>1, <2>3 DEF uf_node, Explored, NextOrSelf, LIVE, TOMB, DEAD
<1>3. \A w \in Worker : ~Picking(w) /\ ~Pending(w)
  BY <1>1 DEF Awaits, Picking, Pending, PickLabels
<1>4. PICK s \in [Slot -> Slot] : s = [n \in Slot |-> n]
  OBVIOUS
<1>5. \A n \in Slot : s[n] = n
  BY <1>4
<1>6. Cycles(s, s)
  BY <1>5 DEF Cycles, Passes
<1>7. Names(s)
  <2>1. \A n \in Slot : n <= n
    BY UFConstants DEF Slot, Node
  <2>. QED
    BY <1>2, <1>5, <2>1 DEF Names
<1>8. Nexts(s, s)
  BY <1>2, <1>5 DEF Nexts
<1>9. Deads(s)
  BY <1>2 DEF Deads
<1>10. \A w \in Worker : Reads(w, s, s)
  BY <1>1, <1>3 DEF Reads, PickBLabels, PickCLabels
<1>. QED
  BY <1>6, <1>7, <1>8, <1>9, <1>10 DEF ListInv, Lists

\* Search holds at first.
LEMMA InitSearch ==
  ASSUME Init
  PROVE  Search
<1>1. /\ \A n \in Slot : uf[n] = uf_node
      /\ \A w \in Worker : pc[w] = "next" /\ stack[w] = <<>> /\ tls[w].i = ChunkFirst(w)
                            /\ tls[w].roots = <<>> /\ tls[w].rec = <<>>
  BY DEF Init, UFInit
<1>2. \A n \in Slot : Root[n] = n
  <2>1. SetsInv(Callers)
    BY InitSets DEF SetsKnown
  <2>2. UfTyped /\ ParentIncreasing
    BY <2>1 DEF SetsInv, Typed, Upward
  <2>3. \A n \in Slot : uf[n].parent = 0 => Root[n] = n
    BY <2>2, RootFacts
  <2>. QED
    BY <1>1, <2>3 DEF uf_node
<1>3. Node \subseteq Slot /\ 0 \in Slot
  BY UFConstants DEF Node, Slot
<1>4. \A n \in Slot : uf[n].uf_status # DEAD /\ uf[n].workers = {} /\ ~Explored(n)
  BY <1>1 DEF uf_node, Explored, LIVE, TOMB, DEAD
<1>5. \A n \in Node : ~Dead(n)
  BY <1>2, <1>3, <1>4 DEF Dead
<1>6. SetsRight
  <2>1. Sound
    BY <1>2, <1>3, ReachSelf DEF Sound, Mutual
  <2>. QED
    BY <1>1, <1>3, <1>4, <1>5, <2>1 DEF SetsRight, Whole, DeadClosed, TombClosed
<1>7. ASSUME NEW t \in Worker PROVE Stands(t) /\ BitsHome(t) /\ Calls(t)
  <2>1. Home(t) = "next" /\ pc[t] = "next" /\ \A l : ~Awaits(t, l)
    BY <1>1 DEF Home, Awaits
  <2>2. tls[t].i > 0
    <3>1. t \in 0 .. NWorkers
      BY UFConstants DEF Worker
    <3>2. ChunkFirst(t) \in 1 .. N + 1
      BY <3>1, ChunkBounds
    <3>. QED
      BY <1>1, <3>2
  <2>3. Stands(t)
    BY <1>1, <2>1, <2>2 DEF Stands, Searching
  <2>4. \A n \in Node : ~Visited(t, n)
    BY <1>3, <1>4 DEF Visited, w_id
  <2>5. BitsHome(t)
    BY <2>4 DEF BitsHome
  <2>6. Calls(t)
    BY <2>1 DEF Calls, ClaimHomes, SameHomes, Differs
  <2>. QED
    BY <2>3, <2>5, <2>6
<1>8. SameKnown /\ BitsInv
  BY InitSame, InitBits DEF BitsKnown
<1>. QED
  BY <1>6, <1>7, <1>8, InitHomes, InitLists DEF Search, SearchInv

-----------------------------------------------------------------------------
(* What the induction gives *)

\* A trail has no fewer states than roots.
LEMMA AtShort ==
  ASSUME NEW L \in Nat, NEW v, NEW rts, Len(rts) \in Nat, NEW p, At(L, v, rts, p)
  PROVE  Len(rts) <= L
<1>1. p \in [1 .. Len(rts) -> 1 .. L] /\ \A a, b \in 1 .. Len(rts) : a < b => p[a] < p[b]
  BY DEF At
<1>2. ASSUME NEW a \in 1 .. Len(rts), NEW b \in 1 .. Len(rts), p[a] = p[b] PROVE a = b
  <2>1. p[a] \in Int /\ p[b] \in Int
    BY <1>1
  <2>. QED
    BY <1>1, <1>2, <2>1
<1>3. p \in Injection(1 .. Len(rts), 1 .. L)
  BY <1>1, <1>2 DEF Injection, IsInjective
<1>4. IsFiniteSet(1 .. L) /\ Cardinality(1 .. L) = L
  BY FS_Interval
<1>5. Cardinality(1 .. Len(rts)) = Len(rts)
  <2>1. PICK n \in Nat : n = Len(rts)
    OBVIOUS
  <2>2. Cardinality(1 .. n) = n
    BY FS_Interval
  <2>. QED
    BY <2>1, <2>2
<1>6. Cardinality(1 .. Len(rts)) <= Cardinality(1 .. L)
  BY <1>3, <1>4, FS_Injection
<1>. QED
  BY <1>4, <1>5, <1>6

\* How many nodes there are.
LEMMA NodeCount == IsFiniteSet(Node) /\ Cardinality(Node) = N
<1>1. N \in Nat \ {0} /\ Node = 1 .. N
  BY UFConstants DEF Node
<1>. QED
  BY <1>1, FS_Interval

\* A worker's states on the trail have its bit and are different: the stacks
\* cannot be deeper than there are states.
LEMMA DepthBound ==
  ASSUME Search, NEW t \in Worker
  PROVE  /\ Len(tls[t].roots) <= N /\ Len(tls[t].rec) + 1 <= N
         /\ Home(t) \in Searching => tls[t].roots # <<>>
<1>1. OwnTyped /\ Stands(t) /\ tls[t].roots \in Seq(Slot)
  BY SearchBase, TlsTyped
<1>2. N \in Nat /\ N >= 1 /\ Len(tls[t].roots) \in Nat /\ Len(tls[t].rec) \in Nat /\ Depth(t) = Len(tls[t].rec) + 1
  BY <1>1, UFConstants, TrailTyped
<1>3. CASE Home(t) \notin Searching
  BY <1>1, <1>2, <1>3 DEF Stands
<1>4. CASE Home(t) \in Searching
  <2>1. OnTrail(t)
    BY <1>1, <1>4 DEF Stands
  <2>2. Depth(t) <= N
    <3>1. CASE tls[t].rec = <<>>
      BY <1>2, <3>1
    <3>2. CASE tls[t].rec # <<>>
      <4>1. PICK S \in SUBSET (Node \ {}) : Depth(t) <= Cardinality(S)
        BY <2>1, <3>2 DEF OnTrail, Marked
      <4>2. Cardinality(S) <= Cardinality(Node) /\ Cardinality(S) \in Nat
        BY NodeCount, FS_Subset, FS_CardinalityType
      <4>. QED
        BY <1>2, <4>1, <4>2, NodeCount
    <3>. QED
      BY <3>1, <3>2
  <2>3. PICK rts \in Seq(Slot) : rts = tls[t].roots
    BY <1>1
  <2>4. PICK L \in Nat : L = Depth(t)
    BY <1>2
  <2>5. Walk(L, Trail(t), rts, Class(t), Looked(t))
    BY <2>1, <2>3, <2>4 DEF OnTrail
  <2>6. Len(rts) <= L
    <3>1. PICK p : At(L, Trail(t), rts, p)
      BY <2>5 DEF Walk
    <3>. QED
      BY <3>1, AtShort
  <2>7. rts # <<>>
    <3>1. 1 \in 1 .. L
      BY <1>2, <2>4
    <3>. QED
      BY <2>5, <3>1, WalkRoots
  <2>. QED
    BY <1>2, <2>2, <2>3, <2>4, <2>6, <2>7
<1>. QED
  BY <1>3, <1>4

\* Search implies StacksInBounds.
LEMMA SearchStacks ==
  ASSUME Search
  PROVE  StacksInBounds
<1>1. uf[0] = uf_node
  BY SearchBase
<1>2. ASSUME NEW t \in Worker
      PROVE  /\ Len(tls[t].roots) <= N /\ 3 * Len(tls[t].rec) <= 3 * N
             /\ pc[t] = "found" /\ ret[t].code = "different" => Len(tls[t].roots) > 1
             /\ pc[t] = "backtrack" => tls[t].roots # <<>>
             /\ pc[t] = "next" => tls[t].roots = <<>> /\ tls[t].rec = <<>>
             /\ pc[t] = "edge" => tls[t].v_p \in Node
  <2>1. Len(tls[t].roots) <= N /\ 3 * Len(tls[t].rec) <= 3 * N
    BY DepthBound, UFConstants, SearchBase, TrailTyped
  <2>2. CASE pc[t] \in Callers
    <3>1. Home(t) = pc[t] /\ Stands(t) /\ Calls(t)
      BY <2>2, AtCaller, SearchBase
    <3>2. pc[t] = "found" /\ ret[t].code = "different" => Len(tls[t].roots) > 1
      BY <3>1 DEF Calls, Differs, TwoRoots
    <3>3. pc[t] = "backtrack" => tls[t].roots # <<>>
      BY <3>1, DepthBound DEF Searching
    <3>4. pc[t] = "next" => tls[t].roots = <<>> /\ tls[t].rec = <<>>
      BY <3>1 DEF Stands, Searching
    <3>5. pc[t] = "edge" => tls[t].v_p \in Node
      BY AtAnEdge DEF AtEdge
    <3>. QED
      BY <2>1, <3>2, <3>3, <3>4, <3>5
  <2>3. CASE pc[t] \notin Callers
    BY <2>1, <2>3 DEF Callers
  <2>. QED
    BY <2>2, <2>3
<1>. QED
  BY <1>1, <1>2 DEF StacksInBounds

\* Search implies FoundOnRoots.
LEMMA SearchFound ==
  ASSUME Search
  PROVE  FoundOnRoots
<1>1. ASSUME NEW t \in Worker, pc[t] = "claimed", ret[t].code = "CLAIM_FOUND"
      PROVE  \E r \in Range(tls[t].roots) : Root[r] = Root[tls[t].w]
  <2>1. Home(t) = "claimed" /\ Calls(t) /\ pc[t] \notin Labels /\ \A l : ~Awaits(t, l)
    BY <1>1, AtCaller, SearchBase DEF Callers
  <2>2. ClaimKnown(t) /\ Target(t) = tls[t].w
    BY <2>1 DEF Calls, ClaimHomes, Target
  <2>3. ~(pc[t] \in FindLabels) /\ pc[t] \notin {"claim_dead", "claim_found", "claim_or", "claim_check", "claim_again"}
    BY <1>1 DEF FindLabels
  <2>4. OnRoots(Root, tls[t].roots, tls[t].w)
    BY <1>1, <2>2, <2>3 DEF ClaimKnown
  <2>5. PICK a \in 1 .. Len(tls[t].roots) : Root[tls[t].roots[a]] = Root[tls[t].w]
    BY <2>4 DEF OnRoots
  <2>6. tls[t].roots \in Seq(Slot)
    BY SearchBase, TlsTyped
  <2>7. tls[t].roots[a] \in Range(tls[t].roots)
    BY <2>6 DEF Range
  <2>. QED
    BY <2>5, <2>7
<1>. QED
  BY <1>1 DEF FoundOnRoots

\* The sets as the properties name them.
LEMMA PartsAre ==
  /\ \A n \in Node : Parts[n] = {m \in Node : Root[m] = Root[n]}
  /\ DeadNodes = {n \in Node : Dead(n)}
BY DEF Parts, DeadNodes, Dead

\* Search implies ExploredClosed and DeadExplored.
LEMMA SearchExplored ==
  ASSUME Search
  PROVE  ExploredClosed /\ DeadExplored
<1>1. SetsRight /\ OwnTyped
  BY SearchBase
<1>2. ASSUME NEW n \in Node, Explored(n), NEW m \in Succ(n)
      PROVE  m \in Parts[n] \cup DeadNodes
  <2>1. m \in Node
    BY <1>1, SuccTyped
  <2>2. EdgeDone(n, m)
    BY <1>1, <1>2 DEF SetsRight, TombClosed
  <2>. QED
    BY <2>1, <2>2, PartsAre DEF EdgeDone
<1>3. ExploredClosed
  BY <1>2 DEF ExploredClosed, Explored, Succ
<1>4. DeadExplored
  BY PartsAre, DeadNodeExplored DEF DeadExplored, Explored
<1>. QED
  BY <1>3, <1>4

\* The search is right about its sets, bits, stacks and trail in every reachable
\* state, for every graph and every number of workers that has a bit for each in
\* worker_set (1ULL << worker: 64).
THEOREM SearchHolds == NWorkers <= WordBits => (Spec => []Search)
<1> SUFFICES ASSUME NWorkers <= WordBits PROVE Spec => []Search
  OBVIOUS
<1>1. Init => Search
  BY InitSearch
<1>2. Search /\ [Next]_vars => Search'
  BY NextSearch
<1>. QED
  BY <1>1, <1>2, PTL DEF Spec

\* CLAIM_FOUND is answered only if a root of the worker is in the set, so popping
\* the roots of line 633 ends.
THEOREM FindsOnRoots == NWorkers <= WordBits => (Spec => []FoundOnRoots)
BY SearchHolds, SearchFound, PTL

\* The two stacks of a worker, which line 668 and 669 give room for G_num_nodes
\* entries and three times as many, never overflow, line 633 never pops the last
\* root, and line 644 never reads an empty stack.
THEOREM StacksAreInBounds == NWorkers <= WordBits => (Spec => []StacksInBounds)
BY SearchHolds, SearchStacks, PTL

\* Every edge of an explored state stays in its set or leads to a completed one,
\* although several workers have seen a part of its edges each.
THEOREM EdgesOfExplored == NWorkers <= WordBits => (Spec => []ExploredClosed)
BY SearchHolds, SearchExplored, PTL

\* No state of a completed set is left unexplored.
THEOREM CompletedExplored == NWorkers <= WordBits => (Spec => []DeadExplored)
BY SearchHolds, SearchExplored, PTL

-----------------------------------------------------------------------------
(* Who holds the locks *)

HeldALabels == {"list_b", "swap", "set_parent"} \cup JoinedLabels
HeldBLabels == {"swap", "set_parent"} \cup JoinedLabels

\* The variables of unite name a lock only while unite has it, or is about to ask for it.
HeldWhen(w) ==
  LET u == loc[w].unite
  IN  /\ u.q # 0 => Region(w)
      /\ u.al # 0 => pc[w] \in HeldALabels \/ Awaits(w, "list_b") \/ Awaits(w, "found_r")
      /\ u.bl # 0 => pc[w] \in HeldBLabels \/ Awaits(w, "found_r")

AllHeld ==
  \A n \in Node :
    /\ uf[n].uf_status = LOCK => \E w \in Worker : n \in HoldsUf(w)
    /\ uf[n].list_status = LOCK => \E w \in Worker : n \in HoldsList(w)

LocksHeld == AllHeld /\ \A w \in Worker : HeldWhen(w)

UniteSteps(w) ==
  \/ UniteFindB(w) \/ UniteRoots(w) \/ LockUf(w) \/ LockUfCheck(w) \/ LockUfUndo(w)
  \/ LockListA(w) \/ LockListB(w) \/ SwapLists(w) \/ SetParent(w)
  \/ ReadQw(w) \/ CompareRw(w) \/ AddQw(w) \/ CheckR(w) \/ FoundR(w)
  \/ UnlockListA(w) \/ UnlockListB(w) \/ UnlockUf(w)

\* Outside unite a worker's variables of unite are those of none.
LEMMA NoneHeld ==
  ASSUME NEW callers, SetsInv(callers), NEW w \in Worker, HeldWhen(w), ~Region(w)
  PROVE  loc[w].unite.q = 0 /\ loc[w].unite.al = 0 /\ loc[w].unite.bl = 0
BY DEF HeldWhen, Region, RegionLabels, HeldALabels, HeldBLabels, JoinedLabels, ListLabels

\* The steps of find, make_claim, sameset, pick_from_list, remove_from_list and
\* mark_dead do not touch the variables of unite.
LEMMA UniteRests ==
  ASSUME NEW callers, Typed(callers), NEW w \in Worker, UFStep(w), ~UniteSteps(w)
  PROVE  loc'[w].unite = loc[w].unite
<1>1. loc \in [Worker -> Locals] /\ loc[w] \in Locals
  BY DEF Typed, LocTyped
<1>2. ASSUME UNCHANGED loc PROVE loc'[w].unite = loc[w].unite
  BY <1>2
<1>3. ASSUME NEW x, loc' = [loc EXCEPT ![w].pick = x] PROVE loc'[w].unite = loc[w].unite
  BY <1>1, <1>3 DEF Locals
<1>4. ASSUME NEW x, loc' = [loc EXCEPT ![w].same = x] PROVE loc'[w].unite = loc[w].unite
  BY <1>1, <1>4 DEF Locals
<1>5. ASSUME NEW x, loc' = [loc EXCEPT ![w].first = x] PROVE loc'[w].unite = loc[w].unite
  BY <1>1, <1>5 DEF Locals
<1>6. ASSUME NEW x, loc' = [loc EXCEPT ![w].same.a = x] \/ loc' = [loc EXCEPT ![w].same.b = x] PROVE loc'[w].unite = loc[w].unite
  BY <1>1, <1>6 DEF Locals, Sames
<1>7. ASSUME NEW x, loc' = [loc EXCEPT ![w].pick.b = x] \/ loc' = [loc EXCEPT ![w].pick.c = x] PROVE loc'[w].unite = loc[w].unite
  BY <1>1, <1>7 DEF Locals, Picks
<1>8. CASE FindRead(w) \/ FindCompress(w) \/ ClaimDead(w) \/ ClaimFound(w)
  BY <1>2, <1>8 DEF FindRead, FindCompress, ClaimDead, ClaimFound
<1>9. CASE ClaimOr(w) \/ ClaimCheck(w)
  BY <1>2, <1>5, <1>9 DEF ClaimOr, ClaimCheck
<1>10. CASE SameB(w) \/ SameA(w) \/ SameRetry(w)
  BY <1>2, <1>4, <1>6, <1>10 DEF SameB, SameA, SameRetry, SameReturn
<1>11. CASE PickA(w) \/ PickNext(w) \/ PickB(w) \/ PickC(w) \/ PickCompare(w) \/ PickWrite(w) \/ MarkDead(w)
  BY <1>2, <1>3, <1>7, <1>11 DEF PickA, PickNext, PickB, PickC, PickCompare, PickWrite, MarkDead, PickReturn, ContinueFromC
<1>12. CASE Remove(w) \/ RemoveColor(w)
  BY <1>2, <1>3, <1>12 DEF Remove, RemoveColor, PickReturn
<1>. QED
  BY <1>8, <1>9, <1>10, <1>11, <1>12 DEF UFStep, UniteSteps

\* find, which CheckR and unite call, and which mark_dead follows.
LEMMA FindHeld ==
  ASSUME NEW callers, SetsInv(callers), NEW w \in Worker, HeldWhen(w), FindRead(w) \/ FindCompress(w)
  PROVE  HeldWhen(w)'
<1>1. Typed(callers) /\ Outside(callers) /\ InCall(w, callers) /\ UFStep(w) /\ pc[w] \in FindLabels /\ pc[w] \in Labels
  BY DEF SetsInv, Knows, UFStep, FindLabels, FindRead, FindCompress, Labels
<1>2. Typed(callers)' /\ Upward'
  BY <1>1, UFStepTyped, UFStepKeeps DEF SetsInv
<1>3. loc'[w] = loc[w]
  BY <1>2, FindOutcome
<1>4. CASE pc'[w] \in FindLabels /\ stack' = stack
  BY <1>1, <1>3, <1>4 DEF HeldWhen, Region, Awaits, RegionLabels, HeldALabels, HeldBLabels, JoinedLabels, FindLabels
<1>5. ASSUME NEW code, NEW node, Return(w, code, node) PROVE HeldWhen(w)'
  <2>1. \A k, l : Awaits(w, k) /\ Awaits(w, l) => k = l
    BY <1>1, AwaitsWhere
  <2>2. \A l : Awaits(w, l) => (pc'[w] = l /\ l \in FindBacks) \/ Awaits(w, l)' \/ (l = "mark_dead" /\ pc'[w] = "mark_dead")
    <3>1. pc[w] \notin PickLabels
      BY <1>1 DEF PickLabels, FindLabels
    <3>2. ASSUME NEW l, Awaits(w, l)
          PROVE  (pc'[w] = l /\ l \in FindBacks) \/ Awaits(w, l)' \/ (l = "mark_dead" /\ pc'[w] = "mark_dead")
      <4>1. \/ pc'[w] = "mark_dead" /\ Awaits(w, l)'
            \/ pc'[w] = "mark_dead" /\ Awaits(w, "mark_dead")
            \/ pc'[w] \in FindBacks /\ Awaits(w, pc'[w])
        BY <1>1, <1>5, <3>1, <3>2, AwaitsReturn
      <4>. QED
        BY <2>1, <3>2, <4>1
    <3>. QED
      BY <3>2
  <2>3. pc[w] \notin RegionLabels
    BY <1>1 DEF RegionLabels, FindLabels
  <2>4. \A l \in {"list_a", "list_b"} : Awaits(w, l) => Awaits(w, l)'
    BY <2>2 DEF FindBacks
  <2>5. Awaits(w, "found_r") => pc'[w] = "found_r" \/ Awaits(w, "found_r")'
    BY <2>2
  <2>. QED
    BY <1>3, <2>3, <2>4, <2>5 DEF HeldWhen, Region, RegionLabels, HeldALabels, HeldBLabels, JoinedLabels, ListLabels
<1>. QED
  BY <1>2, <1>4, <1>5, FindOutcome

\* pick_from_list, which lock_list calls.
LEMMA PickHeld ==
  ASSUME NEW callers, SetsInv(callers), NEW w \in Worker, HeldWhen(w),
         \/ PickA(w) \/ PickNext(w) \/ PickB(w) \/ PickC(w) \/ PickCompare(w) \/ PickWrite(w) \/ MarkDead(w)
  PROVE  HeldWhen(w)'
<1>1. Typed(callers) /\ Outside(callers) /\ InCall(w, callers) /\ UFStep(w) /\ pc[w] \in PickLabels
  BY DEF SetsInv, Knows, UFStep, PickLabels, PickA, PickNext, PickB, PickC, PickCompare, PickWrite, MarkDead
<1>2. ~UniteSteps(w)
  BY <1>1 DEF PickLabels, UniteSteps, UniteFindB, UniteRoots, LockUf, LockUfCheck, LockUfUndo, LockListA, LockListB,
     SwapLists, SetParent, ReadQw, CompareRw, AddQw, CheckR, FoundR, UnlockListA, UnlockListB, UnlockUf
<1>3. loc'[w].unite = loc[w].unite
  BY <1>1, <1>2, UniteRests
<1>4. /\ ~Awaits(w, "found_r")
      /\ \A k, l : Awaits(w, k) /\ Awaits(w, l) => k = l
  <2>1. pc[w] \notin FindLabels
    BY <1>1 DEF PickLabels, FindLabels
  <2>. QED
    BY <1>1, <2>1, AwaitsWhere DEF FindBacks
<1>5. pc[w] \notin RegionLabels /\ pc[w] \notin HeldALabels /\ pc[w] \notin HeldBLabels
  BY <1>1 DEF PickLabels, RegionLabels, HeldALabels, HeldBLabels, JoinedLabels
<1>6. CASE \A l \in ListLabels : Awaits(w, l)' <=> Awaits(w, l)
  BY <1>3, <1>4, <1>5, <1>6 DEF HeldWhen, Region, ListLabels
<1>7. CASE \E code, node : Return(w, code, node)
  <2>1. \/ \A l : ~Awaits(w, l)
        \/ pc'[w] \in ListLabels /\ Awaits(w, pc'[w])
    BY <1>1, <1>7, PickMoves
  <2>2. CASE \A l : ~Awaits(w, l)
    BY <1>3, <1>5, <2>2 DEF HeldWhen, Region
  <2>3. CASE pc'[w] \in ListLabels /\ Awaits(w, pc'[w])
    BY <1>3, <1>4, <1>5, <2>3 DEF HeldWhen, Region, ListLabels, RegionLabels, HeldALabels
  <2>. QED
    BY <2>1, <2>2, <2>3
<1>8. \/ \E label : Goto(w, label)
      \/ CallFind(w, loc[w].pick.a, <<"mark_dead">>)
      \/ \E code, node : Return(w, code, node)
  BY DEF PickA, PickNext, PickB, PickC, PickCompare, PickWrite, MarkDead, PickReturn, ContinueFromC
<1>. QED
  BY <1>1, <1>6, <1>7, <1>8, PickMoves

\* unite: what it holds after each of its steps.
LEMMA UniteMoves ==
  ASSUME NEW callers, SetsInv(callers), NEW w \in Worker, pc[w] \in Labels \ (FindLabels \cup PickLabels)
  PROVE  /\ \A label \in Labels \ FindLabels : Goto(w, label) \/ Resume(w, label) => pc'[w] = label
         /\ \A s \in Slot, b \in FindBacks : CallFind(w, s, <<b>>) => \A l : Awaits(w, l)' <=> l = b
         /\ \A l \in ListLabels : Call(w, "pick_a", <<l>>) => \A k : Awaits(w, k)' <=> k = l
<1>1. Typed(callers) /\ Outside(callers) /\ InCall(w, callers)
  BY DEF SetsInv, Knows
<1>2. \A label \in Labels \ FindLabels : Goto(w, label) \/ Resume(w, label) => pc'[w] = label
  BY <1>1, Moved
<1>3. \A s \in Slot, b \in FindBacks : CallFind(w, s, <<b>>) => \A l : Awaits(w, l)' <=> l = b
  BY <1>1, FindCalled
<1>4. \A l \in ListLabels : Call(w, "pick_a", <<l>>) => \A k : Awaits(w, k)' <=> k = l
  BY <1>1, AwaitsPush
<1>. QED
  BY <1>2, <1>3, <1>4

\* unite up to lock_list holds no list entry, and the root q exactly while it is
\* at the labels after lock_uf.
LEMMA UniteHeldBefore ==
  ASSUME NEW callers, SetsInv(callers), NEW w \in Worker, HeldWhen(w),
         \/ UniteFindB(w) \/ UniteRoots(w) \/ LockUf(w) \/ LockUfCheck(w) \/ LockUfUndo(w)
  PROVE  HeldWhen(w)' /\ loc[w].unite.al = 0 /\ loc[w].unite.bl = 0
<1>1. Typed(callers) /\ Outside(callers) /\ InCall(w, callers) /\ UFStep(w)
  BY DEF SetsInv, Knows, UFStep
<1>2. pc[w] \in {"unite_a", "unite_b", "lock_uf", "lock_uf_check", "lock_uf_undo"}
  BY DEF UniteFindB, UniteRoots, LockUf, LockUfCheck, LockUfUndo
<1>3. pc[w] \in Labels \ (FindLabels \cup PickLabels) /\ pc[w] \notin HeldALabels \cup HeldBLabels
  BY <1>2 DEF Labels, FindLabels, PickLabels, HeldALabels, HeldBLabels, JoinedLabels
<1>4. \A l : ~Awaits(w, l)
  BY <1>1, <1>3, AwaitsNone
<1>5. loc[w].unite.al = 0 /\ loc[w].unite.bl = 0
  BY <1>3, <1>4 DEF HeldWhen
<1>6. loc'[w].unite.al = 0 /\ loc'[w].unite.bl = 0
  BY <1>1, <1>2, <1>5, UFStepHeld DEF LockListA, LockListB
<1>7. \/ loc'[w].unite.q = 0
      \/ loc'[w].unite.q = loc[w].unite.q
      \/ pc'[w] = "lock_uf"
  BY <1>1, UFStepRoles
<1>8. loc'[w].unite.q = 0 \/ Region(w)'
  <2>1. CASE UniteFindB(w)
    <3>1. ~Region(w) /\ pc[w] = "unite_a"
      BY <1>4, <2>1 DEF UniteFindB, Region, RegionLabels
    <3>2. loc[w].unite.q = 0
      BY <3>1, NoneHeld
    <3>3. pc'[w] = "find"
      BY <1>1, <1>3, <2>1, CallFindMoves, LocalsTyped DEF UniteFindB, Typed
    <3>. QED
      BY <1>7, <3>2, <3>3
  <2>2. CASE UniteRoots(w)
    <3>1. CASE UniteReturn(w)
      BY <1>3, <3>1, UniteReturned DEF NoUnite
    <3>2. CASE Resume(w, "lock_uf")
      <4>1. pc'[w] = "lock_uf"
        BY <1>3, <3>2, UniteMoves DEF Labels, FindLabels
      <4>. QED
        BY <4>1 DEF Region, RegionLabels
    <3>. QED
      BY <2>2, <3>1, <3>2 DEF UniteRoots
  <2>3. ASSUME UniteRetry(w) PROVE loc'[w].unite.q = 0
    BY <1>1, <1>2, <2>3, UniteRetryKept
  <2>4. CASE LockUf(w)
    <3>1. ASSUME Goto(w, "lock_uf_check") PROVE Region(w)'
      <4>1. pc'[w] = "lock_uf_check"
        BY <1>3, <3>1, UniteMoves DEF Labels, FindLabels
      <4>. QED
        BY <4>1 DEF Region, RegionLabels
    <3>. QED
      BY <2>3, <2>4, <3>1 DEF LockUf
  <2>5. CASE LockUfCheck(w)
    <3>1. ASSUME Goto(w, "lock_uf_undo") PROVE Region(w)'
      <4>1. pc'[w] = "lock_uf_undo"
        BY <1>3, <3>1, UniteMoves DEF Labels, FindLabels
      <4>. QED
        BY <4>1 DEF Region, RegionLabels
    <3>2. ASSUME Call(w, "pick_a", <<"list_a">>) PROVE Region(w)'
      <4>1. Awaits(w, "list_a")'
        BY <1>3, <3>2, UniteMoves DEF ListLabels
      <4>. QED
        BY <4>1 DEF Region, ListLabels
    <3>. QED
      BY <2>5, <3>1, <3>2 DEF LockUfCheck, CallPick
  <2>6. CASE LockUfUndo(w)
    BY <2>3, <2>6 DEF LockUfUndo
  <2>. QED
    BY <2>1, <2>2, <2>4, <2>5, <2>6
<1>. QED
  BY <1>5, <1>6, <1>8 DEF HeldWhen

\* From lock_list to the unlocks unite holds q and the list entries it has got,
\* and nothing when it returns.
LEMMA UniteHeldAfter ==
  ASSUME NEW callers, SetsInv(callers), NEW w \in Worker, HeldWhen(w),
         \/ LockListA(w) \/ LockListB(w) \/ SwapLists(w) \/ SetParent(w)
         \/ ReadQw(w) \/ CompareRw(w) \/ AddQw(w) \/ CheckR(w) \/ FoundR(w)
         \/ UnlockListA(w) \/ UnlockListB(w) \/ UnlockUf(w)
  PROVE  HeldWhen(w)'
<1>1. Typed(callers) /\ Outside(callers) /\ InCall(w, callers) /\ UFStep(w)
  BY DEF SetsInv, Knows, UFStep
<1>2. pc[w] \in {"list_a", "list_b", "swap", "set_parent"} \cup JoinedLabels
  BY DEF LockListA, LockListB, SwapLists, SetParent, ReadQw, CompareRw, AddQw, CheckR, FoundR, UnlockListA, UnlockListB, UnlockUf,
     JoinedLabels
<1>3. pc[w] \in Labels \ (FindLabels \cup PickLabels)
  BY <1>2 DEF Labels, FindLabels, PickLabels, JoinedLabels
<1>4. \A l : ~Awaits(w, l)
  BY <1>1, <1>3, AwaitsNone
<1>5. loc'[w].unite = NoUnite => HeldWhen(w)'
  BY DEF HeldWhen, NoUnite
<1>6. UniteReturn(w) => loc'[w].unite = NoUnite
  BY <1>3, UniteReturned
<1>7. pc'[w] \in {"swap", "set_parent"} \cup JoinedLabels => HeldWhen(w)'
  BY DEF HeldWhen, Region, RegionLabels, HeldALabels, HeldBLabels, JoinedLabels
<1>8. \A label \in {"swap", "set_parent"} \cup JoinedLabels : Goto(w, label) \/ Resume(w, label) => HeldWhen(w)'
  <2>1. {"swap", "set_parent"} \cup JoinedLabels \subseteq Labels \ FindLabels
    BY DEF JoinedLabels, Labels, FindLabels
  <2>. QED
    BY <1>3, <1>7, <2>1, UniteMoves
<1>9. CASE LockListA(w)
  <2>1. pc[w] = "list_a" /\ loc[w].unite.al = 0 /\ loc[w].unite.bl = 0
    BY <1>4, <1>9 DEF LockListA, HeldWhen, HeldALabels, HeldBLabels, JoinedLabels
  <2>2. loc'[w].unite.bl = 0
    BY <1>1, <2>1, UFStepHeld DEF LockListB
  <2>3. CASE Call(w, "pick_a", <<"list_b">>)
    <3>1. Awaits(w, "list_b")'
      BY <1>3, <2>3, UniteMoves DEF ListLabels
    <3>. QED
      BY <2>2, <3>1 DEF HeldWhen, Region, ListLabels
  <2>4. CASE Call(w, "pick_a", <<"list_a">>) /\ ~Locks(w, ret[w].node)
    <3>1. Awaits(w, "list_a")'
      BY <1>3, <2>4, UniteMoves DEF ListLabels
    <3>2. loc'[w].unite.al = 0
      BY <1>1, <2>1, <2>4, UFStepHeld DEF LockListB
    <3>. QED
      BY <2>2, <3>1, <3>2 DEF HeldWhen, Region, ListLabels
  <2>. QED
    BY <1>5, <1>6, <1>9, <2>3, <2>4 DEF LockListA, CallPick, PickAgain, Locks
<1>10. CASE LockListB(w)
  <2>1. pc[w] = "list_b" /\ loc[w].unite.bl = 0
    BY <1>4, <1>10 DEF LockListB, HeldWhen, HeldBLabels, JoinedLabels
  <2>2. CASE Call(w, "pick_a", <<"list_b">>) /\ ~Locks(w, ret[w].node)
    <3>1. Awaits(w, "list_b")'
      BY <1>3, <2>2, UniteMoves DEF ListLabels
    <3>2. loc'[w].unite.bl = 0
      BY <1>1, <2>1, <2>2, UFStepHeld DEF LockListA
    <3>. QED
      BY <3>1, <3>2 DEF HeldWhen, Region, ListLabels
  <2>. QED
    BY <1>5, <1>6, <1>8, <1>10, <2>2 DEF LockListB, CallPick, PickAgain, Locks
<1>11. CASE CheckR(w)
  <2>1. CASE CallFind(w, loc[w].unite.up, <<"found_r">>)
    <3>1. loc[w].unite.up \in Slot
      BY <1>1, LocalsTyped DEF Typed
    <3>2. Awaits(w, "found_r")'
      BY <1>3, <2>1, <3>1, UniteMoves DEF FindBacks
    <3>. QED
      BY <3>2 DEF HeldWhen, Region
  <2>. QED
    BY <1>8, <1>11, <2>1 DEF CheckR, JoinedLabels
<1>12. CASE SwapLists(w) \/ SetParent(w) \/ ReadQw(w) \/ CompareRw(w) \/ AddQw(w) \/ FoundR(w) \/ UnlockListA(w) \/ UnlockListB(w)
  <2>1. "set_parent" \in {"swap", "set_parent"} \cup JoinedLabels
        /\ \A l \in {"read_qw", "compare_rw", "add_qw", "unlock_a", "check_r", "unlock_b", "unlock_uf"} :
             l \in {"swap", "set_parent"} \cup JoinedLabels
    BY DEF JoinedLabels
  <2>. QED
    BY <1>8, <1>12, <2>1 DEF SwapLists, SetParent, ReadQw, CompareRw, AddQw, FoundR, UnlockListA, UnlockListB
<1>13. CASE UnlockUf(w)
  BY <1>5, <1>6, <1>13 DEF UnlockUf
<1>. QED
  BY <1>9, <1>10, <1>11, <1>12, <1>13

\* What unite holds changes only where it locks, unlocks, gives up or ends.
LEMMA UniteKeepsHeld ==
  ASSUME NEW callers, Typed(callers), NEW w \in Worker,
         \/ LockUfCheck(w) \/ SwapLists(w) \/ SetParent(w) \/ ReadQw(w) \/ CompareRw(w) \/ AddQw(w)
         \/ CheckR(w) \/ FoundR(w) \/ UnlockListA(w) \/ UnlockListB(w)
         \/ (LockListA(w) \/ LockListB(w)) /\ ~Completed(w)
  PROVE  /\ loc'[w].unite.q = loc[w].unite.q
         /\ loc'[w].unite.al = loc[w].unite.al \/ LockListA(w)
         /\ loc'[w].unite.bl = loc[w].unite.bl \/ LockListB(w)
<1>1. loc \in [Worker -> Locals] /\ loc[w] \in Locals /\ loc[w].unite \in Unites
  BY LocalsTyped DEF Typed, LocTyped
<1>2. CASE SwapLists(w) \/ SetParent(w) \/ AddQw(w) \/ CheckR(w) \/ UnlockListA(w) \/ UnlockListB(w)
  BY <1>2 DEF SwapLists, SetParent, AddQw, CheckR, UnlockListA, UnlockListB
<1>3. ASSUME NEW x, loc' = [loc EXCEPT ![w].pick = x] PROVE loc'[w].unite = loc[w].unite
  BY <1>1, <1>3 DEF Locals
<1>4. CASE LockUfCheck(w)
  BY <1>3, <1>4 DEF LockUfCheck, CallPick
<1>5. CASE ReadQw(w) \/ CompareRw(w) \/ FoundR(w)
  <2>1. ASSUME NEW x, loc' = [loc EXCEPT ![w].unite.qw = x] \/ loc' = [loc EXCEPT ![w].unite.up = x]
        PROVE  loc'[w].unite.q = loc[w].unite.q /\ loc'[w].unite.al = loc[w].unite.al /\ loc'[w].unite.bl = loc[w].unite.bl
    BY <1>1, <2>1 DEF Locals, Unites
  <2>. QED
    BY <1>5, <2>1 DEF ReadQw, CompareRw, FoundR
<1>6. CASE LockListA(w) /\ ~Completed(w)
  <2>1. ASSUME NEW l, NEW b, loc' = [loc EXCEPT ![w] = [@ EXCEPT !.unite.al = l, !.pick.a = b]]
        PROVE  loc'[w].unite.q = loc[w].unite.q /\ loc'[w].unite.bl = loc[w].unite.bl
    BY <1>1, <2>1 DEF Locals, Unites
  <2>. QED
    BY <1>3, <1>6, <2>1 DEF LockListA, CallPick
<1>7. CASE LockListB(w) /\ ~Completed(w)
  <2>1. ASSUME NEW l, loc' = [loc EXCEPT ![w].unite.bl = l]
        PROVE  loc'[w].unite.q = loc[w].unite.q /\ loc'[w].unite.al = loc[w].unite.al
    BY <1>1, <2>1 DEF Locals, Unites
  <2>. QED
    BY <1>3, <1>7, <2>1 DEF LockListB, CallPick
<1>. QED
  BY <1>2, <1>4, <1>5, <1>6, <1>7

\* Which steps lead to the labels at which less is held.
LEMMA ToLess ==
  ASSUME NEW callers, SetsInv(callers), NEW w \in Worker, UFStep(w)
  PROVE  /\ pc'[w] = "lock_uf" => UniteRoots(w)
         /\ pc'[w] = "unlock_b" => UnlockListA(w)
         /\ pc'[w] = "unlock_uf" => UnlockListB(w)
<1> DEFINE Less == {"lock_uf", "unlock_b", "unlock_uf"}
<1>1. Typed(callers) /\ Outside(callers) /\ InCall(w, callers) /\ pc[w] \in Labels /\ pc \in [Worker -> Labels \cup callers]
  BY StepLabel DEF SetsInv, Knows, Typed, ControlTyped
<1>2. Less \subseteq Labels /\ Less \cap FindBacks = {} /\ Less \cap ListLabels = {}
  BY DEF Labels, FindBacks, ListLabels
<1>3. ASSUME NEW code, NEW node, Return(w, code, node) PROVE pc'[w] \notin Less
  <2>1. pc'[w] \in callers \/ pc'[w] = "mark_dead" \/ pc'[w] \in FindBacks \/ pc'[w] \in ListLabels
    BY <1>1, <1>3, AwaitsReturn
  <2>2. "mark_dead" \notin Less /\ Less \cap callers = {}
    BY <1>1, <1>2 DEF Outside
  <2>. QED
    BY <1>2, <2>1, <2>2
<1>4. ASSUME NEW label, Goto(w, label) \/ Resume(w, label) \/ \E backs : Call(w, label, backs)
      PROVE  pc'[w] = label
  BY <1>1, <1>4 DEF Goto, Resume, Call
<1>5. ASSUME NEW s, NEW backs, CallFind(w, s, backs) PROVE pc'[w] \notin Less
  BY <1>4, <1>5 DEF CallFind
<1>6. CASE FindRead(w) \/ FindCompress(w)
  <2>1. \/ pc' = pc /\ pc[w] \notin Less
        \/ pc' = [pc EXCEPT ![w] = "compress"]
        \/ \E code, node : Return(w, code, node)
    BY <1>6 DEF FindRead, FindCompress, control
  <2>. QED
    BY <1>1, <1>3, <2>1
<1>7. CASE ClaimDead(w) \/ ClaimFound(w) \/ ClaimOr(w) \/ ClaimCheck(w)
  BY <1>3, <1>4, <1>5, <1>7 DEF ClaimDead, ClaimFound, ClaimOr, ClaimCheck
<1>8. CASE SameB(w) \/ SameA(w) \/ SameRetry(w)
  BY <1>3, <1>4, <1>5, <1>8 DEF SameB, SameA, SameRetry, SameReturn
<1>9. CASE PickA(w) \/ PickNext(w) \/ PickB(w) \/ PickC(w) \/ PickCompare(w) \/ PickWrite(w) \/ MarkDead(w) \/ Remove(w) \/ RemoveColor(w)
  BY <1>3, <1>4, <1>5, <1>9 DEF PickA, PickNext, PickB, PickC, PickCompare, PickWrite, MarkDead, PickReturn, ContinueFromC,
     Remove, RemoveColor
<1>10. CASE UniteFindB(w) \/ UniteRoots(w) \/ LockUf(w) \/ LockUfCheck(w) \/ LockUfUndo(w) \/ LockListA(w) \/ LockListB(w)
  <2>1. UniteFindB(w) \/ LockUf(w) \/ LockUfCheck(w) \/ LockUfUndo(w) \/ LockListA(w) \/ LockListB(w) => pc'[w] \notin Less
    BY <1>3, <1>4, <1>5 DEF UniteFindB, LockUf, LockUfCheck, LockUfUndo, LockListA, LockListB, UniteReturn, UniteRetry, CallPick
  <2>2. UniteRoots(w) => pc'[w] = "lock_uf" \/ pc'[w] \notin Less
    BY <1>3, <1>4 DEF UniteRoots, UniteReturn
  <2>. QED
    BY <1>10, <2>1, <2>2
<1>11. CASE SwapLists(w) \/ SetParent(w) \/ ReadQw(w) \/ CompareRw(w) \/ AddQw(w) \/ CheckR(w) \/ FoundR(w)
  BY <1>4, <1>5, <1>11 DEF SwapLists, SetParent, ReadQw, CompareRw, AddQw, CheckR, FoundR
<1>12. CASE UnlockListA(w) \/ UnlockListB(w) \/ UnlockUf(w)
  <2>1. UnlockListA(w) => pc'[w] = "unlock_b"
    BY <1>4 DEF UnlockListA
  <2>2. UnlockListB(w) => pc'[w] = "unlock_uf"
    BY <1>4 DEF UnlockListB
  <2>3. UnlockUf(w) => pc'[w] \notin Less
    BY <1>3 DEF UnlockUf, UniteReturn
  <2>. QED
    BY <1>12, <2>1, <2>2, <2>3
<1>. QED
  BY <1>6, <1>7, <1>8, <1>9, <1>10, <1>11, <1>12 DEF UFStep

\* lock_list finds a state: the set is not completed, for both states are on a cycle through it.
Finds(w) == pc[w] \in ListLabels => ~Completed(w)

\* A lock of its own that a worker no longer holds it has opened.
LEMMA HoldsOrFrees ==
  ASSUME NEW callers, SetsInv(callers), NEW w \in Worker, HeldWhen(w), UFStep(w), Finds(w), NEW n \in Node
  PROVE  /\ n \in HoldsUf(w) => n \in HoldsUf(w)' \/ uf'[n].uf_status # LOCK
         /\ n \in HoldsList(w) => n \in HoldsList(w)' \/ uf'[n].list_status # LOCK
<1> DEFINE u == loc[w].unite
           v == loc'[w].unite
<1>1. Typed(callers) /\ uf \in [Slot -> Entry] /\ u.q \in Slot /\ u.al \in Slot /\ u.bl \in Slot
  BY LocalsTyped DEF SetsInv, Typed, UfTyped
<1>2. /\ pc'[w] = "lock_uf" => UniteRoots(w)
      /\ pc'[w] = "unlock_b" => UnlockListA(w)
      /\ pc'[w] = "unlock_uf" => UnlockListB(w)
  BY ToLess
<1>3. CASE ~UniteSteps(w)
  <2>1. v = u
    BY <1>1, <1>3, UniteRests
  <2>2. pc'[w] \notin {"lock_uf", "unlock_b", "unlock_uf"}
    BY <1>2, <1>3 DEF UniteSteps
  <2>. QED
    BY <2>1, <2>2 DEF HoldsUf, HoldsList
<1>4. CASE UniteFindB(w) \/ UniteRoots(w) \/ LockUf(w) \/ LockUfUndo(w)
  <2>1. n \notin HoldsList(w)
    BY <1>4, UniteHeldBefore DEF HoldsList
  <2>2. CASE UniteFindB(w) \/ UniteRoots(w)
    <3>1. pc[w] \in {"unite_a", "unite_b"} /\ Typed(callers) /\ Outside(callers) /\ InCall(w, callers)
      BY <1>1, <2>2 DEF UniteFindB, UniteRoots, SetsInv, Knows
    <3>2. \A l : ~Awaits(w, l)
      <4>1. pc[w] \in (Labels \cup callers) \ (FindLabels \cup PickLabels)
        BY <3>1 DEF Labels, FindLabels, PickLabels
      <4>. QED
        BY <3>1, <4>1, AwaitsNone
    <3>3. ~Region(w)
      BY <3>1, <3>2 DEF Region, RegionLabels
    <3>4. u.q = 0
      BY <3>3, NoneHeld
    <3>. QED
      BY <2>1, <3>4 DEF HoldsUf
  <2>3. CASE LockUf(w)
    BY <2>1, <2>3 DEF LockUf, HoldsUf
  <2>4. CASE LockUfUndo(w)
    <3>1. uf'[u.q].uf_status = LIVE
      BY <1>1, <2>4 DEF LockUfUndo, Entry
    <3>. QED
      BY <2>1, <3>1 DEF HoldsUf, LIVE, LOCK
  <2>. QED
    BY <1>4, <2>2, <2>3, <2>4
<1>5. CASE UnlockUf(w)
  <2>1. uf'[u.q].uf_status = LIVE /\ pc[w] = "unlock_uf"
    BY <1>1, <1>5 DEF UnlockUf, Entry
  <2>. QED
    BY <2>1 DEF HoldsUf, HoldsList, LIVE, LOCK
<1>6. CASE \/ LockUfCheck(w) \/ SwapLists(w) \/ SetParent(w) \/ ReadQw(w) \/ CompareRw(w) \/ AddQw(w)
           \/ CheckR(w) \/ FoundR(w) \/ UnlockListA(w) \/ UnlockListB(w) \/ LockListA(w) \/ LockListB(w)
  <2>1. LockListA(w) \/ LockListB(w) => ~Completed(w)
    BY DEF Finds, ListLabels, LockListA, LockListB
  <2>2. /\ v.q = u.q
        /\ v.al = u.al \/ LockListA(w)
        /\ v.bl = u.bl \/ LockListB(w)
    BY <1>1, <1>6, <2>1, UniteKeepsHeld
  <2>3. pc'[w] # "lock_uf"
    BY <1>2, <1>6 DEF UniteRoots, LockUfCheck, SwapLists, SetParent, ReadQw, CompareRw, AddQw, CheckR, FoundR,
       UnlockListA, UnlockListB, LockListA, LockListB
  <2>4. n \in HoldsUf(w) => n \in HoldsUf(w)'
    BY <2>2, <2>3 DEF HoldsUf
  <2>5. (LockListA(w) => u.al = 0) /\ (LockListB(w) => u.bl = 0)
    <3>1. ASSUME NEW l \in ListLabels, pc[w] = l PROVE \A k : ~Awaits(w, k)
      <4>1. pc[w] \in (Labels \cup callers) \ (FindLabels \cup PickLabels) /\ Outside(callers) /\ InCall(w, callers)
        BY <3>1 DEF Labels, FindLabels, PickLabels, ListLabels, SetsInv, Knows
      <4>. QED
        BY <4>1, AwaitsNone
    <3>. QED
      BY <3>1 DEF LockListA, LockListB, HeldWhen, HeldALabels, HeldBLabels, JoinedLabels, ListLabels
  <2>6. CASE UnlockListA(w)
    <3>1. uf'[u.al].list_status = LIVE /\ pc[w] = "unlock_a" /\ pc'[w] # "unlock_uf"
      BY <1>1, <1>2, <2>6 DEF UnlockListA, UnlockListB, Unlocked, Entry
    <3>. QED
      BY <2>2, <2>4, <2>6, <3>1 DEF HoldsList, UnlockListA, LockListB, LIVE, LOCK
  <2>7. CASE UnlockListB(w)
    <3>1. uf'[u.bl].list_status = LIVE /\ pc[w] = "unlock_b"
      BY <1>1, <2>7 DEF UnlockListB, Unlocked, Entry
    <3>. QED
      BY <2>4, <3>1 DEF HoldsList, LIVE, LOCK
  <2>8. CASE ~UnlockListA(w) /\ ~UnlockListB(w)
    BY <1>2, <2>2, <2>4, <2>5, <2>8 DEF HoldsList
  <2>. QED
    BY <2>6, <2>7, <2>8
<1>. QED
  BY <1>3, <1>4, <1>5, <1>6 DEF UniteSteps

\* A lock that is new is held by the worker that took it.
LEMMA TakesHeld ==
  ASSUME NEW callers, SetsInv(callers), NEW w \in Worker, UFStep(w), NEW n \in Node
  PROVE  /\ uf'[n].uf_status = LOCK => uf[n].uf_status = LOCK \/ n \in HoldsUf(w)'
         /\ uf'[n].list_status = LOCK => uf[n].list_status = LOCK \/ n \in HoldsList(w)'
<1>1. /\ Typed(callers) /\ uf \in [Slot -> Entry] /\ loc \in [Worker -> Locals] /\ loc[w] \in Locals /\ loc[w].unite \in Unites
      /\ pc \in [Worker -> Labels \cup callers]
      /\ n \in Slot /\ n # 0 /\ ret[w].node \in Slot
      /\ loc[w].unite.q \in Slot /\ loc[w].unite.al \in Slot /\ loc[w].unite.bl \in Slot
  BY LocalsTyped, UFConstants DEF SetsInv, Typed, UfTyped, LocTyped, ControlTyped, Node, Slot
<1>2. ASSUME uf'[n].uf_status = LOCK, uf[n].uf_status # LOCK PROVE n \in HoldsUf(w)'
  <2>1. LockUf(w) \/ LockUfUndo(w) \/ UnlockUf(w) \/ MarkDead(w)
    BY <1>1, <1>2, UFStepEntries
  <2>2. ASSUME NEW x, NEW s \in {LIVE, DEAD}, uf' = [uf EXCEPT ![x].uf_status = s] PROVE FALSE
    BY <1>1, <1>2, <2>2 DEF Entry, LIVE, DEAD, LOCK
  <2>3. uf' # uf
    BY <1>2
  <2>4. LockUf(w)
    BY <2>1, <2>2, <2>3 DEF LockUfUndo, UnlockUf, MarkDead
  <2>5. uf' = [uf EXCEPT ![loc[w].unite.q].uf_status = LOCK] /\ pc'[w] = "lock_uf_check" /\ loc' = loc
    BY <1>1, <2>3, <2>4 DEF LockUf, Goto
  <2>6. n = loc[w].unite.q
    BY <1>1, <1>2, <2>5 DEF Entry
  <2>. QED
    BY <1>1, <2>5, <2>6 DEF HoldsUf
<1>3. ASSUME uf'[n].list_status = LOCK, uf[n].list_status # LOCK PROVE n \in HoldsList(w)'
  <2>1. Remove(w) \/ LockListA(w) \/ LockListB(w) \/ UnlockListA(w) \/ UnlockListB(w)
    BY <1>1, <1>3, UFStepNexts
  <2>2. ASSUME NEW x, NEW s \in {LIVE, TOMB}, uf' = [uf EXCEPT ![x].list_status = s] PROVE FALSE
    BY <1>1, <1>3, <2>2 DEF Entry, LIVE, TOMB, LOCK
  <2>3. uf' # uf
    BY <1>3
  <2>4. LockListA(w) \/ LockListB(w)
    BY <2>1, <2>2, <2>3 DEF Remove, UnlockListA, UnlockListB, Unlocked
  <2>5. CASE LockListA(w)
    <3>1. /\ uf' = [uf EXCEPT ![ret[w].node].list_status = LOCK]
          /\ loc' = [loc EXCEPT ![w] = [@ EXCEPT !.unite.al = ret[w].node, !.pick.a = loc[w].unite.b]]
          /\ pc' = [pc EXCEPT ![w] = "pick_a"]
      BY <2>3, <2>5 DEF LockListA, Call
    <3>2. n = ret[w].node
      BY <1>1, <1>3, <3>1 DEF Entry
    <3>3. pc'[w] = "pick_a" /\ loc'[w].unite.al = ret[w].node
      BY <1>1, <3>1 DEF Locals, Unites
    <3>. QED
      BY <1>1, <3>2, <3>3 DEF HoldsList
  <2>6. CASE LockListB(w)
    <3>1. pc[w] = "list_b" /\ uf' # uf
      BY <2>3, <2>6 DEF LockListB
    <3>2. ~Completed(w)
      BY <2>2, <2>6, <3>1 DEF LockListB, Completed, Locks, PickAgain
    <3>3. /\ uf' = [uf EXCEPT ![ret[w].node].list_status = LOCK]
          /\ loc' = [loc EXCEPT ![w].unite.bl = ret[w].node]
          /\ pc' = [pc EXCEPT ![w] = "swap"]
      BY <2>6, <3>1, <3>2 DEF LockListB, Resume
    <3>4. n = ret[w].node
      BY <1>1, <1>3, <3>3 DEF Entry
    <3>5. pc'[w] = "swap" /\ loc'[w].unite.bl = ret[w].node
      BY <1>1, <3>3 DEF Locals, Unites
    <3>. QED
      BY <1>1, <3>4, <3>5 DEF HoldsList
  <2>. QED
    BY <2>4, <2>5, <2>6
<1>. QED
  BY <1>2, <1>3

\* A worker at rest keeps what it holds.
LEMMA OthersHeld ==
  ASSUME NEW x \in Worker, pc'[x] = pc[x], stack'[x] = stack[x], loc'[x] = loc[x]
  PROVE  HoldsUf(x)' = HoldsUf(x) /\ HoldsList(x)' = HoldsList(x) /\ (HeldWhen(x) => HeldWhen(x)')
BY DEF HoldsUf, HoldsList, HeldWhen, Region, Awaits

\* Every step of the union-find leaves each lock with a holder.
LEMMA UFStepLocks ==
  ASSUME NEW callers, SetsInv(callers), LocksHeld, NEW w \in Worker, UFStep(w), Finds(w)
  PROVE  LocksHeld'
<1>1. Typed(callers) /\ Alone(w)
  BY UFStepAlone DEF SetsInv
<1>2. \A x \in Worker \ {w} : pc'[x] = pc[x] /\ stack'[x] = stack[x] /\ loc'[x] = loc[x]
  BY <1>1 DEF Alone, OthersKept
<1>3. HeldWhen(w)
  BY DEF LocksHeld
<1>4. ASSUME NEW x \in Worker PROVE HeldWhen(x)'
  <2>1. CASE x # w
    BY <1>2, <2>1, OthersHeld DEF LocksHeld
  <2>2. CASE x = w
    <3>1. CASE UniteSteps(w)
      BY <1>3, <2>2, <3>1, UniteHeldBefore, UniteHeldAfter DEF UniteSteps
    <3>2. CASE FindRead(w) \/ FindCompress(w)
      BY <1>3, <2>2, <3>2, FindHeld
    <3>3. CASE PickA(w) \/ PickNext(w) \/ PickB(w) \/ PickC(w) \/ PickCompare(w) \/ PickWrite(w) \/ MarkDead(w)
      BY <1>3, <2>2, <3>3, PickHeld
    <3>4. CASE /\ ~UniteSteps(w)
               /\ \/ ClaimDead(w) \/ ClaimFound(w) \/ ClaimOr(w) \/ ClaimCheck(w)
                  \/ SameB(w) \/ SameA(w) \/ SameRetry(w) \/ Remove(w) \/ RemoveColor(w)
      <4>1. pc[w] \in {"claim_dead", "claim_found", "claim_or", "claim_again", "claim_check", "same_b", "same_a", "same_retry",
                       "remove", "remove_color"}
        BY <3>4 DEF ClaimDead, ClaimFound, ClaimOr, ClaimCheck, SameB, SameA, SameRetry, Remove, RemoveColor
      <4>2. \A l : ~Awaits(w, l)
        <5>1. pc[w] \in (Labels \cup callers) \ (FindLabels \cup PickLabels) /\ Outside(callers) /\ InCall(w, callers)
          BY <4>1 DEF Labels, FindLabels, PickLabels, SetsInv, Knows
        <5>. QED
          BY <5>1, AwaitsNone
      <4>3. ~Region(w)
        BY <4>1, <4>2 DEF Region, RegionLabels
      <4>4. loc'[w].unite = loc[w].unite
        BY <1>1, <3>4, UniteRests
      <4>5. loc[w].unite.q = 0 /\ loc[w].unite.al = 0 /\ loc[w].unite.bl = 0
        BY <1>3, <4>3, NoneHeld
      <4>. QED
        BY <2>2, <4>4, <4>5 DEF HeldWhen
    <3>. QED
      BY <3>1, <3>2, <3>3, <3>4 DEF UFStep, UniteSteps
  <2>. QED
    BY <2>1, <2>2
<1>5. ASSUME NEW n \in Node, NEW x \in Worker
      PROVE  /\ n \in HoldsUf(x) => n \in HoldsUf(x)' \/ uf'[n].uf_status # LOCK
             /\ n \in HoldsList(x) => n \in HoldsList(x)' \/ uf'[n].list_status # LOCK
  <2>1. CASE x # w
    BY <1>2, <2>1, OthersHeld
  <2>2. CASE x = w
    BY <1>3, <2>2, HoldsOrFrees
  <2>. QED
    BY <2>1, <2>2
<1>6. AllHeld'
  <2>1. ASSUME NEW n \in Node, uf'[n].uf_status = LOCK PROVE \E x \in Worker : n \in HoldsUf(x)'
    <3>1. CASE uf[n].uf_status = LOCK
      <4>1. PICK x \in Worker : n \in HoldsUf(x)
        BY <3>1 DEF LocksHeld, AllHeld
      <4>. QED
        BY <1>5, <2>1, <4>1
    <3>. QED
      BY <2>1, <3>1, TakesHeld
  <2>2. ASSUME NEW n \in Node, uf'[n].list_status = LOCK PROVE \E x \in Worker : n \in HoldsList(x)'
    <3>1. CASE uf[n].list_status = LOCK
      <4>1. PICK x \in Worker : n \in HoldsList(x)
        BY <3>1 DEF LocksHeld, AllHeld
      <4>. QED
        BY <1>5, <2>2, <4>1
    <3>. QED
      BY <2>2, <3>1, TakesHeld
  <2>. QED
    BY <2>1, <2>2 DEF AllHeld
<1>. QED
  BY <1>4, <1>6 DEF LocksHeld

\* A step of the callers takes and leaves no lock.
LEMMA CallerLocks ==
  ASSUME NEW callers, SetsInv(callers), LocksHeld, NEW w \in Worker, CallerStep(w, callers)
  PROVE  LocksHeld'
<1>1. Typed(callers) /\ Outside(callers) /\ InCall(w, callers) /\ pc[w] \in callers /\ uf' = uf
  BY DEF SetsInv, Knows, CallerStep
<1>2. stack[w] = <<>> /\ Alone(w)
  BY <1>1, CallerMoves
<1>3. \A x \in Worker \ {w} : pc'[x] = pc[x] /\ stack'[x] = stack[x] /\ loc'[x] = loc[x]
  BY <1>2 DEF Alone, OthersKept
<1>4. ~Region(w)
  <2>1. pc[w] \notin RegionLabels
    BY <1>1 DEF Outside, RegionLabels, Labels
  <2>2. Len(stack[w]) = 0
    BY <1>2
  <2>. QED
    BY <2>1, <2>2 DEF Region, Awaits
<1>5. loc[w].unite.q = 0 /\ loc[w].unite.al = 0 /\ loc[w].unite.bl = 0
  BY <1>4, NoneHeld DEF LocksHeld
<1>6. UniteKept(w)
  BY <1>1, CallerQuiet DEF Quiet
<1>7. loc'[w].unite.q = 0 /\ loc'[w].unite.al = 0 /\ loc'[w].unite.bl = 0
  BY <1>5, <1>6 DEF UniteKept
<1>8. HeldWhen(w)'
  BY <1>7 DEF HeldWhen
<1>9. \A n \in Node : n \notin HoldsUf(w) /\ n \notin HoldsList(w)
  BY <1>5, UFConstants DEF HoldsUf, HoldsList, Node
<1>10. \A x \in Worker \ {w} : HoldsUf(x)' = HoldsUf(x) /\ HoldsList(x)' = HoldsList(x) /\ HeldWhen(x)'
  BY <1>3, OthersHeld DEF LocksHeld
<1>11. AllHeld'
  BY <1>1, <1>9, <1>10 DEF LocksHeld, AllHeld
<1>. QED
  BY <1>8, <1>10, <1>11 DEF LocksHeld

\* A step that leaves the union-find alone leaves the locks.
LEMMA StutterLocks ==
  ASSUME LocksHeld, UNCHANGED <<uf, pc, stack, loc>>
  PROVE  LocksHeld'
<1>1. \A x \in Worker : HoldsUf(x)' = HoldsUf(x) /\ HoldsList(x)' = HoldsList(x) /\ HeldWhen(x)'
  BY OthersHeld DEF LocksHeld
<1>. QED
  BY <1>1 DEF LocksHeld, AllHeld

\* At the start nothing is locked.
LEMMA InitLocks ==
  ASSUME Init
  PROVE  LocksHeld
<1>1. /\ \A n \in Node : uf[n].uf_status = LIVE /\ uf[n].list_status = LIVE
      /\ \A w \in Worker : loc[w].unite.q = 0 /\ loc[w].unite.al = 0 /\ loc[w].unite.bl = 0
  BY UFConstants DEF Init, UFInit, uf_node, NoUnite, Node, Slot
<1>. QED
  BY <1>1 DEF LocksHeld, AllHeld, HeldWhen, LIVE, LOCK

\* In the search lock_list never meets a completed set: the states that unite was
\* given are on a cycle through the set of a state that is not explored.
LEMMA SearchFinds ==
  ASSUME Search, NEW w \in Worker
  PROVE  Finds(w)
<1>1. ASSUME pc[w] \in ListLabels PROVE Busy(w)
  BY <1>1 DEF Busy, Region, ListLabels, RegionLabels
<1>. QED
  BY <1>1, SearchBase, BusyRuns DEF UniteKnown, Finds, Completed

\* Every locked entry has its holder after every step.
LEMMA NextLocks ==
  ASSUME Search, LocksHeld, [Next]_vars
  PROVE  LocksHeld'
<1>1. Types /\ SetsInv(Callers)
  BY SearchBase
<1>2. ASSUME NEW t \in Worker, Recurse(t) \/ NextState(t) \/ Start(t) \/ Join(t) PROVE LocksHeld'
  BY <1>1, <1>2, RecurseCalls, CallerLocks
<1>3. ASSUME Report PROVE LocksHeld'
  <2>1. 0 \in Worker /\ CallerStep(0, Callers)
    BY <1>1, <1>3, ReportCalls
  <2>. QED
    BY <1>1, <2>1, CallerLocks
<1>4. ASSUME NEW t \in Worker, Step(t) PROVE LocksHeld'
  BY <1>1, <1>2, <1>4, SearchFinds, UFStepLocks DEF Step
<1>5. ASSUME UNCHANGED vars PROVE LocksHeld'
  BY <1>5, StutterLocks DEF vars, ufVars, control
<1>. QED
  BY <1>3, <1>4, <1>5 DEF Next, Terminated

\* Search and LocksHeld together imply LocksOwned.
LEMMA OwnedLocks ==
  ASSUME Search, LocksHeld
  PROVE  LocksOwned
<1>1. SetsInv(Callers) /\ HomeInv /\ Locked
  BY SearchBase DEF SetsInv
<1>2. ASSUME NEW n \in Node
      PROVE  /\ uf[n].uf_status = LOCK <=> \E w \in Worker : n \in HoldsUf(w)
             /\ uf[n].list_status = LOCK <=> \E w \in Worker : n \in HoldsList(w)
             /\ \A w, x \in Worker : w # x => /\ n \notin HoldsUf(w) \cap HoldsUf(x)
                                             /\ n \notin HoldsList(w) \cap HoldsList(x)
  BY <1>1 DEF LocksHeld, AllHeld, Locked
<1>3. ASSUME NEW w \in Worker
      PROVE  /\ pc[w] \in {"pick_next", "pick_compare", "pick_write"} => uf[loc[w].pick.a].list_status = TOMB
             /\ pc[w] \in {"pick_c", "pick_compare", "pick_write"} => uf[loc[w].pick.b].list_status = TOMB
             /\ pc[w] = "swap" => loc[w].unite.al # loc[w].unite.bl
  <2>1. PickHome(w)
    BY <1>1 DEF HomeInv
  <2>2. pc[w] \in {"pick_next", "pick_compare", "pick_write"} => Explored(loc[w].pick.a)
    BY <2>1 DEF PickHome, Picking, PickLabels
  <2>3. pc[w] \in {"pick_c", "pick_compare", "pick_write"} => Explored(loc[w].pick.b)
    BY <2>1 DEF PickHome, PickBLabels
  <2>4. pc[w] = "swap" => loc[w].unite.al # loc[w].unite.bl
    BY <1>1, <2>1 DEF PickHome, Locked
  <2>. QED
    BY <2>2, <2>3, <2>4 DEF Explored
<1>. QED
  BY <1>2, <1>3 DEF LocksOwned

\* UF_LOCK and LIST_LOCK are owned: an entry is locked exactly while one unite
\* holds it, so no lock stays without an owner although unite returns from a
\* failed lock_list without unlock_uf (lines 327, 331), and no unlock, a plain
\* store, opens the lock of another.
THEOREM LocksAreOwned == NWorkers <= WordBits => (Spec => []LocksOwned)
<1> SUFFICES ASSUME NWorkers <= WordBits PROVE Spec => []LocksOwned
  OBVIOUS
<1>1. Spec => []Search
  BY SearchHolds
<1>2. Init => LocksHeld
  BY InitLocks
<1>3. Search /\ LocksHeld /\ [Next]_vars => LocksHeld'
  BY NextLocks
<1>4. Search /\ LocksHeld => LocksOwned
  BY OwnedLocks
<1>. QED
  BY <1>1, <1>2, <1>3, <1>4, PTL DEF Spec

(* The entries that a reader meets on a list, the first from n *)
Entries(f, n) == f[0] = n /\ \A j \in 1 .. N : f[j] = NextOrSelf(f[j - 1])

\* The first N steps along a list from any slot make a function.
LEMMA EntriesExist ==
  ASSUME \A m \in Slot : NextOrSelf(m) \in Slot, NEW n \in Slot
  PROVE  \E f \in [0 .. N -> Slot] : Entries(f, n)
<1> DEFINE Upto(m, f) == f[0] = n /\ \A j \in 1 .. m : f[j] = NextOrSelf(f[j - 1])
           T == {m \in 0 .. N : ~ \E f \in [0 .. N -> Slot] : Upto(m, f)}
<1>1. N \in Nat
  BY UFConstants
<1>2. SUFFICES ASSUME T # {} PROVE FALSE
  BY <1>1 DEF Entries
<1>3. T \subseteq Nat
  OBVIOUS
<1>4. PICK m \in T : \A k \in T : m <= k
  BY <1>2, <1>3, LeastNumber
<1>5. m # 0
  <2>1. [j \in 0 .. N |-> n] \in [0 .. N -> Slot] /\ Upto(0, [j \in 0 .. N |-> n])
    BY <1>1
  <2>. QED
    BY <2>1
<1>6. m - 1 \in 0 .. N /\ m - 1 \notin T /\ m \in 0 .. N /\ m >= 1
  <2>1. m \in 0 .. N
    BY <1>4
  <2>2. m \in Nat /\ m - 1 \in 0 .. N /\ ~(m <= m - 1)
    BY <1>1, <1>5, <2>1
  <2>3. m - 1 \notin T
    BY <1>4, <2>2, Zenon
  <2>. QED
    BY <2>1, <2>2, <2>3
<1>7. PICK f \in [0 .. N -> Slot] : Upto(m - 1, f)
  BY <1>6
<1> DEFINE g == [f EXCEPT ![m] = NextOrSelf(f[m - 1])]
<1>8. g \in [0 .. N -> Slot]
  BY <1>6
<1>9. Upto(m, g)
  <2>1. g[0] = n
    BY <1>6, <1>7
  <2>2. ASSUME NEW j \in 1 .. m PROVE g[j] = NextOrSelf(g[j - 1])
    <3>1. j - 1 \in 0 .. N /\ j \in 0 .. N /\ j - 1 # m
      BY <1>1, <1>6
    <3>2. g[j - 1] = f[j - 1]
      BY <3>1
    <3>3. CASE j = m
      BY <3>1, <3>2, <3>3
    <3>4. CASE j # m
      BY <1>6, <1>7, <3>1, <3>2, <3>4
    <3>. QED
      BY <3>3, <3>4
  <2>. QED
    BY <2>1, <2>2
<1>. QED
  BY <1>8, <1>9

\* ListFrom is the range of that function.
LEMMA EntriesOf ==
  ASSUME \A m \in Slot : NextOrSelf(m) \in Slot, NEW n \in Slot
  PROVE  \E f \in [0 .. N -> Slot] : Entries(f, n) /\ ListFrom(n) = {f[j] : j \in 0 .. N}
<1> DEFINE E(f) == [j \in 0 .. N |-> IF j = 0 THEN n ELSE NextOrSelf(f[j - 1])]
           e == CHOOSE f : f = E(f)
<1>1. ListFrom(n) = {e[j] : j \in 0 .. N}
  BY DEF ListFrom, NextOrSelf
<1>2. N \in Nat
  BY UFConstants
<1>3. PICK f \in [0 .. N -> Slot] : Entries(f, n)
  BY EntriesExist
<1>4. f = E(f)
  BY <1>2, <1>3 DEF Entries
<1>5. e = E(e)
  BY <1>4
<1> HIDE DEF e
<1>6. Entries(e, n)
  <2>1. \A j \in 0 .. N : e[j] = IF j = 0 THEN n ELSE NextOrSelf(e[j - 1])
    BY <1>5, Zenon
  <2>. QED
    BY <1>2, <2>1 DEF Entries
<1>7. \A j \in 0 .. N : e[j] \in Slot
  <2> DEFINE T == {j \in 0 .. N : e[j] \notin Slot}
  <2>1. SUFFICES ASSUME T # {} PROVE FALSE
    OBVIOUS
  <2>2. T \subseteq Nat
    OBVIOUS
  <2>3. PICK m \in T : \A k \in T : m <= k
    BY <2>1, <2>2, LeastNumber
  <2>4. m # 0
    BY <1>6 DEF Entries
  <2>5. m \in 1 .. N /\ m - 1 \in 0 .. N /\ m - 1 \notin T
    BY <1>2, <2>3, <2>4
  <2>6. e[m - 1] \in Slot /\ e[m] = NextOrSelf(e[m - 1])
    BY <1>6, <2>5 DEF Entries
  <2>. QED
    BY <2>6
<1>8. e \in [0 .. N -> Slot]
  BY <1>5, <1>7
<1>. QED
  BY <1>1, <1>6, <1>8

\* N steps along a list close it: among N + 1 entries of N nodes two are equal,
\* and from there the list repeats.
LEMMA EntriesClosed ==
  ASSUME NEW f \in [0 .. N -> Node], NEW n \in Node, Entries(f, n)
  PROVE  \A x \in {f[j] : j \in 0 .. N} : NextOrSelf(x) \in {f[j] : j \in 0 .. N}
<1> DEFINE T == {f[j] : j \in 0 .. N}
<1>1. N \in Nat
  BY UFConstants
<1>2. IsFiniteSet(0 .. N) /\ Cardinality(0 .. N) = N + 1
  BY <1>1, FS_Interval
<1>3. IsFiniteSet(Node) /\ Cardinality(Node) = N
  BY <1>1, FS_Interval DEF Node
<1>4. \E i, j \in 0 .. N : i # j /\ f[i] = f[j]
  BY <1>1, <1>2, <1>3, FS_PigeonHole
<1>5. PICK i, j \in 0 .. N : i < j /\ f[i] = f[j]
  BY <1>4
<1>6. \A d \in 0 .. N - j : f[i + d] = f[j + d]
  <2> DEFINE D == {d \in 0 .. N - j : f[i + d] # f[j + d]}
  <2>1. SUFFICES ASSUME D # {} PROVE FALSE
    OBVIOUS
  <2>2. D \subseteq Nat
    OBVIOUS
  <2>3. PICK m \in D : \A k \in D : m <= k
    BY <2>1, <2>2, LeastNumber
  <2>4. m # 0
    BY <1>1, <1>5
  <2>5. m - 1 \in 0 .. N - j /\ m - 1 \notin D
    <3>1. m \in 0 .. N - j
      BY <2>3
    <3>2. m \in Nat /\ m - 1 \in 0 .. N - j /\ ~(m <= m - 1)
      BY <1>1, <2>4, <3>1
    <3>. QED
      BY <2>3, <3>2, Zenon
  <2>6. f[i + (m - 1)] = f[j + (m - 1)]
    BY <2>5
  <2>7. i + m \in 1 .. N /\ j + m \in 1 .. N /\ (i + m) - 1 = i + (m - 1) /\ (j + m) - 1 = j + (m - 1)
    BY <1>1, <1>5, <2>4
  <2>8. f[i + m] = NextOrSelf(f[(i + m) - 1]) /\ f[j + m] = NextOrSelf(f[(j + m) - 1])
    BY <2>7 DEF Entries
  <2>. QED
    BY <2>6, <2>7, <2>8
<1>7. ASSUME NEW k \in 0 .. N PROVE NextOrSelf(f[k]) \in T
  <2>1. CASE k < N
    <3>1. k + 1 \in 1 .. N /\ k + 1 \in 0 .. N /\ (k + 1) - 1 = k
      BY <1>1, <2>1
    <3>2. f[k + 1] = NextOrSelf(f[k])
      BY <3>1 DEF Entries
    <3>. QED
      BY <3>1, <3>2
  <2>2. CASE k = N
    <3>1. N - j \in 0 .. N - j /\ j + (N - j) = N
      BY <1>1
    <3>2. f[i + (N - j)] = f[N]
      BY <1>6, <3>1
    <3> DEFINE h == i + (N - j)
    <3>3. h + 1 \in 1 .. N /\ h + 1 \in 0 .. N /\ (h + 1) - 1 = h
      BY <1>1, <1>5
    <3>4. f[h + 1] = NextOrSelf(f[h])
      BY <3>3 DEF Entries
    <3>. QED
      BY <2>2, <3>2, <3>3, <3>4
  <2>. QED
    BY <1>1, <2>1, <2>2
<1>. QED
  BY <1>7

\* While no entry of its set is locked, list_next leads from a state to one of
\* its own set.
LEMMA ListStays ==
  ASSUME Search, NEW n \in Node,
         \A m \in Node : Root[m] = Root[n] => uf[m].list_status # LOCK,
         NEW m \in Node, Root[m] = Root[n]
  PROVE  NextOrSelf(m) \in Node /\ Root[NextOrSelf(m)] = Root[n]
<1>1. SetsInv(Callers) /\ uf[0] = uf_node /\ UfTyped /\ ListsHome /\ Locked
  BY SearchBase DEF HomeInv, SetsInv
<1>2. m \in Slot /\ uf[m].list_status # LOCK
  BY SlotZero DEF Node, Slot
<1>3. NextOrSelf(m) \in Slot
  BY <1>1, <1>2 DEF NextOrSelf, UfTyped, Entry
<1>4. ~Crossing(m)
  <2>1. SUFFICES ASSUME NEW w \in Worker, Pending(w), m \in {loc[w].unite.al, loc[w].unite.bl} PROVE FALSE
    BY DEF Crossing
  <2>2. m # 0
    BY UFConstants DEF Node
  <2>3. m \in HoldsList(w)
    BY <2>1, <2>2 DEF HoldsList, Pending
  <2>. QED
    BY <1>1, <1>2, <2>3 DEF Locked
<1>5. Root[NextOrSelf(m)] = Root[m]
  BY <1>1, <1>2, <1>4 DEF ListsHome
<1>. QED
  BY <1>1, <1>3, <1>5, NodeClass

\* The list from a state stays in its set and has the successor of each of its
\* members.
LEMMA ListInside ==
  ASSUME Search, NEW n \in Node,
         \A m \in Node : Root[m] = Root[n] => uf[m].list_status # LOCK
  PROVE  /\ \A x \in ListFrom(n) : x \in Node /\ Root[x] = Root[n] /\ NextOrSelf(x) \in ListFrom(n)
         /\ n \in ListFrom(n)
<1>1. UfTyped
  BY SearchBase
<1>2. \A m \in Slot : NextOrSelf(m) \in Slot
  BY <1>1 DEF NextOrSelf, UfTyped, Entry
<1>3. n \in Slot /\ N \in Nat
  BY UFConstants, SlotZero DEF Node, Slot
<1>4. PICK f \in [0 .. N -> Slot] : Entries(f, n) /\ ListFrom(n) = {f[j] : j \in 0 .. N}
  BY <1>2, <1>3, EntriesOf
<1>5. \A j \in 0 .. N : f[j] \in Node /\ Root[f[j]] = Root[n]
  <2> DEFINE T == {j \in 0 .. N : ~(f[j] \in Node /\ Root[f[j]] = Root[n])}
  <2>1. SUFFICES ASSUME T # {} PROVE FALSE
    OBVIOUS
  <2>2. T \subseteq Nat
    OBVIOUS
  <2>3. PICK m \in T : \A k \in T : m <= k
    BY <2>1, <2>2, LeastNumber
  <2>4. m # 0
    BY <1>4 DEF Entries
  <2>5. m \in 1 .. N /\ m - 1 \in 0 .. N /\ m - 1 \notin T
    <3>1. m \in 0 .. N
      BY <2>3
    <3>2. m \in 1 .. N /\ m - 1 \in 0 .. N /\ ~(m <= m - 1)
      BY <1>3, <2>4, <3>1
    <3>. QED
      BY <2>3, <3>2, Zenon
  <2>6. f[m] = NextOrSelf(f[m - 1])
    BY <1>4, <2>5 DEF Entries
  <2>7. PICK x \in Node : x = f[m - 1] /\ Root[x] = Root[n]
    BY <2>5
  <2>8. NextOrSelf(x) \in Node /\ Root[NextOrSelf(x)] = Root[n]
    BY <2>7, ListStays
  <2>. QED
    BY <2>3, <2>6, <2>7, <2>8
<1>6. f \in [0 .. N -> Node]
  BY <1>4, <1>5
<1>7. \A x \in {f[j] : j \in 0 .. N} : NextOrSelf(x) \in {f[j] : j \in 0 .. N}
  BY <1>4, <1>6, EntriesClosed
<1>8. n = f[0] /\ 0 \in 0 .. N
  BY <1>3, <1>4 DEF Entries
<1>. QED
  BY <1>4, <1>5, <1>7, <1>8

\* A part of a set that list_next does not leave has every unexplored state of
\* the set.
LEMMA ListPasses ==
  ASSUME Search, NEW n \in Node, NEW T \in SUBSET Node, n \in T,
         \A x \in T : Root[x] = Root[n] /\ NextOrSelf(x) \in T,
         NEW m \in Node, Root[m] = Root[n]
  PROVE  m \in T \/ Explored(m)
<1>1. PICK s, c : Lists(s, c)
  BY SearchBase DEF ListInv
<1>2. Cycles(s, c) /\ Names(c) /\ Nexts(s, c)
  BY <1>1 DEF Lists
<1>3. s \in [Slot -> Slot] /\ c \in [Slot -> Slot] /\ Passes(s, c) /\ \A k \in Slot : c[s[k]] = c[k]
  BY <1>2 DEF Cycles
<1>4. Node \subseteq Slot
  BY SlotZero DEF Node, Slot
<1>5. \A k \in Slot : Root[k] = Root[n] => c[k] = c[n]
  BY <1>2, <1>4 DEF Names
<1> DEFINE S == {k \in Slot : k \in T \/ (Explored(k) /\ \E x \in T : Skips(s, c, k, x))}
<1>6. S \in SUBSET Slot /\ n \in S
  BY <1>4
<1>7. ASSUME NEW k \in S, c[k] = c[n] PROVE s[k] \in S
  <2>0. k \in Slot /\ s[k] \in Slot
    BY <1>3
  <2>1. ASSUME NEW x \in T, Explored(k), Skips(s, c, k, x) PROVE s[k] \in S
    <3>1. PICK Q \in SUBSET Slot : k \in Q /\ \A j \in Q : Explored(j) /\ (s[j] \in Q \/ s[j] = x)
      BY <2>1 DEF Skips
    <3>2. CASE s[k] = x
      BY <1>4, <3>2
    <3>3. CASE s[k] \in Q
      <4>1. c[x] = c[s[k]]
        BY <1>3, <2>0, <2>1 DEF Skips
      <4>2. Skips(s, c, s[k], x)
        BY <3>1, <3>3, <4>1 DEF Skips
      <4>. QED
        BY <2>0, <3>1, <3>3, <4>2
    <3>. QED
      BY <3>1, <3>2, <3>3
  <2>2. CASE k \in T /\ ~Explored(k)
    <3>1. s[k] = NextOrSelf(k)
      BY <1>2, <2>0, <2>2 DEF Nexts
    <3>. QED
      BY <2>0, <2>2, <3>1
  <2>3. CASE k \in T /\ Explored(k)
    <3>1. Skips(s, c, k, NextOrSelf(k))
      BY <1>2, <2>0, <2>3 DEF Nexts
    <3>. QED
      BY <2>1, <2>3, <3>1
  <2>. QED
    BY <2>1, <2>2, <2>3
<1>8. m \in Slot /\ c[m] = c[n]
  BY <1>4, <1>5
<1> HIDE DEF S
<1>9. m \in S
  BY <1>3, <1>6, <1>7, <1>8, PassesInside
<1>. QED
  BY <1>9 DEF S

\* Every unexplored state of a set is on the list from each of its members.
LEMMA SearchLists ==
  ASSUME Search
  PROVE  ListCovers
<1>1. \A n \in Node : Parts[n] = {m \in Node : Root[m] = Root[n]}
  BY PartsAre
<1>2. ASSUME NEW n \in Node, \A m \in Parts[n] : uf[m].list_status # LOCK
      PROVE  ListFrom(n) \subseteq Parts[n] /\ {m \in Parts[n] : uf[m].list_status = LIVE} \subseteq ListFrom(n)
  <2>1. /\ \A x \in ListFrom(n) : x \in Node /\ Root[x] = Root[n] /\ NextOrSelf(x) \in ListFrom(n)
        /\ n \in ListFrom(n)
    BY <1>1, <1>2, ListInside
  <2>2. ASSUME NEW m \in Node, Root[m] = Root[n], uf[m].list_status = LIVE PROVE m \in ListFrom(n)
    <3>1. ListFrom(n) \in SUBSET Node
      BY <2>1
    <3>2. ~Explored(m)
      BY <2>2 DEF Explored, LIVE, TOMB
    <3>. QED
      BY <2>1, <2>2, <3>1, <3>2, ListPasses
  <2>. QED
    BY <1>1, <2>1, <2>2
<1>. QED
  BY <1>2 DEF ListCovers

\* The list of a set in which no entry is locked stays inside the set and passes
\* every state of it that is not explored (lines 129, 182), whoever shortens it.
THEOREM ListsCover == NWorkers <= WordBits => (Spec => []ListCovers)
BY SearchHolds, SearchLists, PTL

(* What the search leaves behind.  A state is taken once a worker's bit is in
   its set, or its set is completed.  The bit of a worker without roots can only be
   in a completed set (BitsHome), so that after the barrier of line 701, when no
   worker has roots, every taken state is completed; and every state has been
   taken, if not by the worker that found it in its chunk then by the one that
   coloured it (line 199). *)
Collecting == {"collect", "collected", "end"}
Taken(n)   == Dead(n) \/ \E t \in Worker : Visited(t, n)
Past(t) ==
  /\ Home(t) = "start" => tls[t].v = tls[t].i /\ tls[t].i < ChunkFirst(t + 1)
  /\ Home(t) \in Searching =>
       /\ Trail(t)[1] = tls[t].i /\ tls[t].i < ChunkFirst(t + 1)
       /\ \A i \in 1 .. Depth(t) : Taken(Trail(t)[i])
  /\ Home(t) = "next" => tls[t].i <= ChunkFirst(t + 1)
  /\ Home(t) \in {"join", "done"} => tls[t].i = ChunkFirst(t + 1)
  /\ Home(t) \notin Collecting => \A n \in Node : ChunkFirst(t) <= n /\ n < tls[t].i => Taken(n)
  /\ Claiming(t) => Taken(Target(t))
  /\ pc[t] \in RemoveLabels => Taken(loc[t].pick.a)
Colored == \A n \in Node : G_Color[n] = -2 => Taken(n)
Collects ==
  Home(0) \in Collecting =>
    /\ \A t \in Worker \ {0} : pc[t] = "done"
    /\ \A n \in Node : Taken(n)
    /\ \A n \in Node : n < tls[0].i => G_SCC[n] = Root[n]
    /\ pc[0] = "end" => tls[0].i > N
    /\ Home(0) = "collected" /\ pc[0] \in {"compress", "collected"} => uf[ret[0].node].parent = 0
Ends == Colored /\ Collects /\ \A t \in Worker : Past(t)

\* A step of the union-find that makes sets grow keeps what was taken.
LEMMA TakenGrows ==
  ASSUME Grows, NEW n \in Node, Taken(n)
  PROVE  Taken(n)'
<1>1. CASE Dead(n)
  BY <1>1 DEF Grows, Taken
<1>2. ASSUME NEW t \in Worker, Visited(t, n) PROVE Visited(t, n)'
  <2>1. PICK m \in Node : Root[m] = Root[n] /\ w_id(t) \subseteq uf[m].workers
    BY <1>2 DEF Visited
  <2>2. m \in Slot /\ n \in Slot /\ w_id(t)' = w_id(t)
    BY DEF Node, Slot, w_id
  <2>3. Root'[m] = Root'[n] /\ w_id(t)' \subseteq uf'[m].workers
    BY <2>1, <2>2 DEF Grows, Coarser
  <2>. QED
    BY <2>3 DEF Visited
<1>. QED
  BY <1>1, <1>2 DEF Taken

\* One state of a set is taken if another is.
LEMMA TakenOf ==
  ASSUME NEW m, NEW n, Root[m] = Root[n], Taken(m)
  PROVE  Taken(n)
BY DEF Taken, Dead, Visited

\* Only claim_or makes a worker a claimer.
LEMMA ClaimingFrom ==
  ASSUME Search, NEW w \in Worker, UFStep(w), UNCHANGED <<G, tls>>, Claiming(w)'
  PROVE  Claiming(w) \/ ClaimOr(w)
<1>1. /\ Home(w)' = Home(w) /\ pc[w] \in Labels /\ pc[w] # Home(w)
      /\ InCall(w, Callers)' /\ Home(w) \in Callers
  BY OwnHome, HomeCalls, SearchBase
<1>2. Home(w) \in ClaimHomes /\ Calls(w) /\ SetsInv(Callers)
  BY <1>1, SearchBase DEF Claiming
<1>3. \/ pc[w] \in ClaimLabels
      \/ pc[w] \in FindLabels /\ (Awaits(w, "claim_dead") \/ Awaits(w, "claim_again"))
  BY <1>1, <1>2, CallRuns DEF ClaimHomes, SameHomes
<1>4. SUFFICES ASSUME ~Awaits(w, "claim_again"), pc[w] \notin {"claim_check", "claim_again"}, ~ClaimOr(w) PROVE FALSE
  BY <1>2 DEF Claiming
<1>5. ASSUME pc'[w] \in Callers PROVE \A l : ~Awaits(w, l)'
  <2>1. pc'[w] \notin Labels /\ pc'[w] \notin FindLabels /\ pc'[w] \notin PickLabels
    BY <1>5 DEF Callers, Labels, FindLabels, PickLabels
  <2>2. stack'[w] = <<>>
    BY <1>1, <2>1 DEF InCall
  <2>. QED
    BY <2>2 DEF Awaits
<1>6. CASE pc[w] \in {"claim_dead", "claim_found", "claim_or"}
  <2>1. ClaimDead(w) \/ ClaimFound(w)
    BY <1>4, <1>6, StepIs DEF ClaimLabels, ClaimCheck
  <2>2. pc[w] \notin FindLabels \cup PickLabels
    BY <1>6 DEF FindLabels, PickLabels
  <2>3. ASSUME NEW code \in {"CLAIM_DEAD", "CLAIM_FOUND"}, Return(w, code, 0) PROVE FALSE
    <3>1. pc'[w] = Home(w) /\ ret'[w].code = code
      BY <2>2, <2>3, StepReturns
    <3>2. \A l : ~Awaits(w, l)'
      BY <1>1, <1>5, <3>1
    <3>. QED
      BY <1>1, <1>2, <3>1, <3>2 DEF Claiming, ClaimHomes, Claims
  <2>4. ASSUME NEW label \in {"claim_found", "claim_or"}, Goto(w, label) PROVE FALSE
    <3>1. label \in Labels \ FindLabels
      BY <2>4 DEF Labels, FindLabels
    <3>2. pc'[w] = label /\ \A l : ~Awaits(w, l)'
      BY <2>2, <2>4, <3>1, StepMoves
    <3>. QED
      BY <1>1, <1>2, <3>2 DEF Claiming, ClaimHomes
  <2>. QED
    BY <2>1, <2>3, <2>4 DEF ClaimDead, ClaimFound
<1>7. CASE pc[w] \in FindLabels /\ Awaits(w, "claim_dead")
  <2>1. \A l \in ListLabels \cup FindBacks : Awaits(w, l) => l = "claim_dead"
    BY <1>2, <1>7, AwaitsOne
  <2>2. CASE pc'[w] \in FindLabels /\ \A l : Awaits(w, l)' <=> Awaits(w, l)
    BY <1>1, <1>2, <1>4, <2>2 DEF Claiming, ClaimHomes, FindLabels
  <2>3. CASE Ended(w)
    <3>1. CASE Awaits(w, pc'[w]) /\ \A l : ~Awaits(w, l)'
      <4>1. pc'[w] = "claim_dead"
        BY <1>2, <1>7, <3>1, AwaitsOne
      <4>. QED
        BY <1>1, <1>2, <3>1, <4>1 DEF Claiming, ClaimHomes
    <3>2. CASE \A l : ~Awaits(w, l)
      BY <1>7, <3>2
    <3>3. CASE \E l \in ListLabels : Awaits(w, l)
      BY <2>1, <3>3 DEF ListLabels
    <3>. QED
      BY <2>3, <3>1, <3>2, <3>3 DEF Ended
  <2>. QED
    BY <1>7, <2>2, <2>3, FindGoes
<1>. QED
  BY <1>3, <1>4, <1>6, <1>7 DEF ClaimLabels

\* What is removed from a list is a node.
LEMMA RemoveNode ==
  ASSUME Search, NEW t \in Worker, pc[t] \in RemoveLabels
  PROVE  loc[t].pick.a \in Node
<1>1. SetsInv(Callers) /\ Calls(t)
  BY SearchBase
<1>2. pc[t] \in Labels /\ pc[t] \notin FindLabels \cup PickLabels \cup ClaimLabels \cup SameLabels
  BY DEF RemoveLabels, Labels, FindLabels, PickLabels, ClaimLabels, SameLabels
<1>3. InCall(t, Callers)
  BY <1>1 DEF SetsInv, Knows
<1>4. \A l : ~Awaits(t, l)
  <2>1. \E c \in Callers : stack[t] = <<c>>
    <3>1. pc[t] \notin Callers
      BY <1>2 DEF Labels, Callers
    <3>. QED
      BY <1>2, <1>3, <3>1 DEF InCall
  <2>2. Len(stack[t]) = 1
    BY <2>1
  <2>. QED
    BY <2>2 DEF Awaits
<1>5. Home(t) = "enter"
  BY <1>1, <1>2, <1>4, CallRuns DEF Picking, Busy, Region, RegionLabels, RemoveLabels
<1>. QED
  BY <1>1, <1>5 DEF Calls, RemoveKnown, RemoveLabels

\* Only remove_color writes a colour.
LEMMA StepColors ==
  ASSUME NEW w \in Worker, UFStep(w)
  PROVE  G_Color' = G_Color \/ RemoveColor(w)
BY DEF UFStep, FindRead, FindCompress, ClaimDead, ClaimFound, ClaimOr, ClaimCheck, SameB, SameA, SameRetry,
       PickA, PickNext, PickB, PickC, PickCompare, PickWrite, MarkDead, Remove, UniteFindB, UniteRoots,
       LockUf, LockUfCheck, LockUfUndo, LockListA, LockListB, SwapLists, SetParent, ReadQw, CompareRw, AddQw,
       CheckR, FoundR, UnlockListA, UnlockListB, UnlockUf

\* remove_color is reached from remove.
LEMMA RemoveHome ==
  ASSUME Search, NWorkers <= WordBits, NEW w \in Worker, UFStep(w), UNCHANGED <<G, tls, total, G_SCC>>,
         pc'[w] \in RemoveLabels
  PROVE  pc[w] = "remove" /\ loc' = loc
<1>1. /\ Home(w)' = Home(w) /\ pc[w] \in Labels /\ pc[w] # Home(w)
      /\ InCall(w, Callers)' /\ Home(w) \in Callers
  BY OwnHome, HomeCalls, SearchBase
<1>2. Calls(w)' /\ Calls(w) /\ SetsInv(Callers)
  BY StepSearch, SearchBase DEF Search, SearchInv
<1>3. pc'[w] \notin FindLabels \cup PickLabels \cup ClaimLabels \cup SameLabels \cup RegionLabels \cup Callers
      /\ pc'[w] \notin {"unite_a", "unite_b"}
  BY DEF FindLabels, PickLabels, ClaimLabels, SameLabels, RegionLabels, Callers, RemoveLabels
<1>4. \A l : ~Awaits(w, l)'
  BY <1>1, <1>3 DEF InCall, Awaits
<1>5. Home(w)' \in {"enter"}
  <2>1. Home(w)' \notin ClaimHomes
    BY <1>2, <1>3, <1>1 DEF Calls, ClaimKnown, ClaimLabels
  <2>2. Home(w)' \notin SameHomes
    BY <1>2, <1>3, <1>1 DEF Calls, SameRuns
  <2>3. Home(w)' # "explore"
    <3>1. SUFFICES ASSUME PickKnown(w)' PROVE FALSE
      BY <1>2 DEF Calls
    <3>2. pc'[w] # "explore"
      BY <1>3 DEF Callers
    <3>. QED
      BY <1>3, <1>4, <3>1, <3>2 DEF PickKnown, Picking
  <2>4. Home(w)' # "united"
    <3>1. SUFFICES ASSUME UniteKnown(w)' PROVE FALSE
      BY <1>2 DEF Calls
    <3>2. pc'[w] # "united"
      BY <1>3 DEF Callers
    <3>. QED
      BY <1>3, <1>4, <3>1, <3>2 DEF UniteKnown, Busy, Region
  <2>5. Home(w)' \notin {"is_dead", "collected"}
    BY <1>1, <1>2, <1>3 DEF Calls, FindKnown
  <2>6. Home(w)' \notin {"next", "edge", "backtrack", "join", "done", "collect", "end"}
    BY <1>1, <1>2, <1>3 DEF Calls
  <2>. QED
    BY <1>1, <2>1, <2>2, <2>3, <2>4, <2>5, <2>6 DEF Callers, ClaimHomes, SameHomes
<1>6. pc[w] \in RemoveLabels
  BY <1>1, <1>2, <1>5, CallRuns DEF ClaimHomes, SameHomes
<1>7. Remove(w) \/ RemoveColor(w)
  BY <1>6, StepIs
<1>8. ASSUME NEW code, NEW node, Return(w, code, node) PROVE FALSE
  <2>1. pc[w] \notin FindLabels \cup PickLabels
    BY <1>6 DEF RemoveLabels, FindLabels, PickLabels
  <2>2. pc'[w] = Home(w)
    BY <1>8, <2>1, StepReturns
  <2>. QED
    BY <1>1, <1>3, <2>2
<1>. QED
  BY <1>7, <1>8 DEF Remove, RemoveColor, PickReturn

\* A step of the union-find by any worker keeps what all workers know of the
\* nodes they passed.
LEMMA OwnPast ==
  ASSUME Search, Ends, NWorkers <= WordBits, NEW w \in Worker, UFStep(w), UNCHANGED <<G, tls, total, G_SCC>>,
         NEW t \in Worker
  PROVE  Past(t)'
<1>1. /\ SetsInv(Callers) /\ Typed(Callers) /\ OwnTyped /\ Past(t) /\ Stands(t) /\ Calls(t) /\ uf \in [Slot -> Entry]
      /\ LocTyped
  BY SearchBase DEF Ends, UfTyped
<1>2. Grows
  BY StepSets
<1>3. Home(t)' = Home(t)
  <2>1. CASE t = w
    BY <2>1, OwnHome
  <2>2. CASE t # w
    BY <1>1, <2>2, UFStepAlone DEF Alone, OthersKept, Home
  <2>. QED
    BY <2>1, <2>2
<1>4. tls'[t] = tls[t] /\ Depth(t)' = Depth(t) /\ Trail(t)' = Trail(t) /\ Target(t)' = Target(t)
  BY <1>3, TrailSame, SameTarget
<1>5. \A n \in Node : Taken(n) => Taken(n)'
  BY <1>2, TakenGrows
<1>6. Home(t) \in Searching => \A i \in 1 .. Depth(t) : Trail(t)[i] \in Node
  <2>1. SUFFICES ASSUME Home(t) \in Searching PROVE \A i \in 1 .. Depth(t) : Trail(t)[i] \in Node
    OBVIOUS
  <2>2. tls[t].v \in Node /\ Frames(t) /\ Sound
    BY <1>1, <2>1, SearchBase DEF Stands, OnTrail, SetsRight
  <2>. QED
    BY <1>1, <2>2, TrailReach
<1>7. Claiming(t)' => Taken(Target(t))'
  <2>1. SUFFICES ASSUME Claiming(t)' PROVE Taken(Target(t))'
    OBVIOUS
  <2>2. Home(t) \in ClaimHomes /\ Target(t) \in Node
    BY <1>1, <1>3, <2>1 DEF Claiming, Calls, ClaimKnown
  <2>3. CASE Claiming(t)
    BY <1>1, <1>4, <1>5, <2>2, <2>3 DEF Past
  <2>4. CASE ~Claiming(t)
    <3>1. t = w
      <4>1. SUFFICES ASSUME t # w PROVE FALSE
        OBVIOUS
      <4>2. Still(t)
        BY <1>1, <4>1, UFStepAlone DEF Alone, OthersKept, Still
      <4>. QED
        BY <1>3, <2>1, <2>4, <4>2, StillHome DEF Claiming, Still
    <3>2. ClaimOr(w)
      BY <2>1, <2>4, <3>1, ClaimingFrom
    <3>3. pc[w] \in ClaimLabels
      BY <3>2 DEF ClaimOr, ClaimLabels
    <3>4. ret[w].node \in Node /\ Root[ret[w].node] = Root[Target(w)]
      BY <3>3, ClaimNode
    <3>5. Root' = Root
      BY <3>2, DeadTo DEF ClaimOr, SetParent
    <3>6. ret[w].node \in Slot
      BY <3>4 DEF Node, Slot
    <3>7. uf'[ret[w].node].workers = uf[ret[w].node].workers \cup w_id(w)
      BY <1>1, <3>2, <3>6, WorkersGrow
    <3>8. w_id(w)' = w_id(w) /\ Target(w)' = Target(w)
      BY <1>4, <3>1 DEF w_id
    <3>9. Visited(w, Target(w))'
      BY <3>4, <3>5, <3>7, <3>8 DEF Visited
    <3>. QED
      BY <3>1, <3>9 DEF Taken
  <2>. QED
    BY <2>3, <2>4
<1>8. pc'[t] \in RemoveLabels => Taken(loc[t].pick.a)' /\ loc'[t].pick.a = loc[t].pick.a
  <2>1. SUFFICES ASSUME pc'[t] \in RemoveLabels PROVE Taken(loc[t].pick.a)' /\ loc'[t].pick.a = loc[t].pick.a
    OBVIOUS
  <2>2. pc[t] \in RemoveLabels /\ loc'[t] = loc[t]
    <3>1. CASE t = w
      BY <2>1, <3>1, RemoveHome DEF RemoveLabels
    <3>2. CASE t # w
      BY <1>1, <2>1, <3>2, UFStepAlone DEF Alone, OthersKept
    <3>. QED
      BY <3>1, <3>2
  <2>3. loc[t].pick.a \in Node
    BY <2>2, RemoveNode
  <2>4. PICK n \in Node : n = loc[t].pick.a
    BY <2>3
  <2>5. Taken(n)'
    BY <1>1, <1>5, <2>2, <2>4 DEF Past
  <2>6. loc'[t].pick.a = n
    BY <2>2, <2>4
  <2>. QED
    BY <2>4, <2>5, <2>6
<1>9. \A k : ChunkFirst(k)' = ChunkFirst(k)
  BY DEF ChunkFirst, LeastOf
<1>. QED
  BY <1>1, <1>3, <1>4, <1>5, <1>6, <1>7, <1>8, <1>9 DEF Past

\* Only taken nodes get the colour -2: the node a worker removes is in a set it
\* has visited.
LEMMA OwnColored ==
  ASSUME Search, Ends, NEW w \in Worker, UFStep(w), UNCHANGED <<G, tls, total, G_SCC>>
  PROVE  Colored'
<1>1. Colored /\ Past(w) /\ UfTyped
  BY SearchBase DEF Ends
<1>2. \A n \in Node : Taken(n) => Taken(n)'
  BY StepSets, TakenGrows
<1>3. CASE G_Color' = G_Color
  BY <1>1, <1>2, <1>3 DEF Colored
<1>4. CASE RemoveColor(w)
  <2>1. pc[w] \in RemoveLabels
    BY <1>4 DEF RemoveColor, RemoveLabels
  <2>2. PICK m \in Node : m = loc[w].pick.a
    BY <2>1, RemoveNode
  <2>3. Taken(m)
    BY <1>1, <2>1, <2>2 DEF Past
  <2>4. \A n \in Node : G_Color'[n] = -2 => G_Color[n] = -2 \/ n = m
    BY <1>1, <1>4, <2>2 DEF RemoveColor, UfTyped
  <2>. QED
    BY <1>1, <1>2, <2>3, <2>4 DEF Colored
<1>. QED
  BY <1>3, <1>4, StepColors

\* While the results are collected only thread 0 steps, in the find of line 715,
\* and what it found is a root until it is stored: path compression hangs nothing
\* below another root.
LEMMA OwnCollects ==
  ASSUME Search, Ends, NEW w \in Worker, UFStep(w), UNCHANGED <<G, tls, total, G_SCC>>
  PROVE  Collects'
<1>1. /\ SetsInv(Callers) /\ Typed(Callers) /\ Collects /\ UfTyped /\ ParentIncreasing /\ OwnTyped
  BY SearchBase DEF Ends
<1>2. 0 \in Worker
  BY UFConstants DEF Worker
<1>3. Home(0)' = Home(0)
  <2>1. CASE 0 = w
    BY <2>1, OwnHome
  <2>2. CASE 0 # w
    BY <1>1, <1>2, <2>2, UFStepAlone DEF Alone, OthersKept, Home
  <2>. QED
    BY <2>1, <2>2
<1>4. SUFFICES ASSUME Home(0) \in Collecting
      PROVE  /\ \A t \in Worker \ {0} : pc'[t] = "done"
             /\ \A n \in Node : Taken(n)'
             /\ \A n \in Node : n < tls[0].i => G_SCC'[n] = Root'[n]
             /\ pc'[0] = "end" => tls[0].i > N
             /\ Home(0) = "collected" /\ pc'[0] \in {"compress", "collected"} => uf'[ret'[0].node].parent = 0
  BY <1>3 DEF Collects
<1>5. w = 0
  <2>1. pc[w] \in Labels
    BY StepLabel
  <2>2. "done" \notin Labels
    BY DEF Labels
  <2>. QED
    BY <1>1, <1>4, <2>1, <2>2 DEF Collects
<1>6. \A t \in Worker \ {0} : pc'[t] = "done"
  BY <1>1, <1>4, <1>5, UFStepAlone DEF Alone, OthersKept, Collects
<1>7. \A n \in Node : Taken(n)'
  BY <1>1, <1>4, StepSets, TakenGrows DEF Collects
<1>8. Home(0) = "collected" /\ pc[0] \in FindLabels /\ \A l : ~Awaits(0, l)
  <2>1. pc[0] \in Labels /\ pc[0] # Home(0) /\ Calls(0)
    BY <1>2, <1>5, OwnHome, SearchBase
  <2>2. Home(0) = "collected"
    BY <1>4, <2>1 DEF Collecting, Calls
  <2>. QED
    BY <2>1, <2>2 DEF Calls, FindKnown
<1>9. Root' = Root /\ path[0][1] \in Slot
  BY <1>5, <1>8, FindGoes
<1>10. \A n \in Node : n < tls[0].i => G_SCC'[n] = Root'[n]
  BY <1>1, <1>4, <1>9 DEF Collects
<1>11. pc'[0] # "end" /\ (pc'[0] \in {"compress", "collected"} => \/ pc[0] = "compress" /\ ret'[0].node = ret[0].node
                                                                  \/ pc[0] = "find" /\ ret'[0].node = Root[path[0][1]])
  <2>1. \/ /\ pc'[0] \in FindLabels
           /\ pc'[0] = "compress" => \/ pc[0] = "compress" /\ ret'[0].node = ret[0].node
                                     \/ pc[0] = "find" /\ ret'[0].node = Root[path[0][1]]
        \/ /\ Ended(0)
           /\ \/ pc[0] = "compress" /\ ret'[0].node = ret[0].node
              \/ pc[0] = "find" /\ ret'[0].node = Root[path[0][1]]
    BY <1>5, <1>8, FindGoes
  <2>2. Ended(0) => pc'[0] = "collected"
    BY <1>3, <1>8 DEF Ended
  <2>. QED
    BY <2>1, <2>2 DEF FindLabels
<1>12. ASSUME pc'[0] \in {"compress", "collected"} PROVE uf'[ret'[0].node].parent = 0
  <2>1. CASE pc[0] = "find"
    <3>1. uf' = uf
      BY <1>5, <1>8, <2>1, StepIs DEF FindRead, FindCompress
    <3>2. uf[Root[path[0][1]]].parent = 0
      BY <1>1, <1>9, RootFacts
    <3>. QED
      BY <1>11, <1>12, <2>1, <3>1, <3>2
  <2>2. CASE pc[0] = "compress"
    <3>1. FindCompress(0)
      BY <1>5, <1>8, <2>2, StepIs DEF FindRead
    <3>2. PICK n \in Slot : n = ret[0].node
      BY <1>1, <1>2, PlaceTyped
    <3>3. uf[n].parent = 0 /\ ret'[0].node = n
      BY <1>1, <1>4, <1>8, <1>11, <1>12, <2>2, <3>2 DEF Collects
    <3>4. path[0] \in Seq(Slot) /\ path[0] # <<>>
      BY <1>1, <1>2, <2>2 DEF Typed, ControlTyped
    <3>5. Len(path[0]) \in 1 .. Len(path[0])
      BY <3>4
    <3>6. PICK p \in Slot : p = path[0][Len(path[0])]
      BY <3>4, <3>5
    <3>7. p < n
      BY <1>1, <1>2, <2>2, <3>2, <3>5, <3>6 DEF SetsInv, Upward
    <3>8. p # n
      BY <3>7 DEF Slot
    <3>9. uf' = [uf EXCEPT ![p].parent = n]
      BY <3>1, <3>2, <3>6 DEF FindCompress
    <3>10. uf'[n] = uf[n]
      BY <1>1, <3>8, <3>9 DEF UfTyped
    <3>. QED
      BY <3>3, <3>10
  <2>. QED
    BY <1>11, <1>12, <2>1, <2>2
<1>. QED
  BY <1>6, <1>7, <1>10, <1>11, <1>12

\* No step of the union-find disturbs what the end rests on.
LEMMA StepEnds ==
  ASSUME Search, Ends, NWorkers <= WordBits, NEW w \in Worker, UFStep(w), UNCHANGED <<G, tls, total, G_SCC>>
  PROVE  Ends'
BY OwnColored, OwnCollects, OwnPast DEF Ends

-----------------------------------------------------------------------------
(* The steps of the callers *)

\* Steps outside the union-find take nothing and lose nothing.
LEMMA TakenFrozen ==
  ASSUME Frozen, NEW n
  PROVE  Taken(n)' <=> Taken(n)
BY FrozenSame DEF Taken, Frozen, Dead, Visited, w_id

\* What a step of the callers leaves of Past
Passed(t) == Past(t)' /\ Home(t)' \notin Collecting

\* A step of the search that leaves the trail
LEMMA PastStays ==
  ASSUME Search, Frozen, NEW t \in Worker, Past(t), pc[t] \in Searching, Home(t)' \in Searching,
         tls'[t].i = tls[t].i, tls'[t].rec = tls[t].rec, tls'[t].v = tls[t].v, ~Claiming(t)',
         pc'[t] \in RemoveLabels => Taken(loc'[t].pick.a)
  PROVE  Passed(t)
<1>1. OwnTyped /\ OnTrail(t) /\ Home(t) = pc[t]
  BY SearchBase, AtTrail
<1>2. Depth(t)' = Depth(t) /\ Trail(t)' = Trail(t)
  BY <1>1, FramesFrozen DEF OnTrail
<1>3. \A k : ChunkFirst(k)' = ChunkFirst(k)
  BY DEF ChunkFirst, LeastOf
<1>4. Home(t)' \notin Collecting \cup {"start", "next", "join", "done"} /\ Home(t) \notin Collecting
  BY <1>1 DEF Searching, Collecting
<1>5. \A n : Taken(n)' <=> Taken(n)
  BY TakenFrozen
<1>6. pc'[t] \in RemoveLabels => Taken(loc[t].pick.a)'
  <2>1. PICK n : n = loc'[t].pick.a
    OBVIOUS
  <2>2. pc'[t] \in RemoveLabels => Taken(n)'
    BY <1>5, <2>1
  <2>. QED
    BY <2>1, <2>2 DEF Taken, Dead, Visited
<1>7. /\ Trail(t)'[1] = tls'[t].i /\ tls'[t].i < ChunkFirst(t + 1)
      /\ \A i \in 1 .. Depth(t)' : Taken(Trail(t)[i])'
  <2>1. /\ Trail(t)[1] = tls[t].i /\ tls[t].i < ChunkFirst(t + 1)
        /\ \A i \in 1 .. Depth(t) : Taken(Trail(t)[i])
    BY <1>1 DEF Past
  <2>2. PICK v : v = Trail(t)
    OBVIOUS
  <2>3. \A i \in 1 .. Depth(t) : Taken(v[i])'
    BY <1>5, <2>1, <2>2
  <2>. QED
    BY <1>2, <2>1, <2>2, <2>3 DEF Taken, Dead, Visited
<1>8. \A n \in Node : ChunkFirst(t) <= n /\ n < tls'[t].i => Taken(n)'
  BY <1>4, <1>5 DEF Past
<1>. QED
  BY <1>3, <1>4, <1>6, <1>7, <1>8 DEF Past, Passed

\* At these labels nothing is being removed.
LEMMA NoRemoval ==
  ASSUME NEW t \in Worker, pc'[t] \in Callers \cup {"find", "pick_a"}
  PROVE  pc'[t] \notin RemoveLabels
BY DEF Callers, RemoveLabels

\* On entry the claimed state joins the trail, or the worker asks whether it is
\* in the set of the state before.
LEMMA EnterPast ==
  ASSUME Search, Frozen, NEW t \in Worker, Enter(t), Past(t)
  PROVE  Passed(t)
<1>1. pc[t] = "enter" /\ tls' = tls /\ pc[t] \in Searching
  BY DEF Enter, Searching
<1>2. pc[t] \in Callers /\ tls[t].v \in Node
  BY <1>1, AtTrail
<1>3. Home(t)' \in {"explore", "entered"} /\ pc'[t] \in Callers \cup {"find", "pick_a"}
  BY <1>1, <1>2, CalledPick, CalledSameset DEF Enter, Callers
<1>. QED
  BY <1>1, <1>3, NoRemoval, PastStays DEF Searching, Claiming, ClaimHomes

\* Backing out of a state that fell into the set of its predecessor, or exploring
\* it, keeps the trail.
LEMMA EnteredPast ==
  ASSUME Search, Frozen, NEW t \in Worker, Entered(t), Past(t)
  PROVE  Passed(t)
<1>1. pc[t] = "entered" /\ tls' = tls /\ pc[t] \in Searching
  BY DEF Entered, Searching
<1>2. pc[t] \in Callers /\ tls[t].v \in Node
  BY <1>1, AtTrail
<1>3. Home(t)' \in {"explore", "backtrack"} /\ pc'[t] \in Callers \cup {"find", "pick_a"}
  BY <1>1, <1>2, CalledPick, OnToLabel DEF Entered, Callers, Goes
<1>. QED
  BY <1>1, <1>3, NoRemoval, PastStays DEF Searching, Claiming, ClaimHomes

\* The state picked to explore belongs to the set of the trail's last state.
LEMMA ExplorePast ==
  ASSUME Search, Frozen, NEW t \in Worker, Explore(t), Past(t)
  PROVE  Passed(t)
<1>1. pc[t] = "explore" /\ pc[t] \in Searching
  BY DEF Explore, Searching
<1>2. pc[t] \in Callers /\ tls[t].v \in Node /\ tls[t] \in Tls /\ tls \in [Worker -> Tls]
  BY <1>1, AtTrail, SearchBase DEF OwnTyped
<1>3. Home(t)' \in {"edge", "backtrack"} /\ pc'[t] \in Callers
  BY <1>1, <1>2, OnToLabel DEF Explore, Callers, Goes
<1>4. tls'[t].i = tls[t].i /\ tls'[t].rec = tls[t].rec /\ tls'[t].v = tls[t].v
  BY <1>2 DEF Explore, Tls
<1>. QED
  BY <1>1, <1>3, <1>4, NoRemoval, PastStays DEF Searching, Claiming, ClaimHomes

\* The states of the trail, and so the set of v_p, are taken.
LEMMA TakenPicked ==
  ASSUME Search, NEW t \in Worker, pc[t] \in AtEdge, Past(t)
  PROVE  Taken(tls[t].v_p)
<1>1. OnTrail(t) /\ Home(t) = pc[t] /\ Home(t) \in Searching /\ OwnTyped /\ Root[tls[t].v_p] = Root[tls[t].v]
  BY AtAnEdge
<1>2. Depth(t) \in 1 .. Depth(t) /\ Trail(t)[Depth(t)] = tls[t].v
  BY <1>1, TrailTyped
<1>3. Taken(tls[t].v)
  BY <1>1, <1>2 DEF Past
<1>. QED
  BY <1>1, <1>3, TakenOf

\* Going on to the next edge leaves the trail.
LEMMA NextEdgePast ==
  ASSUME Search, Frozen, NEW t \in Worker, pc[t] \in AtEdge, NextEdge(t), Past(t)
  PROVE  Passed(t)
<1>1. pc[t] \in Searching /\ pc[t] \in Callers /\ tls[t] \in Tls /\ tls \in [Worker -> Tls]
  BY AtAnEdge
<1>2. Home(t)' = "edge" /\ pc'[t] \in Callers
  BY <1>1, OnToLabel DEF NextEdge, Callers, Goes
<1>3. tls'[t].i = tls[t].i /\ tls'[t].rec = tls[t].rec /\ tls'[t].v = tls[t].v
  BY <1>1 DEF NextEdge, Tls
<1>. QED
  BY <1>1, <1>2, <1>3, NoRemoval, PastStays DEF Searching, Claiming, ClaimHomes

\* A state is removed from the list of a set that the worker has visited.
LEMMA RemovePast ==
  ASSUME Search, Frozen, NEW t \in Worker, pc[t] \in AtEdge, CallRemove(t, tls[t].v_p, "enter"), tls' = tls, Past(t)
  PROVE  Passed(t)
<1>1. pc[t] \in Searching /\ pc[t] \in Callers /\ tls[t].v_p \in Node
  BY AtAnEdge
<1>2. Home(t)' = "enter" /\ loc'[t].pick.a = tls[t].v_p
  BY <1>1, CalledPick DEF Callers
<1>. QED
  BY <1>1, <1>2, TakenPicked, PastStays DEF Searching, Claiming, ClaimHomes

\* At an edge the trail stays: the state is removed, the edge skipped, or its end
\* claimed.
LEMMA EdgePast ==
  ASSUME Search, Frozen, NEW t \in Worker, Edge(t), Past(t)
  PROVE  Passed(t)
<1> DEFINE me == tls[t]
           w == Successor(t, me.v_p, me.k)
<1>1. pc[t] = "edge" /\ pc[t] \in AtEdge
  BY DEF Edge, AtEdge
<1>2. /\ pc[t] \in Searching /\ pc[t] \in Callers /\ me \in Tls /\ tls \in [Worker -> Tls] /\ me.v_p \in Node
      /\ OwnTyped /\ me.k \in Nat /\ Home(t) = "edge"
  BY <1>1, AtAnEdge
<1>3. CASE CallRemove(t, me.v_p, "enter") /\ tls' = tls
  BY <1>1, <1>3, RemovePast
<1>4. CASE tls' = [tls EXCEPT ![t].k = @ + 1] /\ UNCHANGED control
  <2>1. Home(t)' = "edge" /\ pc'[t] \in Callers
    BY <1>2, <1>4 DEF control, Home
  <2>2. tls'[t].i = tls[t].i /\ tls'[t].rec = tls[t].rec /\ tls'[t].v = tls[t].v
    BY <1>2, <1>4 DEF Tls
  <2>. QED
    BY <1>2, <2>1, <2>2, NoRemoval, PastStays DEF Searching, Claiming, ClaimHomes
<1>5. CASE tls' = [tls EXCEPT ![t].w = w] /\ CallClaim(t, w, "claimed")
  <2>1. pc'[t] = "find" /\ Home(t)' = "claimed" /\ Awaits(t, "claim_dead")'
    BY <1>2, <1>5, CalledClaim DEF Callers
  <2>2. ~Claiming(t)'
    BY <2>1 DEF Claiming, Awaits
  <2>3. tls'[t].i = tls[t].i /\ tls'[t].rec = tls[t].rec /\ tls'[t].v = tls[t].v
    BY <1>2, <1>5 DEF Tls
  <2>. QED
    BY <1>2, <2>1, <2>2, <2>3, NoRemoval, PastStays DEF Searching
<1>. QED
  BY <1>3, <1>4, <1>5 DEF Edge

\* After a return of the recursion the trail stays.
LEMMA IsDeadPast ==
  ASSUME Search, Frozen, NEW t \in Worker, IsDead(t), Past(t)
  PROVE  Passed(t)
BY RemovePast, NextEdgePast DEF IsDead, AtEdge

\* Uniting the roots leaves the trail.
LEMMA FoundPast ==
  ASSUME Search, Frozen, NEW t \in Worker, Found(t), Past(t)
  PROVE  Passed(t)
<1>1. pc[t] = "found" /\ pc[t] \in AtEdge
  BY DEF Found, AtEdge
<1>2. pc[t] \in Searching /\ pc[t] \in Callers /\ tls[t] \in Tls /\ tls \in [Worker -> Tls] /\ Home(t) = "found" /\ Calls(t)
  BY <1>1, AtAnEdge
<1>3. CASE NextEdge(t)
  BY <1>1, <1>3, NextEdgePast
<1>4. CASE /\ ret[t].code = "different" /\ tls' = [tls EXCEPT ![t].roots = Pop(tls[t].roots)]
           /\ CallUnite(t, Top(Pop(tls[t].roots)), Top(tls[t].roots), "united")
  <2>1. pc'[t] = "find" /\ Home(t)' = "united"
    <3>1. Home(t) = pc[t] /\ stack[t] = <<>>
      BY <1>2, AtCaller
    <3>2. stack \in [Worker -> Seq(Back(Callers))] /\ pc \in [Worker -> Labels \cup Callers]
      BY SearchBase DEF Typed, ControlTyped
    <3>3. stack'[t] = <<"united", "unite_a">> /\ pc'[t] = "find"
      BY <1>4, <3>1, <3>2 DEF CallUnite, CallFind, Call
    <3>. QED
      BY <3>3 DEF Home
  <2>2. tls'[t].i = tls[t].i /\ tls'[t].rec = tls[t].rec /\ tls'[t].v = tls[t].v
    BY <1>2, <1>4 DEF Tls
  <2>. QED
    BY <1>2, <2>1, <2>2, NoRemoval, PastStays DEF Searching, Claiming, ClaimHomes
<1>. QED
  BY <1>3, <1>4 DEF Found

\* So does asking again whether the cycle is closed.
LEMMA UnitedPast ==
  ASSUME Search, Frozen, NEW t \in Worker, United(t), Past(t)
  PROVE  Passed(t)
<1>1. pc[t] = "united" /\ tls' = tls /\ pc[t] \in AtEdge
  BY DEF United, AtEdge
<1>2. pc[t] \in Searching /\ pc[t] \in Callers
  BY <1>1, AtAnEdge
<1>3. Home(t)' = "found" /\ pc'[t] \in Callers \cup {"find", "pick_a"}
  BY <1>2, CalledSameset DEF United, Callers
<1>. QED
  BY <1>1, <1>2, <1>3, NoRemoval, PastStays DEF Searching, Claiming, ClaimHomes

\* The claimed state at the end of the trail is taken: its set has the bit of the
\* worker.
LEMMA PushPast ==
  ASSUME Search, Frozen, NEW t \in Worker, pc[t] = "claimed", ret[t].code \in Claims, Past(t),
         tls' = [tls EXCEPT ![t].unique = @ + First(t),
                            ![t].rec = Append(@, [v_p |-> tls[t].v_p, k |-> tls[t].k, v |-> tls[t].v]),
                            ![t].roots = Append(@, tls[t].w), ![t].v = tls[t].w, ![t].w = 0],
         Resume(t, "enter")
  PROVE  Passed(t)
<1> DEFINE me == tls[t]
           f  == [v_p |-> me.v_p, k |-> me.k, v |-> me.v]
<1>1. /\ OnTrail(t) /\ pc[t] \in Callers /\ Home(t) = "claimed" /\ Calls(t) /\ pc[t] \in Searching
      /\ me.v_p \in Node /\ Root[me.v_p] = Root[me.v] /\ EdgesTried(t, me.v_p, me.k)
      /\ OwnTyped /\ me \in Tls /\ tls \in [Worker -> Tls] /\ me.i > 0 /\ me.v \in Node
  BY AtAnEdge DEF AtEdge
<1>2. me.w \in Node
  BY <1>1 DEF Calls, ClaimHomes, ClaimKnown, Target
<1>3. PICK w \in Node : w = me.w
  BY <1>2
<1>4. Taken(w)
  BY <1>1, <1>3 DEF Past, Claiming, ClaimHomes, Target
<1>5. tls'[t].rec = Append(me.rec, f) /\ tls'[t].v = w /\ tls'[t].i = me.i
  BY <1>1, <1>3 DEF Tls
<1>6. Goes(t, "enter")
  BY <1>1, OnToLabel DEF Callers
<1>7. pc'[t] = "enter" /\ Home(t)' = "enter"
  BY <1>6 DEF Goes
<1>8. FrameRight(t, f, w)
  BY <1>1, <1>3 DEF FrameRight, OnTrail, AtSucc
<1>9. /\ Frames(t)' /\ Depth(t)' = Depth(t) + 1 /\ Trail(t)'[Depth(t) + 1] = w
      /\ \A i \in 1 .. Depth(t) : Trail(t)'[i] = Trail(t)[i]
  <2>1. Frames(t) /\ w \in Slot /\ f.v = tls[t].v
    BY <1>1, <1>3 DEF OnTrail, Slot, Node
  <2>2. PICK g : g = f
    OBVIOUS
  <2>. QED
    BY <1>1, <1>5, <1>8, <2>1, <2>2, TrailPushed
<1>10. PICK L \in Nat \ {0}, v \in {Trail(t)}, u \in {Trail(t)'} : L = Depth(t) /\ v = Trail(t) /\ u = Trail(t)'
  BY <1>1, TrailTyped
<1>11. /\ v[1] = me.i /\ me.i < ChunkFirst(t + 1) /\ \A i \in 1 .. L : Taken(v[i])
       /\ \A n \in Node : ChunkFirst(t) <= n /\ n < me.i => Taken(n)
  BY <1>1, <1>10 DEF Past, Searching, Collecting
<1>12. /\ u[1] = me.i /\ \A i \in 1 .. L + 1 : Taken(u[i])
  <2>1. ASSUME NEW i \in 1 .. L + 1 PROVE Taken(u[i])
    <3>1. CASE i = L + 1
      BY <1>4, <1>9, <1>10, <3>1
    <3>2. CASE i # L + 1
      <4>1. i \in 1 .. L
        BY <3>2
      <4>. QED
        BY <1>9, <1>10, <1>11, <4>1
    <3>. QED
      BY <3>1, <3>2
  <2>2. 1 \in 1 .. L
    OBVIOUS
  <2>. QED
    BY <1>9, <1>10, <1>11, <2>1, <2>2
<1>13. \A k : ChunkFirst(k)' = ChunkFirst(k)
  BY DEF ChunkFirst, LeastOf
<1>14. \A n : Taken(n)' <=> Taken(n)
  BY TakenFrozen
<1>15. \A i \in 1 .. L + 1 : Taken(u[i])'
  BY <1>12, <1>14
<1>16. \A i \in 1 .. Depth(t)' : Taken(Trail(t)[i])'
  <2>1. ASSUME NEW i \in 1 .. L + 1 PROVE Taken(Trail(t)[i])'
    <3>1. Taken(u[i])' /\ Trail(t)'[i] = u[i]
      BY <1>10, <1>15
    <3>. QED
      BY <3>1 DEF Taken, Dead, Visited
  <2>2. Depth(t)' = L + 1
    BY <1>9, <1>10
  <2>. QED
    BY <2>1, <2>2
<1>. QED
  BY <1>5, <1>7, <1>9, <1>10, <1>11, <1>12, <1>13, <1>14, <1>16
     DEF Past, Passed, Searching, Collecting, Claiming, ClaimHomes, RemoveLabels

\* The three answers of make_claim keep what the worker knows of its nodes.
LEMMA ClaimedPast ==
  ASSUME Search, Frozen, NEW t \in Worker, Claimed(t), Past(t)
  PROVE  Passed(t)
<1>1. pc[t] = "claimed" /\ pc[t] \in AtEdge
  BY DEF Claimed, AtEdge
<1>2. CASE NextEdge(t)
  BY <1>1, <1>2, NextEdgePast
<1>3. CASE CallSameset(t, tls[t].w, tls[t].v, "found") /\ tls' = tls
  <2>1. pc[t] \in Searching /\ pc[t] \in Callers
    BY <1>1, AtAnEdge
  <2>2. Home(t)' = "found" /\ pc'[t] \in Callers \cup {"find", "pick_a"}
    BY <1>3, <2>1, CalledSameset DEF Callers
  <2>. QED
    BY <1>3, <2>1, <2>2, NoRemoval, PastStays DEF Searching, Claiming, ClaimHomes
<1>4. CASE /\ ret[t].code \in Claims
           /\ tls' = [tls EXCEPT ![t].unique = @ + First(t),
                                 ![t].rec = Append(@, [v_p |-> tls[t].v_p, k |-> tls[t].k, v |-> tls[t].v]),
                                 ![t].roots = Append(@, tls[t].w), ![t].v = tls[t].w, ![t].w = 0]
           /\ Resume(t, "enter")
  BY <1>1, <1>4, PushPast
<1>. QED
  BY <1>2, <1>3, <1>4 DEF Claimed, Claims

\* A step of the loop of lines 673-680, or out to it
LEMMA PastLoop ==
  ASSUME Search, Frozen, NEW t \in Worker, NEW i \in Int, tls'[t].i = i,
         \/ Home(t)' = "next" /\ i <= ChunkFirst(t + 1)
         \/ Home(t)' \in {"join", "done"} /\ i = ChunkFirst(t + 1)
         \/ Home(t)' = "start" /\ tls'[t].v = i /\ i < ChunkFirst(t + 1),
         ~Claiming(t)', pc'[t] \notin RemoveLabels,
         \A n \in Node : ChunkFirst(t) <= n /\ n < i => Taken(n)
  PROVE  Passed(t)
<1>1. \A n : Taken(n)' <=> Taken(n)
  BY TakenFrozen
<1>2. \A k : ChunkFirst(k)' = ChunkFirst(k)
  BY DEF ChunkFirst, LeastOf
<1>3. \A n \in Node : ChunkFirst(t) <= n /\ n < i => Taken(n)'
  BY <1>1
<1>4. Home(t)' \notin Collecting \cup Searching
  BY DEF Collecting, Searching
<1>. QED
  BY <1>2, <1>3, <1>4 DEF Past, Passed

\* The chunks begin and end inside the nodes.
LEMMA ChunkEnd ==
  ASSUME NEW t \in Worker
  PROVE  ChunkFirst(t) \in 1 .. N + 1 /\ ChunkFirst(t + 1) \in 1 .. N + 1 /\ N \in Nat
<1>1. t \in 0 .. NWorkers /\ t + 1 \in 0 .. NWorkers
  BY UFConstants DEF Worker
<1>. QED
  BY <1>1, ChunkBounds, UFConstants

\* Leaving the first state of the recursion passes it: its set is taken. Leaving
\* any other shortens the trail.
LEMMA BacktrackPast ==
  ASSUME Search, Frozen, NEW t \in Worker, Backtrack(t), Past(t)
  PROVE  Passed(t)
<1> DEFINE me    == tls[t]
           frame == me.rec[Len(me.rec)]
<1>1. pc[t] = "backtrack" /\ pc[t] \in Searching
  BY DEF Backtrack, Searching
<1>2. /\ OnTrail(t) /\ pc[t] \in Callers /\ Home(t) = "backtrack" /\ me.v \in Node
      /\ OwnTyped /\ me \in Tls /\ tls \in [Worker -> Tls] /\ me.i \in Nat
  BY <1>1, AtTrail, SearchBase, TlsTyped DEF OwnTyped
<1>3. /\ Trail(t)[1] = me.i /\ me.i < ChunkFirst(t + 1) /\ \A i \in 1 .. Depth(t) : Taken(Trail(t)[i])
      /\ \A n \in Node : ChunkFirst(t) <= n /\ n < me.i => Taken(n)
  BY <1>1, <1>2 DEF Past, Collecting
<1>4. CASE /\ tls' = [tls EXCEPT ![t].roots = RootsLeft(t), ![t].i = @ + 1, ![t].v = 0, ![t].v_p = 0, ![t].k = 0]
           /\ Goto(t, "next")
  <2>1. Goes(t, "next")
    BY <1>2, <1>4, OnToLabel DEF Callers
  <2>2. tls'[t].i = me.i + 1
    BY <1>2, <1>4 DEF Tls
  <2>3. Taken(me.i)
    <3>1. 1 \in 1 .. Depth(t)
      BY <1>2, TrailTyped
    <3>. QED
      BY <1>3, <3>1
  <2>4. me.i + 1 <= ChunkFirst(t + 1) /\ me.i + 1 \in Int
    BY <1>2, <1>3, ChunkEnd
  <2>5. ASSUME NEW n \in Node, ChunkFirst(t) <= n, n < me.i + 1 PROVE Taken(n)
    <3>1. n < me.i \/ n = me.i
      BY <1>2, <2>5 DEF Node
    <3>. QED
      BY <1>3, <2>3, <2>5, <3>1
  <2>6. PICK i \in Int : i = me.i + 1
    BY <2>4
  <2>. QED
    BY <2>1, <2>2, <2>4, <2>5, <2>6, PastLoop DEF Goes, Claiming, ClaimHomes, RemoveLabels
<1>5. CASE /\ me.rec # <<>>
           /\ tls' = [tls EXCEPT ![t].roots = RootsLeft(t), ![t].rec = Pop(@),
                                 ![t].v = frame.v, ![t].v_p = frame.v_p, ![t].k = frame.k]
           /\ CallFind(t, frame.v, <<"is_dead">>)
  <2>1. tls'[t].rec = Pop(me.rec) /\ tls'[t].v = frame.v /\ tls'[t].i = me.i
    BY <1>2, <1>5 DEF Tls
  <2>2. /\ Depth(t) > 1 /\ Depth(t)' = Depth(t) - 1
        /\ \A i \in 1 .. Depth(t) - 1 : Trail(t)'[i] = Trail(t)[i]
    BY <1>2, <1>5, <2>1, TrailPopped DEF OnTrail
  <2>3. pc'[t] = "find" /\ Home(t)' = "is_dead"
    BY <1>2, <1>5, CalledFind DEF Callers
  <2>4. PICK L \in Nat \ {0}, v \in {Trail(t)}, u \in {Trail(t)'} : L = Depth(t) /\ v = Trail(t) /\ u = Trail(t)'
    BY <1>2, TrailTyped
  <2>5. L > 1 /\ u[1] = me.i /\ \A i \in 1 .. L - 1 : Taken(u[i])
    <3>1. \A i \in 1 .. L - 1 : i \in 1 .. L
      OBVIOUS
    <3>2. 1 \in 1 .. L - 1
      BY <2>2, <2>4
    <3>. QED
      BY <1>3, <2>2, <2>4, <3>1, <3>2
  <2>6. \A n : Taken(n)' <=> Taken(n)
    BY TakenFrozen
  <2>7. \A i \in 1 .. L - 1 : Taken(u[i])'
    BY <2>5, <2>6
  <2>8. \A i \in 1 .. Depth(t)' : Taken(Trail(t)[i])'
    BY <2>2, <2>4, <2>7 DEF Taken, Dead, Visited
  <2>9. \A k : ChunkFirst(k)' = ChunkFirst(k)
    BY DEF ChunkFirst, LeastOf
  <2>. QED
    BY <1>3, <2>1, <2>3, <2>4, <2>5, <2>6, <2>8, <2>9
       DEF Past, Passed, Searching, Collecting, Claiming, ClaimHomes, RemoveLabels
<1>. QED
  BY <1>4, <1>5 DEF Backtrack

\* The loop passes a node only if it is taken: it is coloured -2, or it will be
\* claimed.
LEMMA NextStatePast ==
  ASSUME Search, Frozen, NEW t \in Worker, NextState(t), Past(t), Colored
  PROVE  Passed(t)
<1> DEFINE n == tls[t].i
<1>1. pc[t] = "next" /\ pc[t] \in Callers \ Searching
  BY DEF NextState, Callers, Searching
<1>2. /\ Home(t) = "next" /\ tls[t].roots = <<>> /\ tls[t].rec = <<>> /\ n > 0
      /\ tls[t] \in Tls /\ tls \in [Worker -> Tls] /\ n \in Nat
  BY <1>1, AtLoop
<1>3. /\ n <= ChunkFirst(t + 1) /\ n \in Int
      /\ \A m \in Node : ChunkFirst(t) <= m /\ m < n => Taken(m)
  BY <1>2 DEF Past, Collecting
<1>4. CASE n = ChunkFirst(t + 1) /\ Goto(t, "join") /\ tls' = tls
  <2>1. Goes(t, "join")
    BY <1>1, <1>4, OnToLabel DEF Callers
  <2>2. PICK i \in Int : i = n
    BY <1>3
  <2>. QED
    BY <1>3, <1>4, <2>1, <2>2, PastLoop DEF Goes, Claiming, ClaimHomes, RemoveLabels
<1>5. CASE n < ChunkFirst(t + 1) /\ G_Color[n] = -2 /\ tls' = [tls EXCEPT ![t].i = n + 1] /\ UNCHANGED control
  <2>1. Home(t)' = "next" /\ pc'[t] = "next"
    BY <1>1, <1>2, <1>5 DEF control, Home
  <2>2. PICK i \in Int : i = n + 1
    BY <1>2
  <2>3. tls'[t].i = i
    BY <1>2, <1>5, <2>2 DEF Tls
  <2>4. i <= ChunkFirst(t + 1) /\ n \in Node
    BY <1>2, <1>5, <2>2, ChunkEnd DEF Node
  <2>5. Taken(n)
    BY <1>5, <2>4 DEF Colored
  <2>6. ASSUME NEW m \in Node, ChunkFirst(t) <= m, m < i PROVE Taken(m)
    <3>1. m < n \/ m = n
      BY <1>2, <2>2, <2>6 DEF Node
    <3>. QED
      BY <1>3, <2>5, <2>6, <3>1
  <2>. QED
    BY <2>1, <2>3, <2>4, <2>6, PastLoop DEF Claiming, ClaimHomes, RemoveLabels
<1>6. CASE n < ChunkFirst(t + 1) /\ tls' = [tls EXCEPT ![t].v = n] /\ CallClaim(t, n, "start")
  <2>1. pc'[t] = "find" /\ Home(t)' = "start" /\ Awaits(t, "claim_dead")'
    BY <1>1, <1>6, CalledClaim DEF Callers
  <2>2. ~Claiming(t)'
    BY <2>1 DEF Claiming, Awaits
  <2>3. PICK i \in Int : i = n
    BY <1>3
  <2>4. tls'[t].i = i /\ tls'[t].v = i
    <3>1. n \in Slot
      BY <1>2, <1>6, ChunkEnd DEF Slot
    <3>. QED
      BY <1>2, <1>6, <2>3, <3>1 DEF Tls
  <2>. QED
    BY <1>3, <1>6, <2>1, <2>2, <2>3, <2>4, PastLoop DEF RemoveLabels
<1>. QED
  BY <1>4, <1>5, <1>6 DEF NextState

\* A search starts at the node of the loop, which it has claimed.
LEMMA StartPast ==
  ASSUME Search, Frozen, NEW t \in Worker, Start(t), Past(t)
  PROVE  Passed(t)
<1> DEFINE me == tls[t]
<1>1. pc[t] = "start" /\ pc[t] \in Callers \ Searching
  BY DEF Start, Callers, Searching
<1>2. /\ Home(t) = "start" /\ me.roots = <<>> /\ me.rec = <<>> /\ me.i > 0 /\ me.v \in Node /\ Calls(t)
      /\ me \in Tls /\ tls \in [Worker -> Tls] /\ me.i \in Nat
  BY <1>1, AtLoop
<1>3. /\ me.v = me.i /\ me.i < ChunkFirst(t + 1)
      /\ \A m \in Node : ChunkFirst(t) <= m /\ m < me.i => Taken(m)
  BY <1>2 DEF Past, Collecting
<1>4. Taken(me.v)
  <2>1. ClaimKnown(t)
    BY <1>2 DEF Calls, ClaimHomes
  <2>2. ~(pc[t] \in FindLabels) /\ pc[t] \notin {"claim_dead", "claim_found", "claim_or", "claim_check", "claim_again"}
    BY <1>1 DEF FindLabels
  <2>3. ~OnRoots(Root, me.roots, me.v) /\ Target(t) = me.v
    BY <1>2 DEF OnRoots, Target
  <2>4. ret[t].code \in Claims \/ Dead(me.v)
    BY <2>1, <2>2, <2>3 DEF ClaimKnown, ClaimCodes, Claims
  <2>5. ret[t].code \in Claims => Claiming(t)
    BY <1>1, <1>2 DEF Claiming, ClaimHomes
  <2>. QED
    BY <2>3, <2>4, <2>5 DEF Past, Taken
<1>5. PICK v \in Node : v = me.v
  BY <1>2
<1>6. tls'[t].rec = <<>> /\ tls'[t].v = v /\ tls'[t].i = v
  BY <1>2, <1>3, <1>5 DEF Start, Tls
<1>7. Goes(t, "enter")
  BY <1>1, OnToLabel DEF Start, Callers
<1>8. Depth(t)' = 1 /\ Trail(t)'[1] = v
  <2>1. Depth(t)' = 1
    BY <1>6 DEF Depth
  <2>2. Trail(t)' = [i \in 1 .. 1 |-> IF i < 1 THEN tls'[t].rec[i].v ELSE v]
    BY <1>6, <2>1 DEF Trail
  <2>. QED
    BY <2>1, <2>2
<1>9. \A m : Taken(m)' <=> Taken(m)
  BY TakenFrozen
<1>10. \A i \in 1 .. Depth(t)' : Taken(Trail(t)[i])'
  <2>1. Taken(v)'
    BY <1>4, <1>5, <1>9
  <2>2. \A i \in 1 .. Depth(t)' : i = 1
    BY <1>8
  <2>3. Taken(Trail(t)[1])'
    BY <1>8, <2>1 DEF Taken, Dead, Visited
  <2>. QED
    BY <2>2, <2>3
<1>11. \A k : ChunkFirst(k)' = ChunkFirst(k)
  BY DEF ChunkFirst, LeastOf
<1>12. \A m \in Node : ChunkFirst(t) <= m /\ m < v => Taken(m)'
  BY <1>3, <1>5, <1>9
<1>. QED
  BY <1>3, <1>5, <1>6, <1>7, <1>8, <1>10, <1>11, <1>12
     DEF Goes, Past, Passed, Searching, Collecting, Claiming, ClaimHomes, RemoveLabels

\* A worker joins after the last node of its chunk.
LEMMA JoinPast ==
  ASSUME Search, Frozen, NEW t \in Worker, Join(t), Past(t)
  PROVE  Passed(t)
<1>1. pc[t] = "join" /\ pc[t] \in Callers \ Searching
  BY DEF Join, Callers, Searching
<1>2. Home(t) = "join" /\ tls[t] \in Tls /\ tls \in [Worker -> Tls] /\ tls[t].i \in Nat
  BY <1>1, AtLoop
<1>3. PICK i \in Int : i = tls[t].i
  BY <1>2
<1>4. i = ChunkFirst(t + 1) /\ \A m \in Node : ChunkFirst(t) <= m /\ m < i => Taken(m)
  BY <1>2, <1>3 DEF Past, Collecting
<1>5. tls'[t].i = i
  BY <1>2, <1>3 DEF Join, Tls
<1>6. Goes(t, "done")
  BY <1>1, OnToLabel DEF Join, Callers
<1>. QED
  BY <1>4, <1>5, <1>6, PastLoop DEF Goes, Claiming, ClaimHomes, RemoveLabels

-----------------------------------------------------------------------------
(* The induction *)

\* A worker whose locals stay keeps what it knows when another steps outside the
\* union-find.
LEMMA PastBeside ==
  ASSUME Search, Frozen, NEW t \in Worker, Still(t), Past(t)
  PROVE  Past(t)'
<1>1. Home(t)' = Home(t) /\ \A l : Awaits(t, l)' <=> Awaits(t, l)
  BY StillHome
<1>2. tls'[t] = tls[t] /\ pc'[t] = pc[t] /\ ret'[t] = ret[t] /\ loc'[t] = loc[t]
  BY DEF Still
<1>3. Depth(t)' = Depth(t) /\ Trail(t)' = Trail(t) /\ Target(t)' = Target(t)
  BY <1>1, <1>2, TrailSame, SameTarget
<1>4. Claiming(t)' <=> Claiming(t)
  BY <1>1, <1>2 DEF Claiming
<1>5. \A n : Taken(n)' <=> Taken(n)
  BY TakenFrozen
<1>6. \A k : ChunkFirst(k)' = ChunkFirst(k)
  BY DEF ChunkFirst, LeastOf
<1>7. PICK a, b, v : a = loc[t].pick.a /\ b = Target(t) /\ v = Trail(t)
  OBVIOUS
<1>8. (pc[t] \in RemoveLabels => Taken(a)') /\ (Claiming(t) => Taken(b)')
  BY <1>5, <1>7 DEF Past
<1>9. pc'[t] \in RemoveLabels => Taken(loc[t].pick.a)'
  BY <1>2, <1>7, <1>8 DEF Taken, Dead, Visited
<1>10. Claiming(t)' => Taken(Target(t))'
  BY <1>3, <1>4, <1>7, <1>8 DEF Taken, Dead, Visited
<1>11. Home(t) \in Searching => \A i \in 1 .. Depth(t) : Taken(v[i])'
  BY <1>5, <1>7 DEF Past
<1>12. Home(t)' \in Searching => \A i \in 1 .. Depth(t)' : Taken(Trail(t)[i])'
  BY <1>1, <1>3, <1>7, <1>11 DEF Taken, Dead, Visited
<1>13. Home(t) \notin Collecting => \A n \in Node : ChunkFirst(t) <= n /\ n < tls[t].i => Taken(n)'
  BY <1>5 DEF Past
<1>. QED
  BY <1>1, <1>2, <1>3, <1>6, <1>9, <1>10, <1>12, <1>13 DEF Past

\* The steps of one caller leave the others and the colours.
LEMMA CallerBeside ==
  ASSUME Search, Ends, NEW w \in Worker, CallerStep(w, Callers), G' = G, \A x \in Worker \ {w} : tls'[x] = tls[x]
  PROVE  /\ Frozen /\ Colored' /\ \A t \in Worker \ {w} : Still(t) /\ Past(t)' /\ Home(t)' = Home(t)
<1>1. Frozen
  BY StepFrozen
<1>2. \A n : Taken(n)' <=> Taken(n)
  BY <1>1, TakenFrozen
<1>3. G_Color' = G_Color
  BY DEF CallerStep
<1>4. Colored'
  BY <1>2, <1>3 DEF Ends, Colored
<1>5. SetsInv(Callers) /\ InCall(w, Callers) /\ Typed(Callers)
  BY SearchBase DEF SetsInv, Knows
<1>6. Alone(w)
  BY <1>5, CallerMoves DEF SetsInv
<1>7. ASSUME NEW t \in Worker \ {w} PROVE Still(t) /\ Past(t)' /\ Home(t)' = Home(t)
  <2>1. Still(t)
    BY <1>6 DEF Alone, OthersKept, Still
  <2>. QED
    BY <1>1, <2>1, StillHome, PastBeside DEF Ends
<1>. QED
  BY <1>1, <1>4, <1>7

\* Every step of the search keeps what its worker knows of its nodes.
LEMMA RecursePast ==
  ASSUME Search, Ends, Frozen, NEW t \in Worker, Recurse(t) \/ NextState(t) \/ Start(t) \/ Join(t)
  PROVE  Passed(t)
<1>1. Past(t) /\ Colored
  BY DEF Ends
<1>. QED
  BY <1>1, EnterPast, EnteredPast, ExplorePast, EdgePast, ClaimedPast, FoundPast, UnitedPast, BacktrackPast,
     IsDeadPast, NextStatePast, StartPast, JoinPast DEF Recurse

\* The steps of the search keep what the end rests on.
LEMMA RecurseEnds ==
  ASSUME Search, Ends, NEW w \in Worker, Recurse(w) \/ NextState(w) \/ Start(w) \/ Join(w), G' = G
  PROVE  Ends'
<1>1. CallerStep(w, Callers) /\ \A x \in Worker \ {w} : tls'[x] = tls[x]
  BY SearchBase, RecurseCalls, OneMoves
<1>2. Frozen /\ Colored' /\ \A t \in Worker \ {w} : Past(t)' /\ Home(t)' = Home(t)
  BY <1>1, CallerBeside
<1>3. Past(w)' /\ Home(w)' \notin Collecting
  BY <1>2, RecursePast DEF Passed
<1>4. 0 \in Worker
  BY UFConstants DEF Worker
<1>5. pc[w] # "done"
  BY DEF Recurse, Enter, Entered, Explore, Edge, Claimed, Found, United, Backtrack, IsDead, NextState, Start, Join
<1>6. w # 0 => Home(0) \notin Collecting
  BY <1>5 DEF Ends, Collects
<1>7. Collects'
  BY <1>2, <1>3, <1>4, <1>6 DEF Collects
<1>8. \A t \in Worker : Past(t)'
  BY <1>2, <1>3
<1>. QED
  BY <1>2, <1>7, <1>8 DEF Ends

\* The first chunk starts at the first node, the last ends at the last.
LEMMA ChunkEnds == ChunkFirst(0) = 1 /\ ChunkFirst(NWorkers) = N + 1
<1> DEFINE d == N \div NWorkers
           m == N % NWorkers
<1>1. N \in Nat /\ NWorkers \in Nat /\ NWorkers > 0
  BY UFConstants
<1>2. d \in Nat /\ m \in Nat /\ N = NWorkers * d + m /\ m < NWorkers
  BY <1>1
<1>3. 0 * d = 0 /\ NWorkers * d \in Nat
  BY <1>1, <1>2
<1>4. ChunkFirst(0) = 1 + 0 * d + LeastOf(0, m) /\ ChunkFirst(NWorkers) = 1 + NWorkers * d + LeastOf(NWorkers, m)
  BY DEF ChunkFirst
<1>5. LeastOf(0, m) = 0 /\ LeastOf(NWorkers, m) = m
  BY <1>1, <1>2 DEF LeastOf
<1> HIDE DEF d, m
<1>. QED
  BY <1>2, <1>3, <1>4, <1>5

\* The chunks cover the nodes.
LEMMA ChunkOf ==
  ASSUME NEW n \in Node
  PROVE  \E t \in Worker : ChunkFirst(t) <= n /\ n < ChunkFirst(t + 1)
<1> DEFINE T == {t \in 0 .. NWorkers : ChunkFirst(t) > n}
<1>1. NWorkers \in Nat /\ NWorkers > 0 /\ n \in 1 .. N /\ N \in Nat
  BY UFConstants DEF Node
<1>2. NWorkers \in T
  <2>1. ChunkFirst(NWorkers) = N + 1 /\ n <= N /\ NWorkers \in 0 .. NWorkers
    BY <1>1, ChunkEnds
  <2>2. N + 1 > n
    BY <1>1
  <2>. QED
    BY <2>1, <2>2
<1>3. T \subseteq Nat /\ T # {}
  BY <1>2
<1>4. PICK m \in T : \A k \in T : m <= k
  BY <1>3, LeastNumber
<1>5. m \in 0 .. NWorkers /\ m # 0
  BY <1>1, <1>4, ChunkEnds
<1>6. m - 1 \in 0 .. NWorkers /\ ~(m <= m - 1)
  BY <1>1, <1>5
<1>7. m - 1 \notin T
  BY <1>4, <1>6, Zenon
<1>8. ChunkFirst(m - 1) \in Int
  BY <1>6, ChunkBounds
<1>9. ChunkFirst(m - 1) <= n
  BY <1>1, <1>6, <1>7, <1>8
<1>10. m - 1 \in Worker /\ (m - 1) + 1 = m
  BY <1>1, <1>5 DEF Worker
<1>11. n < ChunkFirst(m)
  BY <1>4, <1>5, ChunkBounds, <1>1
<1>. QED
  BY <1>9, <1>10, <1>11

\* When all workers are done all nodes are taken: each lies in a chunk, and its
\* worker has passed it.
LEMMA AllTaken ==
  ASSUME Search, Ends, \A t \in Worker : pc[t] = "done"
  PROVE  \A n \in Node : Taken(n)
<1>1. SUFFICES ASSUME NEW n \in Node PROVE Taken(n)
  OBVIOUS
<1>2. PICK t \in Worker : ChunkFirst(t) <= n /\ n < ChunkFirst(t + 1)
  BY ChunkOf
<1>3. pc[t] = "done" /\ pc[t] \in Callers \ Searching
  BY DEF Callers, Searching
<1>4. Home(t) = "done"
  BY <1>3, AtLoop
<1>. QED
  BY <1>2, <1>4 DEF Ends, Past, Collecting

\* Collecting the results keeps what the end rests on.
LEMMA ReportEnds ==
  ASSUME Search, Ends, Report
  PROVE  Ends'
<1>1. 0 \in Worker /\ CallerStep(0, Callers) /\ G' = G /\ \A x \in Worker \ {0} : tls'[x] = tls[x]
  BY SearchBase, ReportCalls, ReportMoves DEF Report, Barrier, Collect, Collected
<1>2. Frozen /\ Colored' /\ \A t \in Worker \ {0} : Still(t) /\ Past(t)' /\ Home(t)' = Home(t)
  BY <1>1, CallerBeside
<1>3. pc[0] \in {"done", "collect", "collected"} /\ pc[0] \in Callers \ Searching
  <2>1. pc[0] \in {"done", "collect", "collected"}
    BY <1>1 DEF Report, Barrier, Collect, Collected
  <2>. QED
    BY <2>1 DEF Callers, Searching
<1>4. /\ Home(0) = pc[0] /\ Calls(0) /\ tls[0].i > 0 /\ tls[0].i \in Nat
      /\ pc[0] = "collected" => tls[0].i \in Node
      /\ tls[0] \in Tls /\ tls \in [Worker -> Tls]
  BY <1>1, <1>3, AtLoop
<1>5. G_SCC \in [Node -> Slot] /\ N \in Nat /\ Typed(Callers)
  BY SearchBase, UFConstants DEF OwnTyped
<1>6. \A n : Taken(n)' <=> Taken(n)
  BY <1>2, TakenFrozen
<1>7. Root' = Root /\ uf' = uf
  BY <1>2 DEF Frozen
<1>8. CASE Barrier
  <2>1. Goes(0, "collect")
    BY <1>1, <1>3, <1>8, OnToLabel DEF Barrier, Callers
  <2>2. tls'[0].i = 1 /\ G_SCC' = G_SCC
    BY <1>1, <1>4, <1>8 DEF Barrier, Tls
  <2>3. \A n \in Node : Taken(n)'
    BY <1>6, <1>8, AllTaken DEF Barrier
  <2>4. \A t \in Worker \ {0} : pc'[t] = "done"
    BY <1>2, <1>8 DEF Barrier, Still
  <2>5. \A n \in Node : ~(n < 1)
    BY <1>5 DEF Node
  <2>6. Collects'
    BY <2>1, <2>2, <2>3, <2>4, <2>5 DEF Collects, Goes
  <2>7. Past(0)'
    BY <2>1 DEF Past, Goes, Collecting, Searching, Claiming, ClaimHomes, RemoveLabels
  <2>. QED
    BY <1>2, <2>6, <2>7 DEF Ends
<1>9. ASSUME pc[0] \in {"collect", "collected"}
      PROVE  /\ \A t \in Worker \ {0} : pc'[t] = "done"
             /\ \A n \in Node : Taken(n)'
             /\ \A n \in Node : n < tls[0].i => G_SCC[n] = Root[n]
             /\ pc[0] = "collected" => uf[ret[0].node].parent = 0
  BY <1>2, <1>4, <1>6, <1>9 DEF Ends, Collects, Collecting, Still
<1>10. CASE Collect
  <2>1. pc[0] = "collect" /\ tls' = tls /\ G_SCC' = G_SCC
    BY <1>10 DEF Collect
  <2>2. CASE tls[0].i <= N /\ CallFind(0, tls[0].i, <<"collected">>)
    <3>1. pc'[0] = "find" /\ Home(0)' = "collected"
      BY <1>1, <1>3, <2>2, CalledFind DEF Callers
    <3>2. Collects'
      BY <1>7, <1>9, <2>1, <3>1 DEF Collects
    <3>3. Past(0)'
      BY <3>1 DEF Past, Collecting, Searching, Claiming, ClaimHomes, RemoveLabels
    <3>. QED
      BY <1>2, <3>2, <3>3 DEF Ends
  <2>3. CASE ~(tls[0].i <= N) /\ Goto(0, "end")
    <3>1. Goes(0, "end")
      BY <1>1, <1>3, <2>3, OnToLabel DEF Callers
    <3>2. tls[0].i > N
      BY <1>4, <1>5, <2>3
    <3>3. Collects'
      BY <1>7, <1>9, <2>1, <3>1, <3>2 DEF Collects, Goes
    <3>4. Past(0)'
      BY <3>1 DEF Past, Goes, Collecting, Searching, Claiming, ClaimHomes, RemoveLabels
    <3>. QED
      BY <1>2, <3>3, <3>4 DEF Ends
  <2>. QED
    BY <1>10, <2>2, <2>3 DEF Collect
<1>11. CASE Collected
  <2>1. pc[0] = "collected" /\ Resume(0, "collect")
    BY <1>11 DEF Collected
  <2>2. Goes(0, "collect")
    BY <1>1, <1>3, <2>1, OnToLabel DEF Callers
  <2>3. PICK i \in Node : i = tls[0].i
    BY <1>4, <2>1
  <2>4. FindKnown(0, tls[0].i)
    BY <1>4, <2>1 DEF Calls
  <2>5. Root[ret[0].node] = Root[i]
    BY <2>1, <2>3, <2>4 DEF FindKnown, FindLabels
  <2>6. Root[ret[0].node] = ret[0].node
    <3>1. PICK n \in Slot : n = ret[0].node
      BY <1>1, PlaceTyped, SearchBase
    <3>2. uf[n].parent = 0
      BY <1>9, <2>1, <3>1
    <3>. QED
      BY <3>1, <3>2, RootFacts, SearchBase
  <2>7. G_SCC' = [G_SCC EXCEPT ![i] = Root[i]]
    BY <1>11, <2>3, <2>5, <2>6 DEF Collected
  <2>8. tls'[0].i = i + 1
    BY <1>1, <1>4, <1>11, <2>3 DEF Collected, Tls
  <2>9. ASSUME NEW n \in Node, n < i + 1 PROVE G_SCC'[n] = Root'[n]
    <3>1. CASE n = i
      BY <1>5, <1>7, <2>7, <3>1
    <3>2. CASE n # i
      <4>1. n < i
        BY <2>9, <3>2 DEF Node
      <4>. QED
        BY <1>5, <1>7, <1>9, <2>1, <2>3, <2>7, <3>2, <4>1
    <3>. QED
      BY <3>1, <3>2
  <2>10. Collects'
    BY <1>9, <2>1, <2>2, <2>8, <2>9 DEF Collects, Goes
  <2>11. Past(0)'
    BY <2>2 DEF Past, Goes, Collecting, Searching, Claiming, ClaimHomes, RemoveLabels
  <2>. QED
    BY <1>2, <2>10, <2>11 DEF Ends
<1>. QED
  BY <1>8, <1>10, <1>11 DEF Report

\* At the start no node is passed.
LEMMA InitEnds ==
  ASSUME Init
  PROVE  Ends
<1>1. /\ \A t \in Worker : pc[t] = "next" /\ stack[t] = <<>> /\ tls[t].i = ChunkFirst(t)
      /\ \A n \in Node : G_Color[n] = 0
  BY DEF Init, UFInit
<1>2. \A t \in Worker : Home(t) = "next"
  BY <1>1 DEF Home
<1>3. ASSUME NEW t \in Worker PROVE Past(t)
  <2>1. ChunkFirst(t) \in Int
    BY ChunkEnd
  <2>2. ChunkFirst(t) <= ChunkFirst(t + 1)
    <3> DEFINE d == N \div NWorkers
               m == N % NWorkers
    <3>1. N \in Nat /\ NWorkers \in Nat /\ NWorkers > 0 /\ t \in Nat
      BY UFConstants DEF Worker
    <3>2. d \in Nat /\ m \in Nat
      BY <3>1
    <3>3. t * d \in Nat /\ (t + 1) * d = t * d + d
      BY <3>1, <3>2
    <3>4. ChunkFirst(t) = 1 + t * d + LeastOf(t, m) /\ ChunkFirst(t + 1) = 1 + (t + 1) * d + LeastOf(t + 1, m)
      BY DEF ChunkFirst
    <3>5. LeastOf(t, m) <= LeastOf(t + 1, m) /\ LeastOf(t, m) \in Nat /\ LeastOf(t + 1, m) \in Nat
      BY <3>1, <3>2 DEF LeastOf
    <3> HIDE DEF d, m
    <3>. QED
      BY <3>2, <3>3, <3>4, <3>5
  <2>3. \A n \in Node : ~(ChunkFirst(t) <= n /\ n < ChunkFirst(t))
    BY <2>1 DEF Node
  <2>. QED
    BY <1>1, <1>2, <2>2, <2>3 DEF Past, Collecting, Searching, Claiming, ClaimHomes, RemoveLabels
<1>4. Colored
  BY <1>1 DEF Colored
<1>5. Collects
  <2>1. 0 \in Worker
    BY UFConstants DEF Worker
  <2>. QED
    BY <1>2, <2>1 DEF Collects, Collecting
<1>. QED
  BY <1>3, <1>4, <1>5 DEF Ends

\* A stuttering step changes nothing of it.
LEMMA StutterEnds ==
  ASSUME Search, Ends, UNCHANGED vars
  PROVE  Ends'
<1>1. /\ uf' = uf /\ pc' = pc /\ stack' = stack /\ ret' = ret /\ path' = path /\ loc' = loc
      /\ G' = G /\ tls' = tls /\ G_SCC' = G_SCC /\ G_Color' = G_Color
  BY DEF vars, ufVars, control
<1>2. Frozen
  BY <1>1 DEF Frozen, Root
<1>3. \A t \in Worker : Past(t)'
  BY <1>1, <1>2, PastBeside DEF Still, Ends
<1>4. \A n : Taken(n)' <=> Taken(n)
  BY <1>2, TakenFrozen
<1>5. Root' = Root
  BY <1>2 DEF Frozen
<1>6. Colored'
  BY <1>1, <1>4 DEF Ends, Colored
<1>7. Collects'
  BY <1>1, <1>4, <1>5 DEF Ends, Collects, Home
<1>. QED
  BY <1>3, <1>6, <1>7 DEF Ends

\* The end rests on it after every step.
LEMMA NextEnds ==
  ASSUME Search, Ends, NWorkers <= WordBits, [Next]_vars
  PROVE  Ends'
<1>1. ASSUME NEW t \in Worker, Step(t) PROVE Ends'
  <2>1. CASE UFStep(t) /\ UNCHANGED <<G, tls, total, G_SCC>>
    BY <2>1, StepEnds
  <2>2. CASE (Recurse(t) \/ NextState(t) \/ Start(t)) /\ UNCHANGED <<G, total, G_SCC>>
    BY <2>2, RecurseEnds
  <2>3. CASE Join(t)
    BY <2>3, RecurseEnds DEF Join
  <2>. QED
    BY <1>1, <2>1, <2>2, <2>3 DEF Step
<1>. QED
  BY <1>1, ReportEnds, StutterEnds DEF Next, Terminated

-----------------------------------------------------------------------------
(* The decomposition                                                       *)

\* What is reported, and the part of the state that SCCPartition speaks of
Answer == [n \in Node |-> IF Reported THEN {m \in Node : G_SCC[m] = G_SCC[n]} ELSE {}]
Blocks == <<Successors[G], Parts, DeadNodes, Answer>>

\* SCC is the components as the invariants know them.
LEMMA ComponentIs ==
  ASSUME OwnTyped, NEW n \in Node
  PROVE  SCC[Successors[G]][n] = {m \in Node : Mutual(n, m)}
<1>1. Successors[G] \in Range(Successors)
  BY DEF OwnTyped, Range, Successors
<1>2. PICK s : s = Successors[G]
  OBVIOUS
<1>3. SCC[s][n] = {m \in [k \in Node |-> Reach(s, k)][n] : n \in [k \in Node |-> Reach(s, k)][m]}
  BY <1>1, <1>2 DEF SCC
<1>4. \A m \in Reach(s, n) : m \in Node
  BY DEF Reach
<1>5. \A m \in Node : [k \in Node |-> Reach(s, k)][m] = Reach(s, m)
  OBVIOUS
<1>. QED
  BY <1>2, <1>3, <1>4, <1>5 DEF Mutual, Reaches

\* When the results are collected every node is in a completed component: some
\* worker has claimed it, and a worker that is done has no root left.
LEMMA AllDead ==
  ASSUME Search, Ends, Home(0) \in Collecting
  PROVE  \A n \in Node : Dead(n)
<1>1. SUFFICES ASSUME NEW n \in Node PROVE Dead(n)
  OBVIOUS
<1>2. Taken(n) /\ \A t \in Worker \ {0} : pc[t] = "done"
  BY DEF Ends, Collects
<1>3. ASSUME NEW t \in Worker, Visited(t, n) PROVE Dead(n)
  <2>1. Home(t) \notin Searching \cup ClaimHomes
    <3>1. CASE t = 0
      BY <3>1 DEF Collecting, Searching, ClaimHomes
    <3>2. CASE t # 0
      <4>1. pc[t] = "done" /\ pc[t] \in Callers \ Searching
        BY <1>2, <3>2 DEF Callers, Searching
      <4>. QED
        BY <4>1, AtLoop DEF Searching, ClaimHomes
    <3>. QED
      BY <3>1, <3>2
  <2>2. tls[t].roots = <<>> /\ BitsHome(t)
    BY <2>1, SearchBase DEF Stands
  <2>3. ~OnRoots(Class(t), tls[t].roots, n)
    BY <2>2 DEF OnRoots
  <2>. QED
    BY <1>3, <2>1, <2>2, <2>3 DEF BitsHome, Claiming
<1>. QED
  BY <1>2, <1>3 DEF Taken

\* A worker at the end has no call open.
LEMMA EndHome ==
  ASSUME NEW w \in Worker, InCall(w, Callers), pc[w] = "end"
  PROVE  Home(w) = "end"
BY DEF InCall, Home, Labels, FindLabels, PickLabels

\* The initial states are those of SCCPartition: every node alone, nothing
\* completed.
LEMMA InitRefines ==
  ASSUME Init
  PROVE  Partition!PInit
<1>1. /\ \A n \in Slot : uf[n] = uf_node
      /\ \A w \in Worker : pc[w] = "next"
      /\ G \in Graphs
  BY DEF Init, UFInit
<1>2. \A n \in Slot : Root[n] = n
  <2>1. SetsInv(Callers)
    BY InitSets DEF SetsKnown
  <2>2. UfTyped /\ ParentIncreasing
    BY <2>1 DEF SetsInv, Typed, Upward
  <2>3. \A n \in Slot : uf[n].parent = 0 => Root[n] = n
    BY <2>2, RootFacts
  <2>. QED
    BY <1>1, <2>3 DEF uf_node
<1>3. Node \subseteq Slot /\ 0 \in Worker
  BY UFConstants DEF Node, Slot, Worker
<1>4. Successors[G] \in DOMAIN SCC
  BY <1>1 DEF Range, Successors, SCC
<1>5. Parts = [n \in Node |-> {n}]
  <2>1. \A n \in Node : {m \in Node : Root[m] = Root[n]} = {n}
    BY <1>2, <1>3
  <2>. QED
    BY <2>1 DEF Parts
<1>6. DeadNodes = {}
  BY <1>1, <1>2, <1>3, PartsAre DEF Dead, uf_node, LIVE, DEAD
<1>7. ~Reported
  BY <1>1, <1>3 DEF Reported
<1>. QED
  BY <1>4, <1>5, <1>6, <1>7 DEF Partition!PInit, Partition!NoResult

\* A step of the union-find by worker w reports nothing.
LEMMA OwnReported ==
  ASSUME Search, NEW w \in Worker, UFStep(w)
  PROVE  Reported' <=> Reported
<1>1. 0 \in Worker /\ Typed(Callers)
  BY SearchBase, UFConstants DEF Worker
<1>2. CASE w # 0
  BY <1>1, <1>2, UFStepAlone DEF Alone, OthersKept, Reported
<1>3. CASE w = 0
  <2>1. /\ Home(0)' = Home(0) /\ pc[0] \in Labels /\ InCall(0, Callers)' /\ Calls(0) /\ pc[0] # Home(0)
    BY <1>3, OwnHome, SearchBase
  <2>2. pc[0] # "end"
    BY <2>1 DEF Labels
  <2>3. pc'[0] = "end" => Home(0)' = "end"
    BY <2>1 DEF InCall, Home, Labels, FindLabels, PickLabels
  <2>4. Home(0) # "end"
    BY <2>1 DEF Calls
  <2>. QED
    BY <2>1, <2>2, <2>3, <2>4 DEF Reported
<1>. QED
  BY <1>2, <1>3

\* set_parent merges two parts of one component, neither of them completed.
LEMMA LinkMerges ==
  ASSUME Search, NEW w \in Worker, SetParent(w), UNCHANGED <<G, G_SCC>>
  PROVE  \E S, T \in Partition!Parts : Partition!Merge(S, T)
<1>1. UFStep(w) /\ SetsInv(Callers) /\ Typed(Callers) /\ Upward /\ QRoot(w) /\ UniteSets(w) /\ OwnTyped /\ SetsRight
  BY SearchBase DEF UFStep, SetsInv, Knows
<1>2. Typed(Callers)' /\ Upward'
  BY <1>1, OwnHome DEF SetsInv
<1>3. PICK q, r, a, b : q = loc[w].unite.q /\ r = loc[w].unite.r /\ a = loc[w].unite.a /\ b = loc[w].unite.b
  OBVIOUS
<1>4. /\ q \in Node /\ r \in Slot /\ q < r /\ Root[q] = q /\ Root[r] # q
      /\ a \in Node /\ b \in Node /\ Mutual(a, b)
      /\ (q = Root[a] /\ Root[r] = Root[b]) \/ (q = Root[b] /\ Root[r] = Root[a])
      /\ uf[q].uf_status # DEAD /\ uf[Root[r]].uf_status # DEAD
  BY <1>3, LinkFacts
<1>5. r \in Node
  BY <1>4, UFConstants DEF Node, Slot
<1>6. \A n \in Slot : Root'[n] = IF Root[n] = q THEN Root[r] ELSE Root[n]
  BY <1>1, <1>2, <1>3, LinkKept
<1>7. \A n \in Node : Dead(n)' <=> Dead(n)
  BY <1>1, <1>2, LinkRight
<1>8. PICK S, T : S = {m \in Node : Root[m] = q} /\ T = {m \in Node : Root[m] = Root[r]}
  OBVIOUS
<1>9. S = Parts[q] /\ T = Parts[r]
  BY <1>4, <1>5, <1>8, PartsAre
<1>10. S \in Partition!Parts /\ T \in Partition!Parts
  BY <1>4, <1>5, <1>9 DEF Partition!Parts
<1>11. S # T
  BY <1>4, <1>8
<1>12. (S \cup T) \cap DeadNodes = {}
  BY <1>4, <1>8, PartsAre DEF Dead
<1>13. ASSUME NEW m \in S, NEW n \in T PROVE n \in SCC[Successors[G]][m]
  <2>1. m \in Node /\ n \in Node /\ Root[m] = q /\ Root[n] = Root[r] /\ Sound
    BY <1>1, <1>8 DEF SetsRight
  <2>2. Mutual(a, b) /\ Mutual(b, a)
    BY <1>4 DEF Mutual
  <2>3. PICK x \in {a, b}, y \in {a, b} : Root[x] = Root[m] /\ Root[y] = Root[n] /\ Mutual(x, y)
    BY <1>4, <2>1, <2>2
  <2>4. x \in Node /\ y \in Node
    BY <1>4
  <2>5. Mutual(m, x) /\ Mutual(y, n)
    BY <2>1, <2>3, <2>4 DEF Sound
  <2>6. Mutual(m, y)
    BY <2>1, <2>3, <2>4, <2>5, MutualOn
  <2>7. Mutual(m, n)
    BY <2>1, <2>4, <2>5, <2>6, MutualOn
  <2>. QED
    BY <1>1, <2>1, <2>7, ComponentIs
<1>14. Parts' = [n \in Node |-> IF n \in S \cup T THEN S \cup T ELSE Parts[n]]
  <2>1. \A n \in Node : n \in Slot
    BY DEF Node, Slot
  <2>2. ASSUME NEW n \in Node
        PROVE  {m \in Node : Root'[m] = Root'[n]} = IF n \in S \cup T THEN S \cup T ELSE {m \in Node : Root[m] = Root[n]}
    BY <1>4, <1>6, <1>8, <2>1
  <2>3. Parts' = [n \in Node |-> {m \in Node : Root'[m] = Root'[n]}]
    BY DEF Parts
  <2>4. Parts = [n \in Node |-> {m \in Node : Root[m] = Root[n]}]
    BY DEF Parts
  <2>. QED
    BY <2>2, <2>3, <2>4
<1>15. DeadNodes' = DeadNodes
  <2>1. DeadNodes' = {n \in Node : Dead(n)'}
    BY DEF DeadNodes, Dead
  <2>. QED
    BY <1>7, <2>1, PartsAre
<1>16. (Reported' <=> Reported) /\ G' = G /\ G_SCC' = G_SCC
  BY <1>1, OwnReported
<1>17. Successors[G]' = Successors[G] /\ Answer' = Answer
  BY <1>16 DEF Answer
<1>18. Partition!Merge(S, T)
  BY <1>11, <1>12, <1>13, <1>14, <1>15, <1>17 DEF Partition!Merge, Answer
<1>. QED
  BY <1>10, <1>18

\* mark_dead completes a whole component whose successors are completed, or finds
\* it completed by another worker.
LEMMA MarkCompletes ==
  ASSUME Search, NEW w \in Worker, MarkDead(w), UNCHANGED <<G, G_SCC>>
  PROVE  UNCHANGED Blocks \/ \E S \in Partition!Parts : Partition!Complete(S)
<1>1. UFStep(w) /\ ~SetParent(w) /\ pc[w] = "mark_dead" /\ Picking(w) /\ OwnTyped /\ UfTyped /\ SetsRight
  BY SearchBase DEF MarkDead, SetParent, Picking, PickLabels, UFStep
<1>2. PICK f : f = ret[w].node
  OBVIOUS
<1>3. f \in Node /\ Root[f] = f /\ f \in Slot
  BY <1>1, <1>2, MarkedExplored DEF Node, Slot
<1>4. /\ Root' = Root
      /\ \A n \in Node : Dead(n) => Dead(n)'
      /\ \A n \in Node : Dead(n)' => Dead(n) \/ Root[n] = f
  BY <1>1, <1>2, DeadTo
<1>5. Sound' /\ Whole' /\ DeadClosed'
  BY MarkSets
<1>6. (Reported' <=> Reported) /\ G' = G /\ G_SCC' = G_SCC
  BY <1>1, OwnReported
<1>7. Successors[G]' = Successors[G] /\ Answer' = Answer
  BY <1>6 DEF Answer
<1>8. Parts' = Parts
  BY <1>4 DEF Parts
<1>9. DeadNodes' = {n \in Node : Dead(n)'}
  BY DEF DeadNodes, Dead
<1>10. \A m : Succ(m)' = Succ(m)
  BY <1>6, SuccSame
<1>11. \A m, n : Mutual(m, n)' <=> Mutual(m, n)
  BY <1>6, SuccSame
<1>12. CASE uf[f].uf_status = DEAD
  <2>1. \A n \in Node : Root[n] = f => Dead(n)
    BY <1>12 DEF Dead
  <2>2. DeadNodes' = DeadNodes
    BY <1>4, <1>9, <2>1, PartsAre
  <2>. QED
    BY <1>7, <1>8, <2>2 DEF Blocks
<1>13. CASE uf[f].uf_status # DEAD
  <2>1. PICK S : S = {m \in Node : Root[m] = f}
    OBVIOUS
  <2>2. S = Parts[f] /\ S \in Partition!Parts
    BY <1>3, <2>1, PartsAre DEF Partition!Parts
  <2>3. uf'[f].uf_status = DEAD
    <3>1. uf \in [Slot -> Entry]
      BY <1>1 DEF UfTyped
    <3>. QED
      BY <1>2, <1>3, <1>13, <3>1 DEF MarkDead, Entry
  <2>4. \A n \in S : n \in Node /\ ~Dead(n) /\ Dead(n)'
    BY <1>4, <1>13, <2>1, <2>3 DEF Dead
  <2>5. S \cap DeadNodes = {}
    BY <2>4, PartsAre
  <2>6. DeadNodes' = DeadNodes \cup S
    BY <1>4, <1>9, <2>1, <2>4, PartsAre
  <2>7. ASSUME NEW n \in S PROVE S = SCC[Successors[G]][n] /\ Successors[G][n] \subseteq S \cup DeadNodes
    <3>1. n \in Node /\ Root[n] = f /\ Dead(n)'
      BY <2>1, <2>4
    <3>2. \A m \in Node : Root[m] = f => Mutual(n, m)
      BY <1>4, <1>5, <1>11, <3>1 DEF Sound
    <3>3. \A m \in Node : Mutual(n, m) => Root[m] = f
      BY <1>4, <1>5, <1>11, <3>1 DEF Whole
    <3>4. S = SCC[Successors[G]][n]
      BY <1>1, <2>1, <3>1, <3>2, <3>3, ComponentIs
    <3>5. Succ(n) \subseteq Node /\ \A m \in Succ(n) : Dead(m)'
      BY <1>1, <1>5, <1>10, <3>1, SuccTyped DEF DeadClosed
    <3>6. Succ(n) \subseteq DeadNodes'
      BY <1>9, <3>5
    <3>. QED
      BY <2>6, <3>4, <3>6 DEF Succ
  <2>8. Partition!Complete(S)
    BY <1>7, <1>8, <2>5, <2>6, <2>7 DEF Partition!Complete, Answer
  <2>. QED
    BY <2>2, <2>8
<1>. QED
  BY <1>12, <1>13

\* A step of the union-find merges two parts, completes one, or leaves them all.
LEMMA OwnRefines ==
  ASSUME Search, NEW w \in Worker, UFStep(w), UNCHANGED <<G, tls, total, G_SCC>>
  PROVE  [Partition!PNext]_(Partition!pvars)
<1>1. CASE SetParent(w)
  BY <1>1, LinkMerges DEF Partition!PNext
<1>2. CASE MarkDead(w)
  BY <1>2, MarkCompletes DEF Partition!PNext, Partition!pvars, Blocks, Answer
<1>3. CASE ~SetParent(w) /\ ~MarkDead(w)
  <2>1. Root' = Root /\ \A n \in Node : Dead(n)' <=> Dead(n)
    BY <1>3, DeadTo
  <2>2. Parts' = Parts
    BY <2>1 DEF Parts
  <2>3. DeadNodes' = {n \in Node : Dead(n)'}
    BY DEF DeadNodes, Dead
  <2>4. DeadNodes' = DeadNodes
    BY <2>1, <2>3, PartsAre
  <2>5. Reported' <=> Reported
    BY OwnReported
  <2>6. Answer' = Answer
    BY <2>5 DEF Answer
  <2>. QED
    BY <2>2, <2>4, <2>6 DEF Partition!pvars, Answer
<1>. QED
  BY <1>1, <1>2, <1>3

\* The code around the union-find leaves the parts alone.
LEMMA FrozenBlocks ==
  ASSUME Frozen
  PROVE  Successors[G]' = Successors[G] /\ Parts' = Parts /\ DeadNodes' = DeadNodes
BY DEF Frozen, Parts, DeadNodes

\* The workers report nothing.
LEMMA RecurseRefines ==
  ASSUME Search, Ends, NWorkers <= WordBits, [Next]_vars, NEW w \in Worker,
         Recurse(w) \/ NextState(w) \/ Start(w) \/ Join(w), UNCHANGED <<G, G_SCC>>
  PROVE  UNCHANGED (Partition!pvars)
<1>1. CallerStep(w, Callers) /\ \A x \in Worker \ {w} : tls'[x] = tls[x]
  BY SearchBase, RecurseCalls, OneMoves
<1>2. Frozen /\ \A t \in Worker \ {w} : Still(t)
  BY <1>1, CallerBeside
<1>3. 0 \in Worker /\ SetsInv(Callers)'
  <2>1. Search'
    BY NextSearch
  <2>. QED
    BY <2>1, UFConstants DEF Worker, Search, SameKnown, SetsKnown
<1>4. Reported' <=> Reported
  <2>1. CASE w # 0
    BY <1>2, <1>3, <2>1 DEF Still, Reported
  <2>2. CASE w = 0
    <3>1. pc[0] # "end"
      BY <2>2 DEF Recurse, Enter, Entered, Explore, Edge, Claimed, Found, United, Backtrack, IsDead,
                  NextState, Start, Join
    <3>2. Home(0)' # "end"
      BY <1>2, <2>2, RecursePast DEF Passed, Collecting
    <3>3. InCall(0, Callers)'
      BY <1>3 DEF SetsInv, Knows
    <3>4. pc'[0] # "end"
      BY <3>2, <3>3 DEF InCall, Home, Labels, FindLabels, PickLabels
    <3>. QED
      BY <3>1, <3>4 DEF Reported
  <2>. QED
    BY <2>1, <2>2
<1>5. Answer' = Answer
  BY <1>4 DEF Answer
<1>. QED
  BY <1>2, <1>5, FrozenBlocks DEF Partition!pvars, Answer

\* The results are reported at once, when they are the parts and all is completed.
LEMMA ReportRefines ==
  ASSUME Search, Ends, Report
  PROVE  [Partition!PNext]_(Partition!pvars)
<1>1. 0 \in Worker /\ CallerStep(0, Callers) /\ G' = G /\ \A x \in Worker \ {0} : tls'[x] = tls[x]
  BY SearchBase, ReportCalls, ReportMoves DEF Report, Barrier, Collect, Collected
<1>2. Frozen
  BY <1>1, CallerBeside
<1>3. pc \in [Worker -> Callers \cup Labels] /\ OwnTyped /\ N \in Nat
  BY SearchBase, UFConstants DEF Typed, ControlTyped
<1>4. ~Reported
  BY <1>1 DEF Report, Barrier, Collect, Collected, Reported
<1>5. CASE Collect /\ tls[0].i > N
  <2>1. pc[0] = "collect" /\ Goto(0, "end") /\ G_SCC' = G_SCC
    BY <1>1, <1>3, <1>5, TlsTyped DEF Collect
  <2>2. Reported'
    BY <1>1, <1>3, <2>1 DEF Goto, Reported
  <2>3. Home(0) \in Collecting
    BY <1>1, <2>1, AtCaller DEF Callers, Collecting
  <2>4. \A n \in Node : Dead(n)
    BY <2>3, AllDead
  <2>5. DeadNodes = Node
    BY <2>4, PartsAre
  <2>6. ASSUME NEW n \in Node PROVE G_SCC[n] = Root[n]
    <3>1. n < tls[0].i
      BY <1>1, <1>3, <1>5, TlsTyped DEF Node
    <3>. QED
      BY <2>3, <3>1 DEF Ends, Collects
  <2>7. Parts = [n \in Node |-> {m \in Node : Root[m] = Root[n]}]
    BY DEF Parts
  <2>8. Answer' = [n \in Node |-> {m \in Node : G_SCC[m] = G_SCC[n]}]
    BY <2>1, <2>2 DEF Answer
  <2>9. Answer' = Parts
    BY <2>6, <2>7, <2>8
  <2>10. Answer = [n \in Node |-> {}]
    BY <1>4 DEF Answer
  <2>11. Partition!Report
    BY <1>2, <2>5, <2>9, <2>10, FrozenBlocks DEF Partition!Report, Partition!NoResult, Answer
  <2>. QED
    BY <2>11 DEF Partition!PNext
<1>6. CASE ~(Collect /\ tls[0].i > N)
  <2>1. ~Reported'
    <3>1. \A l : Goto(0, l) \/ Resume(0, l) => pc'[0] = l
      BY <1>1, <1>3 DEF Goto, Resume
    <3>2. \A n : CallFind(0, n, <<"collected">>) => pc'[0] = "find"
      BY <1>1, <1>3 DEF CallFind, Call
    <3>. QED
      BY <1>1, <1>3, <1>6, <3>1, <3>2, TlsTyped DEF Report, Barrier, Collect, Collected, Reported
  <2>2. Answer' = Answer
    BY <1>4, <2>1 DEF Answer
  <2>. QED
    BY <1>2, <2>2, FrozenBlocks DEF Partition!pvars, Answer
<1>. QED
  BY <1>5, <1>6

\* Every step is a step of SCCPartition or leaves its state alone.
LEMMA NextRefines ==
  ASSUME Search, Ends, NWorkers <= WordBits, [Next]_vars
  PROVE  [Partition!PNext]_(Partition!pvars)
<1>1. ASSUME NEW t \in Worker, Step(t) PROVE [Partition!PNext]_(Partition!pvars)
  <2>1. CASE UFStep(t) /\ UNCHANGED <<G, tls, total, G_SCC>>
    BY <2>1, OwnRefines
  <2>2. CASE (Recurse(t) \/ NextState(t) \/ Start(t)) /\ UNCHANGED <<G, total, G_SCC>>
    BY <2>2, RecurseRefines
  <2>3. CASE Join(t)
    BY <2>3, RecurseRefines DEF Join
  <2>. QED
    BY <1>1, <2>1, <2>2, <2>3 DEF Step
<1>2. CASE UNCHANGED vars
  <2>1. uf' = uf /\ G' = G /\ pc' = pc /\ G_SCC' = G_SCC
    BY <1>2 DEF vars, ufVars, control
  <2>2. Frozen
    BY <2>1 DEF Frozen, Root
  <2>3. Answer' = Answer
    BY <2>1 DEF Answer, Reported
  <2>. QED
    BY <2>2, <2>3, FrozenBlocks DEF Partition!pvars, Answer
<1>. QED
  BY <1>1, <1>2, ReportRefines DEF Next, Terminated

\* The program computes what SCCPartition promises, on every graph, for every
\* number of nodes and every number of workers that have a bit of their own: it
\* only ever unites sets of one component, completes only whole components whose
\* successors are completed, and reports all parts at the end.
THEOREM ImplementsPartition == NWorkers <= WordBits => (Spec => Refinement)
<1> SUFFICES ASSUME NWorkers <= WordBits PROVE Spec => Refinement
  OBVIOUS
<1>1. Init => Search /\ Ends /\ Partition!PInit
  BY InitSearch, InitEnds, InitRefines
<1>2. Search /\ Ends /\ [Next]_vars => (Search /\ Ends)' /\ [Partition!PNext]_(Partition!pvars)
  BY NextSearch, NextEnds, NextRefines
<1>. QED
  BY <1>1, <1>2, PTL DEF Spec, Refinement, Partition!PSpec

\* At the end two nodes have the same result exactly when they are in one
\* component.
LEMMA ReportedRight ==
  ASSUME Search, Ends, Reported, NEW n \in Node
  PROVE  {m \in Node : G_SCC[m] = G_SCC[n]} = SCC[Successors[G]][n]
<1>1. 0 \in Worker /\ OwnTyped /\ SetsRight /\ N \in Nat
  BY SearchBase, UFConstants DEF Worker
<1>2. Home(0) \in Collecting /\ pc[0] = "end"
  BY <1>1, AtCaller DEF Reported, Callers, Collecting
<1>3. \A m \in Node : Dead(m)
  BY <1>2, AllDead
<1>4. \A m \in Node : G_SCC[m] = Root[m]
  <2>1. \A m \in Node : m < tls[0].i
    BY <1>1, <1>2, TlsTyped DEF Ends, Collects, Node
  <2>. QED
    BY <1>2, <2>1 DEF Ends, Collects
<1>5. \A m \in Node : Root[m] = Root[n] <=> Mutual(n, m)
  BY <1>1, <1>3 DEF SetsRight, Sound, Whole
<1>. QED
  BY <1>1, <1>4, <1>5, ComponentIs

\* So the G_SCC that do_ufscc_all writes are the strongly connected components.
THEOREM Decomposes ==
  NWorkers <= WordBits =>
    (Spec => [](Reported => \A n \in Node : {m \in Node : G_SCC[m] = G_SCC[n]} = SCC[Successors[G]][n]))
<1> SUFFICES ASSUME NWorkers <= WordBits
             PROVE  Spec => [](Reported => \A n \in Node : {m \in Node : G_SCC[m] = G_SCC[n]} = SCC[Successors[G]][n])
  OBVIOUS
<1>1. Init => Search /\ Ends
  BY InitSearch, InitEnds
<1>2. Search /\ Ends /\ [Next]_vars => (Search /\ Ends)'
  BY NextSearch, NextEnds
<1>3. Search /\ Ends => (Reported => \A n \in Node : {m \in Node : G_SCC[m] = G_SCC[n]} = SCC[Successors[G]][n])
  BY ReportedRight
<1>. QED
  BY <1>1, <1>2, <1>3, PTL DEF Spec

-----------------------------------------------------------------------------
(* Sums over the workers *)

\* The sum of the values of f.
Total(f) == FoldFunction(+, 0, f)

\* One step of the sum over s, given the sums g over smaller sets
Added(f, g, s) == IF s = {} THEN 0 ELSE f[CHOOSE x \in s : TRUE] + g[s \ {CHOOSE x \in s : TRUE}]

\* What FoldFunction of + computes, without its definition by CHOOSE over a function.
LEMMA SumIs ==
  ASSUME NEW f
  PROVE  Total(f) = (CHOOSE g : g = [s \in SUBSET DOMAIN f |-> Added(f, g, s)])[DOMAIN f]
BY DEF Total, FoldFunction, FoldFunctionOnSet, MapThenFoldSet, Added

\* What is left of a part of D without one of its elements.
LEMMA OneLess ==
  ASSUME NEW D, IsFiniteSet(D), NEW s \in SUBSET D, NEW y \in s
  PROVE  /\ s \ {y} \in SUBSET D
         /\ Cardinality(s \ {y}) = Cardinality(s) - 1 /\ Cardinality(s \ {y}) \in Nat
<1>1. IsFiniteSet(s)
  BY FS_Subset
<1>2. IsFiniteSet(s \ {y}) /\ Cardinality(s \ {y}) = Cardinality(s) - 1
  BY <1>1, FS_RemoveElement
<1>3. Cardinality(s \ {y}) \in Nat
  BY <1>2, FS_CardinalityType
<1>. QED
  BY <1>2, <1>3

\* g is right for the sets of at most k elements.
SumsTo(f, k, g) ==
  /\ g \in [SUBSET DOMAIN f -> Int]
  /\ \A s \in SUBSET DOMAIN f : Cardinality(s) <= k => g[s] = Added(f, g, s)

\* There is one such sum, by induction on the number of elements.
LEMMA SumExists ==
  ASSUME NEW f, IsFiniteSet(DOMAIN f), \A x \in DOMAIN f : f[x] \in Int
  PROVE  \E g : g \in [SUBSET DOMAIN f -> Int] /\ g = [s \in SUBSET DOMAIN f |-> Added(f, g, s)]
<1> DEFINE D == DOMAIN f
           T == {k \in Nat : ~\E g : SumsTo(f, k, g)}
<1>1. \A s \in SUBSET D : IsFiniteSet(s) /\ Cardinality(s) \in Nat /\ (Cardinality(s) = 0 <=> s = {})
  BY FS_Subset, FS_CardinalityType, FS_EmptySet
<1>2. \A s \in SUBSET D : s # {} =>
        /\ (CHOOSE x \in s : TRUE) \in s
        /\ s \ {CHOOSE x \in s : TRUE} \in SUBSET D
        /\ Cardinality(s \ {CHOOSE x \in s : TRUE}) = Cardinality(s) - 1
  BY <1>1, FS_RemoveElement
<1>3. T = {}
  <2> SUFFICES ASSUME T # {} PROVE FALSE
    OBVIOUS
  <2> HIDE DEF T
  <2>1. PICK k \in T : \A j \in T : k <= j
    <3>1. T \subseteq Nat
      BY DEF T
    <3> QED
      BY <3>1, LeastNumber
  <2>2. k \in Nat /\ ~\E g : SumsTo(f, k, g)
    BY DEF T
  <2>3. CASE k = 0
    <3> DEFINE g == [s \in SUBSET D |-> 0]
    <3>1. SumsTo(f, 0, g)
      <4>1. \A s \in SUBSET D : Cardinality(s) <= 0 => s = {}
        BY <1>1
      <4> QED
        BY <4>1 DEF SumsTo, Added
    <3> QED
      BY <2>2, <2>3, <3>1
  <2>4. CASE k # 0
    <3>1. k - 1 \in Nat /\ k - 1 \notin T
      BY <2>1, <2>2, <2>4
    <3>2. PICK g : SumsTo(f, k - 1, g)
      BY <3>1 DEF T
    <3> DEFINE h == [s \in SUBSET D |-> Added(f, g, s)]
    <3>3. \A s \in SUBSET D : Added(f, g, s) \in Int
      <4>1. \A s \in SUBSET D : s # {} => (CHOOSE x \in s : TRUE) \in D
        BY <1>2
      <4> QED
        BY <1>2, <3>2, <4>1 DEF SumsTo, Added
    <3>4. \A s \in SUBSET D : Cardinality(s) <= k - 1 => h[s] = g[s]
      BY <3>2 DEF SumsTo
    <3>5. ASSUME NEW s \in SUBSET D, Cardinality(s) <= k PROVE h[s] = Added(f, h, s)
      <4> DEFINE r == s \ {CHOOSE x \in s : TRUE}
      <4>1. h[s] = Added(f, g, s)
        OBVIOUS
      <4>2. ASSUME s # {} PROVE h[r] = g[r]
        <5>1. r \in SUBSET D /\ Cardinality(r) = Cardinality(s) - 1
          BY <1>2, <4>2
        <5>2. Cardinality(s) \in Nat /\ Cardinality(s) <= k
          BY <1>1, <3>5
        <5> HIDE DEF h, r
        <5>3. Cardinality(r) <= k - 1
          BY <2>2, <5>1, <5>2
        <5> QED
          BY <3>4, <5>1, <5>3
      <4> HIDE DEF h
      <4> QED
        BY <4>1, <4>2 DEF Added
    <3>6. SumsTo(f, k, h)
      <4>1. h \in [SUBSET D -> Int]
        BY <3>3
      <4> HIDE DEF h
      <4> QED
        BY <3>5, <4>1 DEF SumsTo
    <3> QED
      BY <2>2, <3>6
  <2> QED
    BY <2>3, <2>4
<1>4. PICK g : SumsTo(f, Cardinality(D), g)
  BY <1>1, <1>3
<1>5. \A s \in SUBSET D : Cardinality(s) <= Cardinality(D)
  BY FS_Subset
<1>6. g \in [SUBSET D -> Int] /\ \A s \in SUBSET D : g[s] = Added(f, g, s)
  BY <1>4, <1>5 DEF SumsTo
<1> HIDE DEF D
<1>7. g = [s \in SUBSET D |-> Added(f, g, s)]
  BY <1>6
<1> QED
  BY <1>6, <1>7 DEF D

\* All sums of integers are integers.
LEMMA SumTyped ==
  ASSUME NEW f, IsFiniteSet(DOMAIN f), \A x \in DOMAIN f : f[x] \in Int,
         NEW g, g = [s \in SUBSET DOMAIN f |-> Added(f, g, s)]
  PROVE  g \in [SUBSET DOMAIN f -> Int]
<1> DEFINE D == DOMAIN f
           T == {k \in Nat : \E s \in SUBSET D : Cardinality(s) = k /\ g[s] \notin Int}
<1>1. \A s \in SUBSET D : g[s] = Added(f, g, s)
  OBVIOUS
<1>2. T = {}
  <2> SUFFICES ASSUME T # {} PROVE FALSE
    OBVIOUS
  <2>1. T \subseteq Nat
    OBVIOUS
  <2>2. PICK k \in T : \A j \in T : k <= j
    <3> HIDE DEF T
    <3> QED
      BY <2>1, LeastNumber
  <2>3. PICK s \in SUBSET D : Cardinality(s) = k /\ g[s] \notin Int
    OBVIOUS
  <2>4. s # {}
    BY <1>1, <2>3 DEF Added
  <2> DEFINE y == CHOOSE y \in s : TRUE
             r == s \ {y}
  <2>5. y \in s /\ y \in D /\ r \in SUBSET D
    BY <2>4
  <2>6. Cardinality(r) = k - 1 /\ Cardinality(r) \in Nat
    <3> HIDE DEF T, y
    <3> QED
      BY <2>3, <2>5, OneLess
  <2>7. g[s] = f[y] + g[r]
    BY <1>1, <2>4 DEF Added
  <2>8. k - 1 \notin T
    <3> HIDE DEF T
    <3> QED
      BY <2>1, <2>2, <2>6
  <2>9. g[r] \in Int /\ f[y] \in Int
    BY <2>5, <2>6, <2>8
  <2> HIDE DEF y, r
  <2> QED
    BY <2>3, <2>7, <2>9
<1>3. \A s \in SUBSET D : Cardinality(s) \in Nat
  BY FS_Subset, FS_CardinalityType
<1>4. \A s \in SUBSET D : g[s] \in Int
  BY <1>2, <1>3
<1> QED
  BY <1>4

\* The sum takes the sums of the smaller sets together.
LEMMA SumHas ==
  ASSUME NEW f, IsFiniteSet(DOMAIN f), \A x \in DOMAIN f : f[x] \in Int
  PROVE  \E g : /\ g \in [SUBSET DOMAIN f -> Int] /\ Total(f) = g[DOMAIN f]
                /\ \A s \in SUBSET DOMAIN f : g[s] = Added(f, g, s)
<1> DEFINE g == CHOOSE g : g = [s \in SUBSET DOMAIN f |-> Added(f, g, s)]
<1>1. Total(f) = g[DOMAIN f]
  BY SumIs
<1>2. \E e : e \in [SUBSET DOMAIN f -> Int] /\ e = [s \in SUBSET DOMAIN f |-> Added(f, e, s)]
  BY SumExists
<1>3. g = [s \in SUBSET DOMAIN f |-> Added(f, g, s)]
  BY <1>2
<1> HIDE DEF g
<1>4. \A s \in SUBSET DOMAIN f : g[s] = Added(f, g, s)
  BY <1>3
<1>5. g \in [SUBSET DOMAIN f -> Int]
  BY <1>3, SumTyped
<1> QED
  BY <1>1, <1>4, <1>5

\* The sum is a number, and a change of one summand changes the sum by as much.
LEMMA SumChanges ==
  ASSUME NEW D, IsFiniteSet(D), NEW f \in [D -> Int], NEW t \in D, NEW x \in Int
  PROVE  /\ Total(f) \in Int
         /\ Total([f EXCEPT ![t] = x]) = Total(f) - f[t] + x
<1> DEFINE f2 == [f EXCEPT ![t] = x]
<1>0. DOMAIN f = D /\ f2 \in [D -> Int] /\ DOMAIN f2 = D
  OBVIOUS
<1>1. PICK g : /\ g \in [SUBSET D -> Int] /\ Total(f) = g[D]
               /\ \A s \in SUBSET D : g[s] = Added(f, g, s)
  BY <1>0, SumHas
<1>2. PICK g2 : /\ g2 \in [SUBSET D -> Int] /\ Total(f2) = g2[D]
                /\ \A s \in SUBSET D : g2[s] = Added(f2, g2, s)
  <2> HIDE DEF f2
  <2> QED
    BY <1>0, SumHas
<1> DEFINE More(s) == IF t \in s THEN x - f[t] ELSE 0
           T == {k \in Nat : \E s \in SUBSET D : Cardinality(s) = k /\ g2[s] # g[s] + More(s)}
<1>3. T = {}
  <2> SUFFICES ASSUME T # {} PROVE FALSE
    OBVIOUS
  <2>1. T \subseteq Nat
    OBVIOUS
  <2>2. PICK k \in T : \A j \in T : k <= j
    <3> HIDE DEF T
    <3> QED
      BY <2>1, LeastNumber
  <2>3. PICK s \in SUBSET D : Cardinality(s) = k /\ g2[s] # g[s] + More(s)
    OBVIOUS
  <2>4. s # {}
    BY <1>1, <1>2, <2>3 DEF Added
  <2> DEFINE y == CHOOSE y \in s : TRUE
             r == s \ {y}
  <2>5. y \in s /\ y \in D /\ r \in SUBSET D
    BY <2>4
  <2>6. Cardinality(r) = k - 1 /\ Cardinality(r) \in Nat
    <3> HIDE DEF T, y
    <3> QED
      BY <2>3, <2>5, OneLess
  <2>7. g[s] = f[y] + g[r] /\ g2[s] = f2[y] + g2[r]
    BY <1>1, <1>2, <2>4 DEF Added
  <2>8. g2[r] = g[r] + More(r)
    <3>1. k - 1 \notin T
      <4> HIDE DEF T
      <4> QED
        BY <2>1, <2>2, <2>6
    <3> QED
      BY <2>5, <2>6, <3>1
  <2>9. f2[y] = IF y = t THEN x ELSE f[y]
    BY <2>5
  <2>10. t \in r <=> t \in s /\ t # y
    BY <2>5
  <2>11. g[r] \in Int /\ g2[r] \in Int /\ f[y] \in Int /\ f[t] \in Int
    BY <1>1, <1>2, <2>5
  <2> HIDE DEF f2, y, r
  <2> QED
    BY <2>3, <2>5, <2>7, <2>8, <2>9, <2>10, <2>11
<1>4. Cardinality(D) \in Nat /\ D \in SUBSET D
  BY FS_CardinalityType
<1>5. g2[D] = g[D] + More(D)
  BY <1>3, <1>4
<1> QED
  BY <1>1, <1>2, <1>4, <1>5

-----------------------------------------------------------------------------
(* The first claims *)

\* Some worker has claimed state n itself.
HasBits(n) == uf[n].workers # {}

\* In a set of several states all have been claimed.
Together == \A m, n \in Node : m # n /\ Root[m] = Root[n] => HasBits(m)

\* What a worker may push on its roots or unite: a claimed state or a completed one.
Occupied(n) == n \in Node /\ (HasBits(n) \/ Dead(n))

\* make_claim has set the bit.
AfterOr(t) == pc[t] \in {"claim_check", "claim_again"} \/ Awaits(t, "claim_again")
Got(t)     == AfterOr(t) \/ ret[t].code \in Claims

\* Where a worker has its answer from make_claim, the state it is about has bits.
FirstKnown(t) ==
  /\ loc[t].first => AfterOr(t)
  /\ ret[t].code \in Claims => pc[t] \in ClaimHomes
  /\ Got(t) => HasBits(Target(t))

\* All that a worker stacks or unites has been claimed.
RootsOccupied(t) ==
  /\ \A a \in 1 .. Len(tls[t].roots) : Occupied(tls[t].roots[a])
  /\ Uniting(t) => Occupied(loc[t].unite.a) /\ Occupied(loc[t].unite.b)

\* What the count rests on, inductive beside Search.
CountKnown == Together /\ \A t \in Worker : FirstKnown(t) /\ RootsOccupied(t)

\* A worker that holds a first claim not yet counted.
Holds(t) == loc[t].first \/ ret[t].code = "CLAIM_FIRST"

\* Only make_claim changes first and answers with a claim.
LEMMA FirstRests ==
  ASSUME Search, NEW w \in Worker, UFStep(w), ~ClaimOr(w), ~ClaimCheck(w)
  PROVE  /\ loc'[w].first = loc[w].first
         /\ ret'[w].code \in Claims => ret'[w] = ret[w]
<1>1. /\ loc \in [Worker -> Locals] /\ loc[w] \in Locals
      /\ ret \in [Worker -> [code : Codes, node : Slot]]
  BY SearchBase DEF Typed, LocTyped, ControlTyped
<1> DEFINE Same == loc'[w].first = loc[w].first
           Quit == ret'[w].code \in Claims => ret'[w] = ret[w]
<1>2. UNCHANGED loc => Same
  OBVIOUS
<1>3. ASSUME NEW x, \/ loc' = [loc EXCEPT ![w].pick = x] \/ loc' = [loc EXCEPT ![w].same = x]
                    \/ loc' = [loc EXCEPT ![w].unite = x] PROVE Same
  BY <1>1, <1>3 DEF Locals
<1>4. ASSUME NEW x, \/ loc' = [loc EXCEPT ![w].same.a = x] \/ loc' = [loc EXCEPT ![w].same.b = x]
                    \/ loc' = [loc EXCEPT ![w].pick.b = x] \/ loc' = [loc EXCEPT ![w].pick.c = x] PROVE Same
  BY <1>1, <1>4 DEF Locals, Sames, Picks
<1>5. ASSUME NEW x, \/ loc' = [loc EXCEPT ![w].unite.ar = x] \/ loc' = [loc EXCEPT ![w].unite.bl = x]
                    \/ loc' = [loc EXCEPT ![w].unite.qw = x] \/ loc' = [loc EXCEPT ![w].unite.up = x] PROVE Same
  BY <1>1, <1>5 DEF Locals, Unites
<1>6. ASSUME NEW x, NEW y, loc' = [loc EXCEPT ![w] = [@ EXCEPT !.unite.al = x, !.pick.a = y]] PROVE Same
  BY <1>1, <1>6 DEF Locals, Unites, Picks
<1>7. \A label : Goto(w, label) => Quit
  BY DEF Goto
<1>8. \A label : Resume(w, label) => Quit
  BY <1>1 DEF Resume, NoRet, Claims
<1>9. \A label, backs : Call(w, label, backs) => Quit
  BY <1>1 DEF Call, NoRet, Claims
<1>10. \A code, node : Return(w, code, node) /\ code \notin Claims => Quit
  BY <1>1 DEF Return, Claims
<1>11. CASE FindRead(w) \/ FindCompress(w)
  <2>1. UNCHANGED loc
    BY <1>11 DEF FindRead, FindCompress
  <2>2. ret' = ret \/ \E node : \/ Return(w, "find", node)
                               \/ ret' = [ret EXCEPT ![w] = [code |-> "find", node |-> node]]
    <3>1. CASE FindRead(w)
      BY <3>1 DEF FindRead, control
    <3>2. CASE FindCompress(w)
      BY <3>2 DEF FindCompress, control
    <3>. QED
      BY <1>11, <3>1, <3>2
  <2>3. Quit
    <3>1. CASE ret' = ret
      BY <3>1
    <3>2. ASSUME NEW node, Return(w, "find", node) PROVE Quit
      BY <1>10, <3>2 DEF Claims
    <3>3. ASSUME NEW node, ret' = [ret EXCEPT ![w] = [code |-> "find", node |-> node]] PROVE Quit
      BY <1>1, <3>3 DEF Claims
    <3>. QED
      BY <2>2, <3>1, <3>2, <3>3
  <2>. QED
    BY <1>2, <2>1, <2>3
<1>12. CASE ClaimDead(w) \/ ClaimFound(w)
  <2>1. UNCHANGED loc
    BY <1>12 DEF ClaimDead, ClaimFound
  <2>2. Quit
    BY <1>7, <1>10, <1>12 DEF ClaimDead, ClaimFound, Claims
  <2>. QED
    BY <1>2, <2>1, <2>2
<1>13. CASE SameB(w) \/ SameA(w) \/ SameRetry(w)
  <2>1. Same
    BY <1>2, <1>3, <1>4, <1>13 DEF SameB, SameA, SameRetry, SameReturn
  <2>2. Quit
    BY <1>8, <1>9, <1>10, <1>13 DEF SameB, SameA, SameRetry, SameReturn, CallFind, Claims
  <2>. QED
    BY <2>1, <2>2
<1>14. CASE PickA(w) \/ PickNext(w) \/ PickB(w) \/ PickC(w) \/ PickCompare(w) \/ PickWrite(w) \/ MarkDead(w)
  <2>1. Same
    BY <1>2, <1>3, <1>4, <1>14 DEF PickA, PickNext, PickB, PickC, PickCompare, PickWrite, MarkDead, PickReturn, ContinueFromC
  <2>2. Quit
    BY <1>7, <1>9, <1>10, <1>14
       DEF PickA, PickNext, PickB, PickC, PickCompare, PickWrite, MarkDead, PickReturn, ContinueFromC, CallFind, Claims
  <2>. QED
    BY <2>1, <2>2
<1>15. CASE Remove(w) \/ RemoveColor(w)
  <2>1. Same
    BY <1>2, <1>3, <1>15 DEF Remove, RemoveColor, PickReturn
  <2>2. Quit
    BY <1>7, <1>10, <1>15 DEF Remove, RemoveColor, PickReturn, Claims
  <2>. QED
    BY <2>1, <2>2
<1>16. CASE UniteFindB(w) \/ UniteRoots(w) \/ LockUf(w) \/ LockUfCheck(w) \/ LockUfUndo(w)
  <2>1. Same
    BY <1>2, <1>3, <1>5, <1>16 DEF UniteFindB, UniteRoots, LockUf, LockUfCheck, LockUfUndo, UniteReturn, UniteRetry, CallPick
  <2>2. Quit
    BY <1>7, <1>8, <1>9, <1>10, <1>16
       DEF UniteFindB, UniteRoots, LockUf, LockUfCheck, LockUfUndo, UniteReturn, UniteRetry, CallPick, CallFind, Claims
  <2>. QED
    BY <2>1, <2>2
<1>17. CASE LockListA(w) \/ LockListB(w)
  <2>1. Same
    BY <1>3, <1>5, <1>6, <1>17 DEF LockListA, LockListB, UniteReturn, CallPick
  <2>2. Quit
    BY <1>8, <1>9, <1>10, <1>17 DEF LockListA, LockListB, UniteReturn, CallPick, Claims
  <2>. QED
    BY <2>1, <2>2
<1>18. CASE SwapLists(w) \/ SetParent(w) \/ ReadQw(w) \/ CompareRw(w) \/ AddQw(w) \/ CheckR(w) \/ FoundR(w)
  <2>1. Same
    BY <1>2, <1>5, <1>18 DEF SwapLists, SetParent, ReadQw, CompareRw, AddQw, CheckR, FoundR
  <2>2. Quit
    BY <1>7, <1>8, <1>9, <1>18 DEF SwapLists, SetParent, ReadQw, CompareRw, AddQw, CheckR, FoundR, CallFind
  <2>. QED
    BY <2>1, <2>2
<1>19. CASE UnlockListA(w) \/ UnlockListB(w) \/ UnlockUf(w)
  <2>1. Same
    BY <1>2, <1>3, <1>19 DEF UnlockListA, UnlockListB, UnlockUf, UniteReturn
  <2>2. Quit
    BY <1>7, <1>10, <1>19 DEF UnlockListA, UnlockListB, UnlockUf, UniteReturn, Claims
  <2>. QED
    BY <2>1, <2>2
<1>. QED
  BY <1>11, <1>12, <1>13, <1>14, <1>15, <1>16, <1>17, <1>18, <1>19 DEF UFStep

\* What make_claim holds after a step of it, and what all others hold.
LEMMA OwnHolds ==
  ASSUME Search, NEW w \in Worker, UFStep(w), FirstKnown(w)
  PROVE  /\ loc'[w].first => AfterOr(w)'
         /\ ret'[w].code \in Claims => pc'[w] \in ClaimHomes
         /\ Got(w)' => Got(w) \/ ClaimOr(w)
         /\ pc[w] = "claim_or" => ~Holds(w) /\ (Holds(w)' <=> Unclaimed(w, ret[w].node))
         /\ pc[w] # "claim_or" => (Holds(w)' <=> Holds(w))
<1>1. /\ SetsInv(Callers) /\ Typed(Callers) /\ Outside(Callers) /\ loc \in [Worker -> Locals]
      /\ ret \in [Worker -> [code : Codes, node : Slot]] /\ pc \in [Worker -> Labels \cup Callers]
  BY SearchBase DEF SetsInv, Typed, LocTyped, ControlTyped
<1>2. pc[w] \in Labels /\ pc[w] # Home(w) /\ InCall(w, Callers)
  BY OwnHome
<1>3. ret[w].code \notin Claims
  BY <1>1, <1>2 DEF FirstKnown, ClaimHomes, Outside, Callers
<1>4. CASE ClaimOr(w)
  <2>1. pc[w] \in {"claim_or", "claim_again"} /\ pc'[w] = "claim_check" /\ ret' = ret
    BY <1>1, <1>4 DEF ClaimOr, Goto
  <2>2. loc'[w].first = IF pc[w] = "claim_or" THEN Unclaimed(w, ret[w].node) ELSE loc[w].first
    BY <1>1, <1>4 DEF ClaimOr, Locals
  <2>3. pc[w] = "claim_or" => ~AfterOr(w)
    <3>1. ASSUME pc[w] = "claim_or" PROVE pc[w] \notin FindLabels \cup PickLabels
      BY <3>1 DEF FindLabels, PickLabels
    <3>. QED
      BY <1>1, <1>2, <3>1, AwaitsNone DEF AfterOr
  <2>4. pc[w] = "claim_or" => ~Holds(w)
    BY <1>3, <2>3 DEF FirstKnown, Holds, Claims
  <2>. QED
    BY <1>3, <1>4, <2>1, <2>2, <2>4 DEF AfterOr, Holds, Claims
<1>5. CASE ClaimCheck(w)
  <2>1. pc[w] = "claim_check" /\ pc[w] \in ClaimLabels /\ pc[w] \notin FindLabels \cup PickLabels /\ Got(w)
    BY <1>5 DEF ClaimCheck, ClaimLabels, FindLabels, PickLabels, Got, AfterOr
  <2>2. Home(w) \in ClaimHomes /\ ret[w].node \in Slot
    BY <1>1, <2>1, ClaimNode, PlaceTyped
  <2>3. CASE uf[ret[w].node].parent # 0
    <3>1. CallFind(w, ret[w].node, <<"claim_again">>) /\ UNCHANGED loc
      BY <1>5, <2>3 DEF ClaimCheck
    <3>2. Awaits(w, "claim_again")'
      BY <2>1, <2>2, <3>1, StepMoves DEF FindBacks
    <3>3. ret'[w].code \notin Claims
      BY <1>1, <3>1 DEF CallFind, Call, NoRet, Claims
    <3>. QED
      BY <1>3, <2>1, <3>1, <3>2, <3>3 DEF AfterOr, Holds, Claims
  <2>4. CASE uf[ret[w].node].parent = 0
    <3>1. PICK code \in Claims : Return(w, code, 0) /\ code = IF loc[w].first THEN "CLAIM_FIRST" ELSE "CLAIM_SUCCESS"
      BY <1>5, <2>4 DEF ClaimCheck, Claims
    <3>2. pc'[w] = Home(w) /\ ret'[w].code = code
      BY <2>1, <3>1, StepReturns
    <3>3. ~loc'[w].first
      BY <1>1, <1>5, <2>4 DEF ClaimCheck, Locals
    <3>. QED
      BY <1>3, <2>1, <2>2, <3>1, <3>2, <3>3 DEF Holds, Claims
  <2>. QED
    BY <2>3, <2>4
<1>6. CASE ~ClaimOr(w) /\ ~ClaimCheck(w)
  <2>1. loc'[w].first = loc[w].first /\ ret'[w].code \notin Claims
    BY <1>3, <1>6, FirstRests
  <2>2. Holds(w)' <=> Holds(w)
    BY <1>3, <2>1 DEF Holds, Claims
  <2>3. pc[w] # "claim_or"
    <3>1. pc[w] \in ClaimLabels => pc[w] \in {"claim_dead", "claim_found"}
      BY <1>6, StepIs DEF ClaimDead, ClaimFound
    <3>. QED
      BY <3>1 DEF ClaimLabels
  <2>4. AfterOr(w) => AfterOr(w)'
    <3>1. pc[w] \notin {"claim_check", "claim_again"}
      <4>1. pc[w] \in ClaimLabels => pc[w] \in {"claim_dead", "claim_found"}
        BY <1>6, StepIs DEF ClaimDead, ClaimFound
      <4>. QED
        BY <4>1 DEF ClaimLabels
    <3>2. ASSUME Awaits(w, "claim_again") PROVE AfterOr(w)'
      <4>1. pc[w] \in FindLabels /\ \A l : Awaits(w, l) => l = "claim_again"
        BY <1>1, <3>2, AwaitsOne DEF FindBacks
      <4>2. \/ \A l : Awaits(w, l)' <=> Awaits(w, l)
            \/ Ended(w)
        BY <4>1, FindGoes
      <4>3. Ended(w) => pc'[w] = "claim_again"
        BY <3>2, <4>1 DEF Ended, ListLabels
      <4>. QED
        BY <3>2, <4>2, <4>3 DEF AfterOr
    <3>. QED
      BY <3>1, <3>2 DEF AfterOr
  <2>5. AfterOr(w)' => AfterOr(w)
    <3>1. CASE FindRead(w) \/ FindCompress(w)
      <4>1. pc[w] \in FindLabels
        BY <3>1 DEF FindRead, FindCompress, FindLabels
      <4>2. CASE Ended(w)
        <5>1. CASE Awaits(w, pc'[w]) /\ \A l : ~Awaits(w, l)'
          <6>1. \A l : Awaits(w, l) => l \in FindBacks \cup ListLabels \cup {"mark_dead"}
            BY <1>2 DEF InCall, Awaits
          <6>2. pc'[w] # "claim_check"
            BY <5>1, <6>1 DEF FindBacks, ListLabels
          <6>. QED
            BY <5>1, <6>2 DEF AfterOr
        <5>2. CASE pc'[w] = Home(w)' /\ \A l : ~Awaits(w, l)'
          <6>1. pc'[w] \in Callers
            BY <1>1, <5>2, OwnHome, HomeCalls
          <6>. QED
            BY <5>2, <6>1 DEF AfterOr, Callers
        <5>3. CASE pc'[w] = "mark_dead" /\ \A l : Awaits(w, l)' <=> Awaits(w, l)
          BY <5>3 DEF AfterOr
        <5>. QED
          BY <4>2, <5>1, <5>2, <5>3 DEF Ended
      <4>3. CASE pc'[w] \in FindLabels /\ \A l : Awaits(w, l)' <=> Awaits(w, l)
        BY <4>3 DEF AfterOr, FindLabels
      <4>. QED
        BY <4>1, <4>2, <4>3, FindGoes
    <3>2. CASE SetParent(w) \/ ReadQw(w) \/ CompareRw(w) \/ AddQw(w) \/ FoundR(w)
      <4>1. /\ pc[w] \notin FindLabels \cup PickLabels
            /\ \E l \in {"read_qw", "compare_rw", "add_qw", "check_r", "unlock_a"} : Goto(w, l) \/ Resume(w, l)
        BY <3>2 DEF SetParent, ReadQw, CompareRw, AddQw, FoundR, FindLabels, PickLabels
      <4>2. {"read_qw", "compare_rw", "add_qw", "check_r", "unlock_a"} \subseteq Labels \ FindLabels
        BY DEF Labels, FindLabels
      <4>3. pc'[w] \in {"read_qw", "compare_rw", "add_qw", "check_r", "unlock_a"} /\ \A l : ~Awaits(w, l)'
        BY <4>1, <4>2, StepMoves
      <4>. QED
        BY <4>3 DEF AfterOr
    <3>3. CASE CheckR(w)
      <4>1. pc[w] = "check_r" /\ pc[w] \notin FindLabels \cup PickLabels
        BY <3>3 DEF CheckR, FindLabels, PickLabels
      <4>2. CASE Goto(w, "unlock_a")
        <5>1. pc'[w] = "unlock_a" /\ \A l : ~Awaits(w, l)'
          BY <4>1, <4>2, StepMoves DEF Labels, FindLabels
        <5>. QED
          BY <5>1 DEF AfterOr
      <4>3. CASE CallFind(w, loc[w].unite.up, <<"found_r">>)
        <5>1. loc[w].unite.up \in Slot /\ "found_r" \in FindBacks
          BY <1>1, LocalsTyped DEF LocTyped, FindBacks
        <5>2. pc'[w] = "find" /\ \A l : Awaits(w, l)' <=> l = "found_r"
          BY <4>1, <4>3, <5>1, StepMoves
        <5>. QED
          BY <5>2 DEF AfterOr
      <4>. QED
        BY <3>3, <4>2, <4>3 DEF CheckR
    <3>4. CASE ~(FindRead(w) \/ FindCompress(w) \/ SetParent(w) \/ ReadQw(w) \/ CompareRw(w) \/ AddQw(w)
                   \/ CheckR(w) \/ FoundR(w))
      <4>1. ~Carrying(w)'
        BY <1>1, <1>2, <1>6, <3>4, NotCarrying
      <4>. QED
        BY <4>1 DEF AfterOr, Carrying, CarryLabels
    <3>. QED
      BY <3>1, <3>2, <3>3, <3>4
  <2>. QED
    BY <2>1, <2>2, <2>3, <2>4, <2>5 DEF FirstKnown, Got
<1>. QED
  BY <1>4, <1>5, <1>6

\* Only the first claim of a state gives it its first bit.
LEMMA BitsGained ==
  ASSUME Search, CountKnown, NEW w \in Worker, UFStep(w)
  PROVE  /\ \A n \in Slot : HasBits(n) => HasBits(n)'
         /\ \A n \in Node : HasBits(n)' => HasBits(n) \/ (pc[w] = "claim_or" /\ n = ret[w].node)
         /\ pc[w] \in {"claim_or", "claim_again"} => ret[w].node \in Node /\ HasBits(ret[w].node)'
<1>1. Typed(Callers) /\ SetsInv(Callers) /\ Calls(w)
  BY SearchBase
<1>2. /\ \A s \in Slot : uf[s].workers \subseteq uf'[s].workers
      /\ ClaimOr(w) \/ AddQw(w) \/ \A s \in Slot : uf'[s].workers = uf[s].workers
      /\ ClaimOr(w) => \A s \in Slot : uf'[s].workers = IF s = ret[w].node THEN uf[s].workers \cup w_id(w)
                                                                         ELSE uf[s].workers
      /\ AddQw(w) => \A s \in Slot : uf'[s].workers = IF s = loc[w].unite.up
                                                      THEN uf[s].workers \cup loc[w].unite.qw
                                                      ELSE uf[s].workers
  BY <1>1, WorkersGrow
<1>3. Node \subseteq Slot
  BY DEF Node, Slot
<1>4. ASSUME NEW m \in Node, NEW n \in Node, Root[m] = Root[n], HasBits(m) PROVE HasBits(n)
  BY <1>4 DEF CountKnown, Together
<1>5. ASSUME pc[w] \in {"claim_or", "claim_again"}
      PROVE  /\ ClaimOr(w) /\ ret[w].node \in Node /\ HasBits(ret[w].node)'
             /\ pc[w] = "claim_again" => HasBits(ret[w].node)
  <2>1. pc[w] \in ClaimLabels
    BY <1>5 DEF ClaimLabels
  <2>2. /\ ret[w].node \in Node /\ Root[ret[w].node] = Root[Target(w)] /\ Target(w) \in Node
    BY <2>1, ClaimNode
  <2>3. ClaimOr(w)
    BY <1>5, <2>1, StepIs DEF ClaimDead, ClaimFound, ClaimCheck
  <2>4. uf'[ret[w].node].workers = uf[ret[w].node].workers \cup w_id(w)
    BY <1>2, <1>3, <2>2, <2>3
  <2>5. w_id(w) # {}
    BY DEF w_id
  <2>6. HasBits(ret[w].node)'
    <3>1. ret'[w] = ret[w]
      BY <2>3 DEF ClaimOr, Goto
    <3>. QED
      BY <2>4, <2>5, <3>1 DEF HasBits
  <2>7. pc[w] = "claim_again" => HasBits(ret[w].node)
    <3>1. pc[w] = "claim_again" => HasBits(Target(w))
      BY DEF CountKnown, FirstKnown, Got, AfterOr
    <3>. QED
      BY <1>4, <2>2, <3>1
  <2>. QED
    BY <2>2, <2>3, <2>6, <2>7
<1>6. CASE ClaimOr(w)
  <2>1. pc[w] \in {"claim_or", "claim_again"}
    BY <1>6 DEF ClaimOr
  <2>2. \A n \in Node : HasBits(n)' => HasBits(n) \/ n = ret[w].node
    BY <1>2, <1>3, <1>6 DEF HasBits
  <2>. QED
    BY <1>2, <1>5, <2>1, <2>2 DEF HasBits
<1>7. CASE AddQw(w)
  <2>1. pc[w] = "add_qw"
    BY <1>7 DEF AddQw
  <2>2. Busy(w) /\ Region(w) /\ Adding(w)
    BY <2>1 DEF Busy, Region, RegionLabels, Adding, AddingLabels
  <2>3. /\ loc[w].unite.qw \subseteq uf[loc[w].unite.q].workers
        /\ Root[loc[w].unite.up] = Root[loc[w].unite.q]
    BY <1>1, <2>1, <2>2, BusyRuns DEF UniteKnown
  <2>4. loc[w].unite.q \in Node /\ loc[w].unite.up \in Node
    BY <2>1, <2>2, UniteNodes
  <2>5. loc[w].unite.qw # {} => HasBits(loc[w].unite.up)
    BY <1>4, <2>3, <2>4 DEF HasBits
  <2>6. \A n \in Node : HasBits(n)' => HasBits(n)
    BY <1>2, <1>3, <1>7, <2>5 DEF HasBits
  <2>. QED
    BY <1>2, <2>1, <2>6 DEF HasBits
<1>8. CASE \A s \in Slot : uf'[s].workers = uf[s].workers
  <2>1. \A n \in Slot : HasBits(n)' <=> HasBits(n)
    BY <1>8 DEF HasBits
  <2>. QED
    BY <1>3, <1>5, <2>1
<1>. QED
  BY <1>2, <1>6, <1>7, <1>8

\* A union joins two states that have been claimed.
LEMMA StepTogether ==
  ASSUME Search, CountKnown, NEW w \in Worker, UFStep(w), UNCHANGED <<G, tls>>
  PROVE  Together'
<1>1. /\ SetsInv(Callers) /\ Typed(Callers) /\ Upward /\ QRoot(w) /\ UniteSets(w)
  BY SearchBase DEF SetsInv, Knows
<1>2. Node \subseteq Slot
  BY DEF Node, Slot
<1>3. \A n \in Node : HasBits(n) => HasBits(n)'
  BY <1>2, BitsGained
<1>4. CASE ~SetParent(w)
  <2>1. Root' = Root
    BY <1>4, DeadTo
  <2>. QED
    BY <1>3, <2>1 DEF CountKnown, Together
<1>5. CASE SetParent(w)
  <2> DEFINE q == loc[w].unite.q
             r == loc[w].unite.r
             a == loc[w].unite.a
             b == loc[w].unite.b
  <2>1. /\ q \in Node /\ r \in Slot /\ q < r /\ Root[q] = q /\ Root[r] # q
        /\ a \in Node /\ b \in Node
        /\ (q = Root[a] /\ Root[r] = Root[b]) \/ (q = Root[b] /\ Root[r] = Root[a])
        /\ uf[q].uf_status # DEAD /\ uf[Root[r]].uf_status # DEAD
    BY <1>5, LinkFacts
  <2>2. SetsInv(Callers)' /\ Typed(Callers)' /\ Upward'
    BY OwnHome DEF SetsInv
  <2>3. \A n \in Slot : Root'[n] = IF Root[n] = q THEN Root[r] ELSE Root[n]
    BY <1>1, <1>5, <2>2, LinkKept
  <2>4. Uniting(w)
    <3>1. Busy(w)
      BY <1>5 DEF SetParent, Busy, Region, RegionLabels
    <3>. QED
      BY <3>1, OwnWider
  <2>5. HasBits(a) /\ HasBits(b)
    BY <2>1, <2>4 DEF CountKnown, RootsOccupied, Occupied, Dead
  <2>6. ASSUME NEW n \in Node, Root[n] \in {Root[a], Root[b]} PROVE HasBits(n)
    BY <2>1, <2>5, <2>6 DEF CountKnown, Together
  <2>7. ASSUME NEW m \in Node, NEW n \in Node, m # n, Root'[m] = Root'[n] PROVE HasBits(m)
    <3>1. CASE Root[m] = Root[n]
      BY <2>7, <3>1 DEF CountKnown, Together
    <3>2. CASE Root[m] # Root[n]
      <4>1. Root[m] \in {q, Root[r]}
        BY <1>2, <2>3, <2>7, <3>2
      <4>. QED
        BY <2>1, <2>6, <4>1
    <3>. QED
      BY <3>1, <3>2
  <2>. QED
    BY <1>3, <2>7 DEF Together
<1>. QED
  BY <1>4, <1>5

\* A state keeps its bits and stays in a completed set.
LEMMA OccupiedGrows ==
  ASSUME Grows, NEW n, Occupied(n)
  PROVE  Occupied(n)'
<1>1. n \in Node /\ n \in Slot
  BY DEF Occupied, Node, Slot
<1>2. HasBits(n) => HasBits(n)'
  BY <1>1 DEF Grows, HasBits
<1>. QED
  BY <1>1, <1>2 DEF Occupied, Grows

\* The steps of the union-find keep what the count rests on.
LEMMA StepCountKnown ==
  ASSUME Search, CountKnown, NEW w \in Worker, UFStep(w), UNCHANGED <<G, tls>>
  PROVE  CountKnown'
<1>1. /\ SetsInv(Callers) /\ Typed(Callers) /\ OwnTyped
  BY SearchBase
<1>2. Grows /\ Alone(w) /\ Coarser
  BY <1>1, StepSets, UFStepAlone DEF Grows
<1>3. ASSUME NEW t \in Worker \ {w} PROVE FirstKnown(t)' /\ RootsOccupied(t)'
  <2>1. Still(t)
    BY <1>2 DEF Still, Alone, OthersKept
  <2>2. Home(t)' = Home(t) /\ \A l : Awaits(t, l)' <=> Awaits(t, l)
    BY <2>1, StillHome
  <2>3. Target(t)' = Target(t)
    BY <2>1, <2>2, SameTarget DEF Still
  <2>4. Got(t)' <=> Got(t)
    BY <2>1, <2>2 DEF Got, AfterOr, Still
  <2>5. Target(t) \in Slot
    BY <1>1, TlsTyped DEF Target
  <2>6. HasBits(Target(t)) => HasBits(Target(t))'
    BY <2>3, <2>5, BitsGained
  <2>7. FirstKnown(t)'
    BY <2>1, <2>2, <2>4, <2>6 DEF CountKnown, FirstKnown, Still, AfterOr
  <2>8. RootsOccupied(t)'
    <3>1. Uniting(t)' <=> Uniting(t)
      BY <2>1, <2>2 DEF Uniting, Still
    <3>. QED
      BY <1>2, <2>1, <3>1, OccupiedGrows DEF CountKnown, RootsOccupied, Still
  <2>. QED
    BY <2>7, <2>8
<1>4. FirstKnown(w)'
  <2>1. Home(w)' = Home(w) /\ Target(w)' = Target(w)
    BY OwnHome, SameTarget
  <2>2. Target(w) \in Slot
    BY <1>1, TlsTyped DEF Target
  <2>3. /\ loc'[w].first => AfterOr(w)'
        /\ ret'[w].code \in Claims => pc'[w] \in ClaimHomes
        /\ Got(w)' => Got(w) \/ ClaimOr(w)
    BY OwnHolds DEF CountKnown
  <2>4. Got(w) => HasBits(Target(w))'
    BY <2>1, <2>2, BitsGained DEF CountKnown, FirstKnown
  <2>5. ASSUME ClaimOr(w) PROVE HasBits(Target(w))'
    <3>1. pc[w] \in {"claim_or", "claim_again"} /\ pc[w] \in ClaimLabels /\ ret'[w] = ret[w]
      BY <2>5 DEF ClaimOr, ClaimLabels, Goto
    <3>2. ret[w].node \in Node /\ HasBits(ret[w].node)'
      BY <3>1, BitsGained
    <3>3. Root[ret[w].node] = Root[Target(w)] /\ Target(w) \in Node
      BY <3>1, ClaimNode
    <3>4. ret[w].node # Target(w) => HasBits(Target(w))
      BY <3>2, <3>3 DEF CountKnown, Together
    <3>. QED
      BY <2>1, <2>2, <3>1, <3>2, <3>4, BitsGained DEF HasBits
  <2>. QED
    BY <2>3, <2>4, <2>5 DEF FirstKnown
<1>5. RootsOccupied(w)'
  <2>1. ASSUME Uniting(w)'
        PROVE  /\ Uniting(w) /\ loc'[w].unite.a = loc[w].unite.a /\ loc'[w].unite.b = loc[w].unite.b
    <3>1. Busy(w)' /\ Busy(w) /\ Uniting(w)
      BY <1>1, <2>1, OwnWider, UFStepBusy
    <3>2. stack'[w] # <<>>
      BY <1>1, <3>1, OwnHome, BusyStackNext DEF SetsInv
    <3>. QED
      BY <1>1, <3>1, <3>2, UniteGoes
  <2>. QED
    BY <1>2, <2>1, OccupiedGrows DEF CountKnown, RootsOccupied
<1>. QED
  BY <1>3, <1>4, <1>5, StepTogether DEF CountKnown

\* A call other than that of unite leads to its return label and holds no union.
LEMMA LeavesTo ==
  ASSUME Search, NEW t \in Worker, pc[t] \in Callers, NEW label \in Callers \ {"united"}, NEW s \in Slot, NEW s2 \in Slot,
         \/ Goto(t, label) \/ Resume(t, label) \/ CallFind(t, s, <<label>>) \/ CallClaim(t, s, label)
         \/ CallPick(t, s, <<label>>) \/ CallRemove(t, s, label) \/ CallSameset(t, s, s2, label)
  PROVE  ~Uniting(t)' /\ (ret'[t] = ret[t] \/ ret'[t].code \notin Claims)
<1>1. Typed(Callers) /\ Outside(Callers) /\ InCall(t, Callers) /\ ret \in [Worker -> [code : Codes, node : Slot]]
  BY SearchBase DEF SetsInv, Knows, Typed, ControlTyped
<1>2. Home(t)' = label
  <2>1. CASE CallSameset(t, s, s2, label)
    BY <2>1, CalledSameset
  <2>2. CASE ~CallSameset(t, s, s2, label)
    BY <1>1, <2>2, CallerHome
  <2>. QED
    BY <2>1, <2>2
<1>3. ret'[t] = ret[t] \/ ret'[t].code \notin Claims
  <2>1. \/ Goto(t, label) \/ Resume(t, label)
        \/ \E l, b : Call(t, l, b)
        \/ ret' = [ret EXCEPT ![t] = [code |-> "same", node |-> 0]]
    BY DEF CallFind, CallClaim, CallPick, CallRemove, CallSameset
  <2>2. Resume(t, label) => ret'[t].code \notin Claims
    BY <1>1 DEF Resume, NoRet, Claims
  <2>3. \A l, b : Call(t, l, b) => ret'[t].code \notin Claims
    BY <1>1 DEF Call, NoRet, Claims
  <2>4. ret' = [ret EXCEPT ![t] = [code |-> "same", node |-> 0]] => ret'[t].code \notin Claims
    BY <1>1 DEF Claims
  <2>5. Goto(t, label) => ret'[t] = ret[t]
    BY DEF Goto
  <2>. QED
    BY <2>1, <2>2, <2>3, <2>4, <2>5
<1>. QED
  BY <1>2, <1>3 DEF Uniting

\* What the caller of the structure passes on and counts.
Counts(t) ==
  /\ \A a \in 1 .. Len(tls'[t].roots) : Occupied(tls'[t].roots[a])
  /\ Uniting(t)' => Occupied(loc'[t].unite.a) /\ Occupied(loc'[t].unite.b)
  /\ ret'[t].code \notin Claims
  /\ tls'[t].unique = IF pc[t] = "join" THEN 0 ELSE tls[t].unique + First(t)

\* A step that pushes nothing and uses no claim counts nothing.
LEMMA CountsSame ==
  ASSUME Search, CountKnown, NEW t \in Worker, pc[t] \in Callers \ (ClaimHomes \cup {"join"}), ~Uniting(t)',
         \A a \in 1 .. Len(tls'[t].roots) : a \in 1 .. Len(tls[t].roots) /\ tls'[t].roots[a] = tls[t].roots[a],
         tls'[t].unique = tls[t].unique,
         ret'[t] = ret[t] \/ ret'[t].code \notin Claims
  PROVE  Counts(t)
<1>1. ret[t].code \notin Claims
  BY DEF CountKnown, FirstKnown
<1>2. First(t) = 0
  BY <1>1 DEF First, Claims
<1>3. tls[t].unique \in Nat
  BY SearchBase, TlsTyped
<1>. QED
  BY <1>1, <1>2, <1>3 DEF Counts, CountKnown, RootsOccupied

\* Popping the last root leaves the others where they are.
LEMMA PopOf ==
  ASSUME NEW s \in Seq(Slot), s # <<>>, NEW a \in 1 .. Len(Pop(s))
  PROVE  a \in 1 .. Len(s) /\ Pop(s)[a] = s[a]
<1>1. Len(s) - 1 \in Nat /\ Len(s) - 1 < Len(s)
  OBVIOUS
<1>2. /\ Len(SubSeq(s, 1, Len(s) - 1)) = Len(s) - 1
      /\ \A i \in 1 .. Len(s) - 1 : SubSeq(s, 1, Len(s) - 1)[i] = s[i]
  BY <1>1, PathCut
<1>. QED
  BY <1>1, <1>2 DEF Pop

\* A stack stays occupied when an occupied state is pushed on it.
LEMMA AppendOccupied ==
  ASSUME NEW s \in Seq(Slot), \A a \in 1 .. Len(s) : Occupied(s[a]), NEW n \in Slot, Occupied(n),
         NEW a \in 1 .. Len(Append(s, n))
  PROVE  Occupied(Append(s, n)[a])
<1>1. Append(s, n)[a] = IF a = Len(s) + 1 THEN n ELSE s[a]
  OBVIOUS
<1>2. a = Len(s) + 1 \/ a \in 1 .. Len(s)
  OBVIOUS
<1>. QED
  BY <1>1, <1>2

\* The answer of make_claim for w: a first claim is counted (lines 601-602), and w pushed.
LEMMA ClaimedCounts ==
  ASSUME Search, CountKnown, NEW t \in Worker, Claimed(t)
  PROVE  Counts(t)
<1>1. /\ pc[t] = "claimed" /\ pc[t] \in Callers /\ OwnTyped /\ tls[t] \in Tls
      /\ tls \in [Worker -> Tls] /\ tls[t].roots \in Seq(Slot) /\ tls[t].unique \in Nat /\ tls[t].w \in Slot
      /\ tls[t].v \in Slot
  BY SearchBase, TlsTyped DEF Claimed, Callers, OwnTyped
<1>2. Home(t) = "claimed" /\ Target(t) = tls[t].w
  BY <1>1, AtCaller DEF Target
<1>3. /\ \A a \in 1 .. Len(tls[t].roots) : Occupied(tls[t].roots[a])
      /\ Got(t) => HasBits(Target(t))
  BY DEF CountKnown, FirstKnown, RootsOccupied
<1>4. CASE ret[t].code = "CLAIM_DEAD"
  <2>1. NextEdge(t)
    BY <1>1, <1>4 DEF Claimed
  <2>2. tls'[t].roots = tls[t].roots /\ tls'[t].unique = tls[t].unique /\ First(t) = 0
    BY <1>1, <1>4, <2>1 DEF NextEdge, Tls, First
  <2>3. ~Uniting(t)' /\ ret'[t].code \notin Claims
    <3>1. Resume(t, "edge") /\ "edge" \in Callers \ {"united"}
      BY <2>1 DEF NextEdge, Callers
    <3>. QED
      BY <1>1, <1>4, <3>1, LeavesTo DEF Claims
  <2>. QED
    BY <1>1, <1>3, <2>2, <2>3 DEF Counts
<1>5. CASE ret[t].code \in Claims
  <2>1. /\ tls' = [tls EXCEPT ![t].unique = @ + First(t),
                            ![t].rec = Append(@, [v_p |-> tls[t].v_p, k |-> tls[t].k, v |-> tls[t].v]),
                            ![t].roots = Append(@, tls[t].w),
                            ![t].v = tls[t].w, ![t].w = 0]
        /\ Resume(t, "enter")
    BY <1>1, <1>5 DEF Claimed, Claims
  <2>2. tls'[t].roots = Append(tls[t].roots, tls[t].w) /\ tls'[t].unique = tls[t].unique + First(t)
    BY <1>1, <2>1 DEF Tls
  <2>3. Occupied(tls[t].w)
    <3>1. HasBits(tls[t].w)
      BY <1>2, <1>3, <1>5 DEF Got
    <3>2. tls[t].w \in Node
      BY <1>2, SearchBase DEF Calls, ClaimHomes, ClaimKnown
    <3>. QED
      BY <3>1, <3>2 DEF Occupied
  <2>4. \A a \in 1 .. Len(tls'[t].roots) : Occupied(tls'[t].roots[a])
    BY <1>1, <1>3, <2>2, <2>3, AppendOccupied
  <2>5. ~Uniting(t)' /\ ret'[t].code \notin Claims
    <3>1. "enter" \in Callers \ {"united"}
      BY DEF Callers
    <3>2. ret'[t].code \notin Claims
      <4>1. ret \in [Worker -> [code : Codes, node : Slot]]
        BY SearchBase DEF Typed, ControlTyped
      <4>. QED
        BY <2>1, <4>1 DEF Resume, NoRet, Claims
    <3>. QED
      BY <1>1, <2>1, <3>1, <3>2, LeavesTo
  <2>. QED
    BY <1>1, <2>2, <2>4, <2>5 DEF Counts
<1>6. CASE ret[t].code = "CLAIM_FOUND"
  <2>1. CallSameset(t, tls[t].w, tls[t].v, "found") /\ tls' = tls
    BY <1>1, <1>6 DEF Claimed
  <2>2. "found" \in Callers \ {"united"}
    BY DEF Callers
  <2>4. ~Uniting(t)' /\ ret'[t].code \notin Claims
    BY <1>1, <1>6, <2>1, <2>2, LeavesTo DEF Claims
  <2>5. First(t) = 0
    BY <1>6 DEF First
  <2>. QED
    BY <1>1, <1>3, <2>1, <2>4, <2>5 DEF Counts
<1>. QED
  BY <1>4, <1>5, <1>6 DEF Claimed, Claims

\* The answer of make_claim for the first state of a search.
LEMMA StartCounts ==
  ASSUME Search, CountKnown, NEW t \in Worker, Start(t)
  PROVE  Counts(t)
<1>1. /\ pc[t] = "start" /\ pc[t] \in Callers /\ OwnTyped /\ tls[t] \in Tls
      /\ tls \in [Worker -> Tls] /\ tls[t].roots \in Seq(Slot) /\ tls[t].unique \in Nat /\ tls[t].v \in Slot
      /\ Resume(t, "enter")
  BY SearchBase, TlsTyped DEF Start, Callers, OwnTyped
<1>2. Home(t) = "start" /\ Target(t) = tls[t].v
  BY <1>1, AtCaller DEF Target
<1>3. /\ \A a \in 1 .. Len(tls[t].roots) : Occupied(tls[t].roots[a])
      /\ Got(t) => HasBits(Target(t))
  BY DEF CountKnown, FirstKnown, RootsOccupied
<1>4. tls'[t].roots = Append(tls[t].roots, tls[t].v) /\ tls'[t].unique = tls[t].unique + First(t)
  BY <1>1 DEF Tls, Start
<1>5. Occupied(tls[t].v)
  <2>1. ClaimKnown(t)
    BY <1>2, SearchBase DEF Calls, ClaimHomes
  <2>2. tls[t].v \in Node /\ ret[t].code \in ClaimCodes
    <3>1. pc[t] \notin FindLabels \cup ClaimLabels
      BY <1>1 DEF FindLabels, ClaimLabels
    <3>. QED
      BY <1>2, <2>1, <3>1 DEF ClaimKnown, ClaimLabels
  <2>3. ret[t].code # "CLAIM_FOUND"
    <3>1. tls[t].roots = <<>>
      BY <1>1, AtLoop DEF Callers, Searching
    <3>2. ~OnRoots(Root, tls[t].roots, tls[t].v)
      BY <3>1 DEF OnRoots
    <3>. QED
      BY <1>1, <1>2, <2>1, <3>2 DEF ClaimKnown, FindLabels
  <2>4. ret[t].code = "CLAIM_DEAD" => Dead(tls[t].v)
    BY <1>1, <1>2, <2>1 DEF ClaimKnown, FindLabels
  <2>5. ret[t].code \in Claims => HasBits(tls[t].v)
    BY <1>2, <1>3 DEF Got
  <2>. QED
    BY <2>2, <2>3, <2>4, <2>5 DEF Occupied, ClaimCodes, Claims
<1>6. \A a \in 1 .. Len(tls'[t].roots) : Occupied(tls'[t].roots[a])
  BY <1>1, <1>3, <1>4, <1>5, AppendOccupied
<1>7. ~Uniting(t)' /\ ret'[t].code \notin Claims
  <2>1. "enter" \in Callers \ {"united"}
    BY DEF Callers
  <2>2. ret'[t].code \notin Claims
    <3>1. ret \in [Worker -> [code : Codes, node : Slot]]
      BY SearchBase DEF Typed, ControlTyped
    <3>. QED
      BY <1>1, <3>1 DEF Resume, NoRet, Claims
  <2>. QED
    BY <1>1, <2>1, <2>2, LeavesTo
<1>. QED
  BY <1>1, <1>4, <1>6, <1>7 DEF Counts

\* Merging the roots down to the state found again unites claimed states.
LEMMA FoundCounts ==
  ASSUME Search, CountKnown, NEW t \in Worker, Found(t)
  PROVE  Counts(t)
<1>1. /\ pc[t] = "found" /\ pc[t] \in Callers \ (ClaimHomes \cup {"join"}) /\ OwnTyped /\ tls[t] \in Tls
      /\ tls \in [Worker -> Tls] /\ tls[t].roots \in Seq(Slot) /\ tls[t].unique \in Nat
  BY SearchBase, TlsTyped DEF Found, Callers, OwnTyped, ClaimHomes
<1>2. \A a \in 1 .. Len(tls[t].roots) : Occupied(tls[t].roots[a])
  BY DEF CountKnown, RootsOccupied
<1>3. CASE ret[t].code = "same"
  <2>1. NextEdge(t)
    BY <1>1, <1>3 DEF Found
  <2>2. tls'[t].roots = tls[t].roots /\ tls'[t].unique = tls[t].unique
    BY <1>1, <2>1 DEF NextEdge, Tls
  <2>3. ~Uniting(t)' /\ (ret'[t] = ret[t] \/ ret'[t].code \notin Claims)
    <3>1. Resume(t, "edge") /\ "edge" \in Callers \ {"united"}
      BY <2>1 DEF NextEdge, Callers
    <3>. QED
      BY <1>1, <3>1, SlotZero, LeavesTo
  <2>. QED
    BY <1>1, <2>2, <2>3, CountsSame
<1>4. CASE ret[t].code = "different"
  <2>1. PICK x, y, rest : x = Top(Pop(tls[t].roots)) /\ y = Top(tls[t].roots) /\ rest = Pop(tls[t].roots)
    OBVIOUS
  <2>2. CallUnite(t, x, y, "united") /\ tls' = [tls EXCEPT ![t].roots = rest]
    BY <1>1, <1>4, <2>1 DEF Found
  <2>3. Len(tls[t].roots) > 1
    BY <1>1, <1>4, SearchStacks DEF StacksInBounds
  <2>4. /\ y = tls[t].roots[Len(tls[t].roots)] /\ x = rest[Len(tls[t].roots) - 1]
        /\ Len(rest) = Len(tls[t].roots) - 1 /\ \A a \in 1 .. Len(tls[t].roots) - 1 : rest[a] = tls[t].roots[a]
    BY <1>1, <2>1, <2>3, TopTwo
  <2>5. x = tls[t].roots[Len(tls[t].roots) - 1]
    BY <1>1, <2>3, <2>4
  <2>6. Occupied(x) /\ Occupied(y)
    BY <1>1, <1>2, <2>3, <2>4, <2>5
  <2>7. loc'[t].unite.a = x /\ loc'[t].unite.b = y
    <3>1. x \in Node /\ y \in Node
      BY <2>6 DEF Occupied
    <3>. QED
      BY <1>1, <2>2, <3>1, CalledUnite DEF Callers
  <2>8. tls'[t].roots = rest /\ tls'[t].unique = tls[t].unique
    BY <1>1, <2>2 DEF Tls
  <2>9. ret'[t].code \notin Claims /\ First(t) = 0
    <3>1. ret \in [Worker -> [code : Codes, node : Slot]]
      BY SearchBase DEF Typed, ControlTyped
    <3>. QED
      BY <1>4, <2>2, <3>1 DEF CallUnite, CallFind, Call, NoRet, Claims, First
  <2>10. \A a \in 1 .. Len(tls'[t].roots) : Occupied(tls'[t].roots[a])
    BY <1>1, <1>2, <2>3, <2>4, <2>8
  <2>. QED
    BY <1>1, <2>6, <2>7, <2>8, <2>9, <2>10 DEF Counts
<1>. QED
  BY <1>3, <1>4 DEF Found

\* The actions that push no root and use no claim.
LEMMA PlainCounts ==
  ASSUME Search, CountKnown, NEW t \in Worker,
         \/ Enter(t) \/ Entered(t) \/ Explore(t) \/ Edge(t) \/ United(t) \/ IsDead(t) \/ NextState(t)
  PROVE  Counts(t)
<1>1. /\ OwnTyped /\ tls[t] \in Tls /\ tls \in [Worker -> Tls] /\ tls[t].roots \in Seq(Slot)
      /\ tls[t].v \in Slot /\ tls[t].v_p \in Slot /\ tls[t].w \in Slot
      /\ tls[t].rec \in Seq(Frame) /\ tls[t].i \in Nat /\ tls[t].k \in Nat
  BY SearchBase, TlsTyped DEF OwnTyped
<1>2. pc[t] \in Callers \ (ClaimHomes \cup {"join"})
  BY DEF Enter, Entered, Explore, Edge, United, IsDead, NextState, Callers, ClaimHomes
<1> DEFINE Kept  == tls'[t].roots = tls[t].roots /\ tls'[t].unique = tls[t].unique
           Moves == \E label \in Callers \ {"united"} : \E s, s2 \in Slot :
                      \/ Goto(t, label) \/ Resume(t, label) \/ CallFind(t, s, <<label>>) \/ CallClaim(t, s, label)
                      \/ CallPick(t, s, <<label>>) \/ CallRemove(t, s, label) \/ CallSameset(t, s, s2, label)
<1>3. Moves => ~Uniting(t)' /\ (ret'[t] = ret[t] \/ ret'[t].code \notin Claims)
  BY <1>2, LeavesTo
<1>4. UNCHANGED control => ~Uniting(t)' /\ (ret'[t] = ret[t] \/ ret'[t].code \notin Claims)
  <2>1. Home(t) = pc[t] /\ ~Uniting(t)
    BY <1>2, AtCaller
  <2>. QED
    BY <2>1 DEF control, Uniting, Home
<1>5. NextEdge(t) => Kept /\ Resume(t, "edge")
  BY <1>1 DEF NextEdge, Tls
<1>6. {"enter", "entered", "explore", "edge", "claimed", "found", "backtrack", "next", "join", "start"}
        \subseteq Callers \ {"united"}
  BY DEF Callers
<1>7. CASE Enter(t)
  <2>1. tls' = tls
    BY <1>7 DEF Enter
  <2>2. Moves
    <3>1. CASE tls[t].rec = <<>>
      BY <1>1, <1>6, <1>7, <3>1 DEF Enter
    <3>2. CASE tls[t].rec # <<>>
      <4>1. tls[t].rec[Len(tls[t].rec)] \in Frame
        BY <1>1, <3>2, PopTyped
      <4>2. tls[t].rec[Len(tls[t].rec)].v \in Slot
        BY <4>1 DEF Frame
      <4>3. CallSameset(t, tls[t].rec[Len(tls[t].rec)].v, tls[t].v, "entered")
        BY <1>7, <3>2 DEF Enter
      <4>. QED
        BY <1>1, <1>6, <4>2, <4>3
    <3>. QED
      BY <3>1, <3>2
  <2>. QED
    BY <1>2, <1>3, <2>1, <2>2, CountsSame
<1>8. CASE Entered(t)
  <2>1. tls' = tls /\ Moves
    BY <1>1, <1>6, <1>8 DEF Entered
  <2>. QED
    BY <1>2, <1>3, <2>1, CountsSame
<1>9. CASE Explore(t)
  <2>1. Kept
    BY <1>1, <1>9 DEF Explore, Tls
  <2>2. Moves
    BY <1>1, <1>6, <1>9 DEF Explore
  <2>. QED
    BY <1>2, <1>3, <2>1, <2>2, CountsSame
<1>10. CASE Edge(t)
  <2>1. Kept
    BY <1>1, <1>10 DEF Edge, Tls
  <2>2. Moves \/ UNCHANGED control
    <3>1. CASE CallRemove(t, tls[t].v_p, "enter")
      BY <1>1, <1>6, <3>1
    <3>2. CASE ~(tls[t].k >= Len(G[tls[t].v_p])) /\ CallClaim(t, Successor(t, tls[t].v_p, tls[t].k), "claimed")
      <4>1. Successor(t, tls[t].v_p, tls[t].k) \in Slot
        BY <1>1, <3>2, SuccessorTyped
      <4>. QED
        BY <1>6, <3>2, <4>1
    <3>. QED
      BY <1>10, <3>1, <3>2 DEF Edge
  <2>. QED
    BY <1>2, <1>3, <1>4, <2>1, <2>2, CountsSame
<1>11. CASE United(t)
  <2>1. tls' = tls /\ Moves
    BY <1>1, <1>6, <1>11 DEF United
  <2>. QED
    BY <1>2, <1>3, <2>1, CountsSame
<1>12. CASE IsDead(t)
  <2>1. Kept
    BY <1>5, <1>12 DEF IsDead
  <2>2. Moves
    BY <1>1, <1>5, <1>6, <1>12 DEF IsDead
  <2>. QED
    BY <1>2, <1>3, <2>1, <2>2, CountsSame
<1>13. CASE NextState(t)
  <2>1. Kept
    BY <1>1, <1>13 DEF NextState, Tls
  <2>2. Moves \/ UNCHANGED control
    <3>1. ASSUME tls[t].i < ChunkFirst(t + 1), CallClaim(t, tls[t].i, "start") PROVE Moves
      <4>1. tls[t].i \in Slot
        <5>1. ChunkFirst(t + 1) \in 1 .. N + 1 /\ N \in Nat
          BY ChunkEnd
        <5>. QED
          BY <1>1, <3>1, <5>1 DEF Slot
      <4>. QED
        BY <1>6, <3>1, <4>1
    <3>2. CASE Goto(t, "join")
      BY <1>1, <1>6, <3>2
    <3>. QED
      BY <1>13, <3>1, <3>2 DEF NextState
  <2>. QED
    BY <1>2, <1>3, <1>4, <2>1, <2>2, CountsSame
<1>. QED
  BY <1>7, <1>8, <1>9, <1>10, <1>11, <1>12, <1>13

\* The return to the caller pops the top root at most.
LEMMA BacktrackCounts ==
  ASSUME Search, CountKnown, NEW t \in Worker, Backtrack(t)
  PROVE  Counts(t)
<1>1. /\ OwnTyped /\ tls[t] \in Tls /\ tls \in [Worker -> Tls] /\ tls[t].roots \in Seq(Slot)
      /\ tls[t].rec \in Seq(Frame)
  BY SearchBase, TlsTyped DEF OwnTyped
<1>2. pc[t] = "backtrack" /\ pc[t] \in Callers \ (ClaimHomes \cup {"join"})
  BY DEF Backtrack, Callers, ClaimHomes
<1>3. tls[t].roots # <<>>
  BY <1>2, SearchStacks DEF StacksInBounds
<1>4. PICK rts : rts = RootsLeft(t)
  OBVIOUS
<1>5. tls'[t].roots = rts /\ tls'[t].unique = tls[t].unique
  BY <1>1, <1>4 DEF Backtrack, Tls
<1>6. \A a \in 1 .. Len(rts) : a \in 1 .. Len(tls[t].roots) /\ rts[a] = tls[t].roots[a]
  <2>1. CASE rts = tls[t].roots
    BY <2>1
  <2>2. CASE rts = Pop(tls[t].roots)
    BY <1>1, <1>3, <2>2, PopOf
  <2>. QED
    BY <1>4, <2>1, <2>2 DEF RootsLeft
<1>7. ~Uniting(t)' /\ (ret'[t] = ret[t] \/ ret'[t].code \notin Claims)
  <2>1. "next" \in Callers \ {"united"} /\ "is_dead" \in Callers \ {"united"}
    BY DEF Callers
  <2>2. CASE Goto(t, "next")
    BY <1>2, <2>1, <2>2, SlotZero, LeavesTo
  <2>3. CASE tls[t].rec # <<>> /\ CallFind(t, tls[t].rec[Len(tls[t].rec)].v, <<"is_dead">>)
    <3>1. tls[t].rec[Len(tls[t].rec)] \in Frame
      BY <1>1, <2>3, PopTyped
    <3>2. tls[t].rec[Len(tls[t].rec)].v \in Slot
      BY <3>1 DEF Frame
    <3>. QED
      BY <1>2, <2>1, <2>3, <3>2, LeavesTo
  <2>. QED
    BY <2>2, <2>3 DEF Backtrack
<1>. QED
  BY <1>2, <1>5, <1>6, <1>7, CountsSame

\* A worker that has come to the end adds its count to the total (line 686) and keeps none.
LEMMA JoinCounts ==
  ASSUME Search, CountKnown, NEW t \in Worker, Join(t)
  PROVE  Counts(t)
<1>1. /\ OwnTyped /\ tls[t] \in Tls /\ tls \in [Worker -> Tls] /\ pc[t] = "join" /\ Goto(t, "done")
  BY SearchBase, TlsTyped DEF OwnTyped, Join
<1>2. tls'[t].roots = tls[t].roots /\ tls'[t].unique = 0 /\ ret' = ret
  BY <1>1 DEF Join, Goto, Tls
<1>3. ret[t].code \notin Claims
  BY <1>1 DEF CountKnown, FirstKnown, ClaimHomes
<1>4. ~Uniting(t)'
  <2>1. pc[t] \in Callers /\ "done" \in Callers \ {"united"}
    BY <1>1 DEF Callers
  <2>. QED
    BY <1>1, <2>1, SlotZero, LeavesTo
<1>. QED
  BY <1>1, <1>2, <1>3, <1>4 DEF Counts, CountKnown, RootsOccupied

\* Reading the components counts nothing.
LEMMA ReportCounts ==
  ASSUME Search, CountKnown, Report, 0 \in Worker
  PROVE  Counts(0) /\ pc[0] # "join" /\ First(0) = 0
<1>1. /\ OwnTyped /\ tls[0] \in Tls /\ tls \in [Worker -> Tls] /\ tls[0].i \in Nat
  BY SearchBase, TlsTyped DEF OwnTyped
<1>2. pc[0] \in Callers \ (ClaimHomes \cup {"join"})
  BY DEF Report, Barrier, Collect, Collected, Callers, ClaimHomes
<1>3. tls'[0].roots = tls[0].roots /\ tls'[0].unique = tls[0].unique
  BY <1>1 DEF Report, Barrier, Collect, Collected, Tls
<1>4. ~Uniting(0)' /\ (ret'[0] = ret[0] \/ ret'[0].code \notin Claims)
  <2>1. {"collect", "collected", "end"} \subseteq Callers \ {"united"}
    BY DEF Callers
  <2>2. CASE Goto(0, "collect") \/ Goto(0, "end") \/ Resume(0, "collect")
    BY <1>2, <2>1, <2>2, SlotZero, LeavesTo
  <2>3. CASE tls[0].i <= N /\ CallFind(0, tls[0].i, <<"collected">>)
    <3>1. tls[0].i \in Slot
      BY <1>1, <2>3, UFConstants DEF Slot
    <3>. QED
      BY <1>2, <2>1, <2>3, <3>1, LeavesTo
  <2>. QED
    BY <2>2, <2>3 DEF Report, Barrier, Collect, Collected
<1>5. First(0) = 0
  <2>1. ret[0].code \notin Claims
    BY <1>2 DEF CountKnown, FirstKnown
  <2>. QED
    BY <2>1 DEF First, Claims
<1>. QED
  BY <1>2, <1>3, <1>4, <1>5, CountsSame

\* Every step of the caller passes on claimed states and counts its own first claims once.
LEMMA RecurseCounts ==
  ASSUME Search, CountKnown, NEW t \in Worker, Recurse(t) \/ NextState(t) \/ Start(t) \/ Join(t)
  PROVE  Counts(t)
BY PlainCounts, BacktrackCounts, ClaimedCounts, StartCounts, FoundCounts, JoinCounts DEF Recurse

\* The caller's steps change no bit.
LEMMA CallerCountKnown ==
  ASSUME Search, CountKnown, NEW w \in Worker, CallerStep(w, Callers), G' = G,
         \A t \in Worker \ {w} : tls'[t] = tls[t], Counts(w)
  PROVE  /\ CountKnown' /\ uf' = uf
         /\ (Holds(w) <=> First(w) = 1) /\ ~Holds(w)'
         /\ \A t \in Worker \ {w} : Holds(t)' <=> Holds(t)
<1>1. /\ SetsInv(Callers) /\ Typed(Callers) /\ Outside(Callers) /\ InCall(w, Callers) /\ OwnTyped
      /\ loc \in [Worker -> Locals]
  BY SearchBase DEF SetsInv, Knows, LocTyped
<1>2. /\ uf' = uf /\ Root' = Root /\ Grows /\ pc[w] \in Callers
  BY CallerFrame
<1>3. \A n : Occupied(n) => Occupied(n)'
  BY <1>2, OccupiedGrows
<1>4. Together'
  BY <1>2 DEF CountKnown, Together, HasBits
<1>5. /\ Alone(w)
      /\ pc'[w] \notin {"claim_check", "claim_again"}
      /\ ~Awaits(w, "claim_again")'
  <2>1. Callers \cap {"claim_check", "claim_again"} = {}
    BY DEF Callers
  <2>. QED
    BY <1>1, <2>1, CallerMoves DEF Awaits
<1>6. ~loc[w].first
  <2>1. ~AfterOr(w)
    BY <1>2, AtCaller DEF AfterOr, Labels
  <2>. QED
    BY <2>1 DEF CountKnown, FirstKnown
<1>7. loc'[w].first = loc[w].first
  <2>1. UNCHANGED loc => loc'[w].first = loc[w].first
    OBVIOUS
  <2>2. \A x : loc' = [loc EXCEPT ![w].same.a = x] => loc'[w].first = loc[w].first
    BY <1>1 DEF Locals, Sames
  <2>3. \A x : loc' = [loc EXCEPT ![w].pick = x] => loc'[w].first = loc[w].first
    BY <1>1 DEF Locals
  <2>4. \A x : loc' = [loc EXCEPT ![w].unite = x] => loc'[w].first = loc[w].first
    BY <1>1 DEF Locals
  <2>. QED
    BY <2>1, <2>2, <2>3, <2>4 DEF CallerStep, CallSameset, CallPick, CallRemove, CallUnite
<1>8. ~AfterOr(w)' /\ ~Got(w)' /\ ~Holds(w)' /\ (Holds(w) <=> First(w) = 1)
  BY <1>5, <1>6, <1>7 DEF AfterOr, Got, Holds, Counts, Claims, First
<1>9. FirstKnown(w)' /\ RootsOccupied(w)'
  <2>1. FirstKnown(w)'
    BY <1>6, <1>7, <1>8 DEF FirstKnown, Counts
  <2>2. RootsOccupied(w)'
    BY <1>3 DEF RootsOccupied, Counts
  <2>. QED
    BY <2>1, <2>2
<1>10. ASSUME NEW t \in Worker \ {w} PROVE FirstKnown(t)' /\ RootsOccupied(t)' /\ (Holds(t)' <=> Holds(t))
  <2>1. Still(t)
    BY <1>5, <1>10 DEF Still, Alone, OthersKept
  <2>2. Home(t)' = Home(t) /\ \A l : Awaits(t, l)' <=> Awaits(t, l)
    BY <2>1, StillHome
  <2>3. Target(t)' = Target(t)
    BY <2>1, <2>2, SameTarget DEF Still
  <2>4. (Got(t)' <=> Got(t)) /\ (AfterOr(t)' <=> AfterOr(t))
    BY <2>1, <2>2 DEF Got, AfterOr, Still
  <2>5. HasBits(Target(t))' <=> HasBits(Target(t))
    BY <1>2, <2>3 DEF HasBits
  <2>6. FirstKnown(t)'
    BY <2>1, <2>4, <2>5 DEF CountKnown, FirstKnown, Still
  <2>7. RootsOccupied(t)'
    <3>1. Uniting(t)' <=> Uniting(t)
      BY <2>1, <2>2 DEF Uniting, Still
    <3>. QED
      BY <1>3, <2>1, <3>1 DEF CountKnown, RootsOccupied, Still
  <2>. QED
    BY <2>1, <2>6, <2>7 DEF Holds, Still
<1>. QED
  BY <1>2, <1>4, <1>8, <1>9, <1>10 DEF CountKnown

\* A sum of zeros, at the start.
LEMMA SumOfNone ==
  ASSUME NEW D, IsFiniteSet(D)
  PROVE  Total([t \in D |-> 0]) = 0
<1>1. PICK f : f = [t \in D |-> 0]
  OBVIOUS
<1>2. DOMAIN f = D /\ \A x \in D : f[x] = 0
  BY <1>1
<1>3. PICK g : /\ g \in [SUBSET D -> Int] /\ Total(f) = g[D]
               /\ \A s \in SUBSET D : g[s] = Added(f, g, s)
  <2>1. IsFiniteSet(DOMAIN f) /\ \A x \in DOMAIN f : f[x] \in Int
    BY <1>2
  <2>2. \E g : /\ g \in [SUBSET DOMAIN f -> Int] /\ Total(f) = g[DOMAIN f]
               /\ \A s \in SUBSET DOMAIN f : g[s] = Added(f, g, s)
    BY <2>1, SumHas
  <2>. QED
    BY <1>2, <2>2
<1> DEFINE T == {k \in Nat : \E s \in SUBSET D : Cardinality(s) = k /\ g[s] # 0}
<1>4. \A s \in SUBSET D : IsFiniteSet(s) /\ Cardinality(s) \in Nat
  BY FS_Subset, FS_CardinalityType
<1>5. T = {}
  <2> SUFFICES ASSUME T # {} PROVE FALSE
    OBVIOUS
  <2> HIDE DEF T
  <2>1. PICK k \in T : \A j \in T : k <= j
    <3>1. T \subseteq Nat
      BY DEF T
    <3>. QED
      BY <3>1, LeastNumber
  <2>2. PICK s \in SUBSET D : k \in Nat /\ Cardinality(s) = k /\ g[s] # 0
    BY DEF T
  <2>3. PICK x : x = CHOOSE y \in s : TRUE
    OBVIOUS
  <2>4. s # {}
    BY <1>3, <2>2 DEF Added
  <2>5. x \in s /\ s \ {x} \in SUBSET D /\ Cardinality(s \ {x}) = k - 1
    <3>1. x \in s
      BY <2>3, <2>4
    <3>. QED
      BY <2>2, <3>1, OneLess
  <2>6. g[s] = f[x] + g[s \ {x}]
    BY <1>3, <2>3, <2>4 DEF Added
  <2>7. g[s \ {x}] # 0
    BY <1>2, <1>3, <2>2, <2>5, <2>6
  <2>8. k - 1 \in T
    <3>1. k - 1 \in Nat
      BY <1>4, <2>5
    <3>. QED
      BY <2>5, <2>7, <3>1 DEF T
  <2>. QED
    BY <2>1, <2>2, <2>8
<1>6. Cardinality(D) \notin T
  BY <1>5
<1>. QED
  BY <1>1, <1>3, <1>4, <1>6

\* The states claimed, the workers with a first claim not yet counted, and the counts.
ClaimedStates == {n \in Node : HasBits(n)}
Holders == {t \in Worker : Holds(t)}
Uniques == [t \in Worker |-> tls[t].unique]

Counted == Cardinality(ClaimedStates) = total + Total(Uniques) + Cardinality(Holders)
\* The inductive invariant of the count.
CountInv == CountKnown /\ Counted

\* Both sides of the count are numbers.
LEMMA CountTyped ==
  ASSUME Search
  PROVE  /\ IsFiniteSet(Worker) /\ IsFiniteSet(ClaimedStates) /\ IsFiniteSet(Holders)
         /\ Cardinality(ClaimedStates) \in Nat /\ Cardinality(Holders) \in Nat
         /\ Uniques \in [Worker -> Int] /\ Total(Uniques) \in Int /\ total \in Nat
<1>1. IsFiniteSet(Worker)
  BY UFConstants, FS_Interval DEF Worker
<1>2. /\ IsFiniteSet(ClaimedStates) /\ IsFiniteSet(Holders)
      /\ Cardinality(ClaimedStates) \in Nat /\ Cardinality(Holders) \in Nat
  BY <1>1, NodeCount, FS_Subset, FS_CardinalityType DEF ClaimedStates, Holders
<1>3. \A t \in Worker : tls[t].unique \in Int
  BY SearchBase, TlsTyped
<1>4. Uniques \in [Worker -> Int]
  BY <1>3 DEF Uniques
<1>5. 0 \in Worker
  BY UFConstants DEF Worker
<1>6. Total(Uniques) \in Int
  BY <1>1, <1>4, <1>5, SumChanges
<1>. QED
  BY <1>1, <1>2, <1>4, <1>6, SearchBase DEF OwnTyped

\* A step of the union-find claims a state as it comes to hold a first claim, or does neither.
LEMMA StepCounted ==
  ASSUME Search, CountInv, NEW w \in Worker, UFStep(w), UNCHANGED <<G, tls, total, G_SCC>>
  PROVE  CountInv'
<1>1. CountKnown'
  BY StepCountKnown DEF CountInv
<1>2. Total(Uniques)' = Total(Uniques) /\ total' = total
  <2>1. Total(Uniques)' = Total(Uniques')
    OBVIOUS
  <2>2. Uniques' = Uniques
    BY DEF Uniques
  <2>. QED
    BY <2>1, <2>2
<1>3. /\ Typed(Callers) /\ Node \subseteq Slot
  BY SearchBase DEF Node, Slot
<1>4. Alone(w)
  BY <1>3, UFStepAlone
<1>5. \A t \in Worker \ {w} : Holds(t)' <=> Holds(t)
  BY <1>4 DEF Alone, OthersKept, Holds
<1>6. /\ \A n \in Node : HasBits(n) => HasBits(n)'
      /\ \A n \in Node : HasBits(n)' => HasBits(n) \/ (pc[w] = "claim_or" /\ n = ret[w].node)
      /\ pc[w] = "claim_or" => ret[w].node \in Node /\ HasBits(ret[w].node)'
  BY <1>3, BitsGained DEF CountInv
<1>7. /\ pc[w] = "claim_or" => ~Holds(w) /\ (Holds(w)' <=> ~HasBits(ret[w].node))
      /\ pc[w] # "claim_or" => (Holds(w)' <=> Holds(w))
  BY OwnHolds DEF CountInv, CountKnown, Unclaimed, HasBits
<1>8. Cardinality(ClaimedStates') - Cardinality(Holders') = Cardinality(ClaimedStates) - Cardinality(Holders)
  <2>1. CASE pc[w] = "claim_or" /\ ~HasBits(ret[w].node)
    <3>1. PICK f : f = ret[w].node
      OBVIOUS
    <3>2. ClaimedStates' = ClaimedStates \cup {f} /\ f \notin ClaimedStates
      <4>1. \A n \in Node : HasBits(n)' <=> HasBits(n) \/ n = f
        <5>1. ClaimOr(w)
          BY <2>1, StepIs DEF ClaimLabels, ClaimDead, ClaimFound, ClaimCheck
        <5>2. ret'[w] = ret[w]
          BY <5>1 DEF ClaimOr, Goto
        <5>3. HasBits(f)'
          BY <1>6, <2>1, <3>1, <5>2
        <5>4. \A n \in Node : n = f => HasBits(n)'
          BY <5>3
        <5>. QED
          BY <1>6, <2>1, <3>1, <5>4
      <4>2. f \in Node /\ ~HasBits(f)
        BY <1>6, <2>1, <3>1
      <4>. QED
        BY <4>1, <4>2 DEF ClaimedStates
    <3>3. Holders' = Holders \cup {w} /\ w \notin Holders
      BY <1>5, <1>7, <2>1 DEF Holders
    <3>. QED
      <4>1. PICK c, h : c = ClaimedStates /\ h = Holders
        OBVIOUS
      <4>2. /\ IsFiniteSet(c) /\ IsFiniteSet(h) /\ Cardinality(c) \in Nat /\ Cardinality(h) \in Nat
        BY <4>1, CountTyped
      <4>3. Cardinality(c \cup {f}) = Cardinality(c) + 1
        BY <3>2, <4>1, <4>2, FS_AddElement
      <4>4. Cardinality(h \cup {w}) = Cardinality(h) + 1
        BY <3>3, <4>1, <4>2, FS_AddElement
      <4>. QED
        BY <3>2, <3>3, <4>1, <4>2, <4>3, <4>4
  <2>2. CASE ~(pc[w] = "claim_or" /\ ~HasBits(ret[w].node))
    <3>1. ClaimedStates' = ClaimedStates
      BY <1>6, <2>2 DEF ClaimedStates
    <3>2. Holders' = Holders
      BY <1>5, <1>7, <2>2 DEF Holders
    <3>. QED
      BY <3>1, <3>2
  <2>. QED
    BY <2>1, <2>2
<1>9. Cardinality(ClaimedStates') \in Int /\ Cardinality(Holders') \in Int
  <2>1. /\ ClaimedStates' \in SUBSET Node /\ Holders' \in SUBSET Worker
    BY DEF ClaimedStates, Holders
  <2>. QED
    BY <2>1, CountTyped, NodeCount, FS_Subset, FS_CardinalityType
<1>. QED
  BY <1>1, <1>2, <1>8, <1>9, CountTyped DEF CountInv, Counted

\* A step of the caller turns the claim it holds into one more in its count, and Join moves its count.
LEMMA CallerCounted ==
  ASSUME Search, CountInv, NEW w \in Worker, CallerStep(w, Callers), G' = G,
         \A t \in Worker \ {w} : tls'[t] = tls[t], Counts(w),
         total' = IF pc[w] = "join" THEN total + tls[w].unique ELSE total
  PROVE  CountInv'
<1>1. /\ CountKnown' /\ uf' = uf
      /\ (Holds(w) <=> First(w) = 1) /\ ~Holds(w)'
      /\ \A t \in Worker \ {w} : Holds(t)' <=> Holds(t)
  BY CallerCountKnown DEF CountInv
<1>2. ClaimedStates' = ClaimedStates
  BY <1>1 DEF ClaimedStates, HasBits
<1>3. Holders' = Holders \ {w} /\ (w \in Holders <=> First(w) = 1)
  BY <1>1 DEF Holders
<1>4. Cardinality(Holders') = Cardinality(Holders) - First(w) /\ First(w) \in {0, 1}
  <2>1. PICK h, c : h = Holders /\ c = First(w)
    OBVIOUS
  <2>2. IsFiniteSet(h) /\ Cardinality(h) \in Nat /\ c \in {0, 1}
    BY <2>1, CountTyped DEF First
  <2>3. Cardinality(h \ {w}) = Cardinality(h) - c
    <3>1. w \in h <=> c = 1
      BY <1>3, <2>1
    <3>2. CASE w \in h
      <4>1. Cardinality(h \ {w}) = Cardinality(h) - 1
        BY <2>2, <3>2, FS_RemoveElement
      <4>. QED
        BY <3>1, <3>2, <4>1
    <3>3. CASE w \notin h
      <4>1. Cardinality(h \ {w}) = Cardinality(h)
        BY <2>2, <3>3, FS_RemoveElement
      <4>2. c = 0
        BY <2>2, <3>1, <3>3
      <4>. QED
        BY <2>2, <4>1, <4>2
    <3>. QED
      BY <3>2, <3>3
  <2>. QED
    BY <1>3, <2>1, <2>2, <2>3
<1>5. PICK x : x = tls'[w].unique
  OBVIOUS
<1>6. x = IF pc[w] = "join" THEN 0 ELSE tls[w].unique + First(w)
  BY <1>5 DEF Counts
<1>7. tls[w].unique \in Int /\ x \in Int
  BY <1>4, <1>6, SearchBase, TlsTyped
<1>8. Uniques' = [Uniques EXCEPT ![w] = x]
  BY <1>5 DEF Uniques
<1>9. Total(Uniques') = Total(Uniques) - tls[w].unique + x
  <2>1. Uniques[w] = tls[w].unique
    BY DEF Uniques
  <2>2. PICK u, v : u = Uniques /\ v = Uniques'
    OBVIOUS
  <2>3. IsFiniteSet(Worker) /\ u \in [Worker -> Int] /\ v = [u EXCEPT ![w] = x]
    BY <1>8, <2>2, CountTyped
  <2>4. Total([u EXCEPT ![w] = x]) = Total(u) - u[w] + x
    BY <1>7, <2>3, SumChanges
  <2>5. Total(v) = Total(u) - tls[w].unique + x
    BY <2>1, <2>2, <2>3, <2>4
  <2>. QED
    BY <2>2, <2>5
<1>10. pc[w] = "join" => First(w) = 0
  <2>1. pc[w] = "join" => ret[w].code \notin Claims
    BY DEF CountInv, CountKnown, FirstKnown, ClaimHomes
  <2>. QED
    BY <2>1 DEF First, Claims
<1>11. Total(Uniques)' = Total(Uniques')
  OBVIOUS
<1>. QED
  BY <1>1, <1>2, <1>4, <1>6, <1>7, <1>9, <1>10, <1>11, CountTyped DEF CountInv, Counted

\* Nothing else changes the count.
LEMMA StutterCounted ==
  ASSUME Search, CountInv, UNCHANGED vars
  PROVE  CountInv'
<1>1. /\ uf' = uf /\ pc' = pc /\ stack' = stack /\ ret' = ret /\ path' = path /\ loc' = loc
      /\ tls' = tls /\ total' = total
  BY DEF vars, ufVars, control
<1>2. Root' = Root
  BY <1>1 DEF Root
<1>3. \A n : (HasBits(n)' <=> HasBits(n)) /\ (Occupied(n)' <=> Occupied(n))
  BY <1>1, <1>2 DEF HasBits, Occupied, Dead
<1>4. Together'
  BY <1>2, <1>3 DEF CountInv, CountKnown, Together
<1>5. ASSUME NEW t \in Worker PROVE FirstKnown(t)' /\ RootsOccupied(t)' /\ (Holds(t)' <=> Holds(t))
  <2>1. Still(t)
    BY <1>1 DEF Still
  <2>2. Home(t)' = Home(t) /\ \A l : Awaits(t, l)' <=> Awaits(t, l)
    BY <2>1, StillHome
  <2>3. Target(t)' = Target(t)
    BY <2>1, <2>2, SameTarget DEF Still
  <2>4. (Got(t)' <=> Got(t)) /\ (AfterOr(t)' <=> AfterOr(t)) /\ (Uniting(t)' <=> Uniting(t))
    BY <2>1, <2>2 DEF Got, AfterOr, Still, Uniting
  <2>5. FirstKnown(t)'
    BY <1>3, <2>1, <2>3, <2>4 DEF CountInv, CountKnown, FirstKnown, Still
  <2>6. RootsOccupied(t)'
    BY <1>3, <2>1, <2>4 DEF CountInv, CountKnown, RootsOccupied, Still
  <2>. QED
    BY <2>1, <2>5, <2>6 DEF Holds, Still
<1>6. ClaimedStates' = ClaimedStates /\ Holders' = Holders /\ Uniques' = Uniques
  BY <1>1, <1>3, <1>5 DEF ClaimedStates, Holders, Uniques
<1>7. Total(Uniques)' = Total(Uniques)
  <2>1. Total(Uniques)' = Total(Uniques')
    OBVIOUS
  <2>. QED
    BY <1>6, <2>1
<1>. QED
  BY <1>1, <1>4, <1>5, <1>6, <1>7 DEF CountInv, CountKnown, Counted

\* The count is kept by every step of the program.
LEMMA NextCounted ==
  ASSUME Search, CountInv, [Next]_vars
  PROVE  CountInv'
<1>1. ASSUME NEW t \in Worker, Recurse(t) \/ NextState(t) \/ Start(t) \/ Join(t), G' = G,
             total' = IF pc[t] = "join" THEN total + tls[t].unique ELSE total
      PROVE  CountInv'
  <2>1. CallerStep(t, Callers)
    BY <1>1, SearchBase, RecurseCalls
  <2>2. \A x \in Worker \ {t} : tls'[x] = tls[x]
    BY <1>1, OneMoves
  <2>3. Counts(t)
    BY <1>1, RecurseCounts DEF CountInv
  <2>. QED
    BY <1>1, <2>1, <2>2, <2>3, CallerCounted
<1>2. ASSUME NEW t \in Worker, Step(t) PROVE CountInv'
  <2>1. CASE UFStep(t) /\ UNCHANGED <<G, tls, total, G_SCC>>
    BY <2>1, StepCounted
  <2>2. CASE (Recurse(t) \/ NextState(t) \/ Start(t)) /\ UNCHANGED <<G, total, G_SCC>>
    <3>1. pc[t] # "join"
      BY <2>2 DEF Recurse, Enter, Entered, Explore, Edge, Claimed, Found, United, Backtrack, IsDead, NextState, Start
    <3>. QED
      BY <1>1, <2>2, <3>1
  <2>3. CASE Join(t)
    <3>1. pc[t] = "join" /\ total' = total + tls[t].unique /\ G' = G
      BY <2>3 DEF Join
    <3>. QED
      BY <1>1, <2>3, <3>1
  <2>. QED
    BY <1>2, <2>1, <2>2, <2>3 DEF Step
<1>3. CASE Report
  <2>1. 0 \in Worker /\ CallerStep(0, Callers)
    BY <1>3, SearchBase, ReportCalls
  <2>2. \A x \in Worker \ {0} : tls'[x] = tls[x]
    BY <1>3, ReportMoves
  <2>3. Counts(0) /\ pc[0] # "join"
    BY <1>3, <2>1, ReportCounts DEF CountInv
  <2>4. G' = G /\ total' = total
    BY <1>3 DEF Report, Barrier, Collect, Collected
  <2>. QED
    BY <2>1, <2>2, <2>3, <2>4, CallerCounted
<1>. QED
  BY <1>2, <1>3, StutterCounted DEF Next, Terminated

\* Nothing is claimed at the start.
LEMMA InitCounted ==
  ASSUME Init
  PROVE  CountInv
<1>1. /\ uf = [s \in Slot |-> uf_node] /\ total = 0
      /\ \A t \in Worker : /\ pc[t] = "next" /\ stack[t] = <<>> /\ ret[t] = NoRet /\ ~loc[t].first
                           /\ tls[t].roots = <<>> /\ tls[t].unique = 0
  BY DEF Init, UFInit
<1>2. \A n \in Node : ~HasBits(n)
  BY <1>1 DEF HasBits, uf_node, Node, Slot
<1>3. ASSUME NEW t \in Worker PROVE FirstKnown(t) /\ RootsOccupied(t) /\ ~Holds(t)
  <2>1. ~AfterOr(t) /\ ~Got(t) /\ ret[t].code = "none"
    BY <1>1 DEF AfterOr, Got, Awaits, NoRet, Claims
  <2>2. ~Uniting(t)
    BY <1>1 DEF Uniting, Home
  <2>. QED
    BY <1>1, <2>1, <2>2 DEF FirstKnown, RootsOccupied, Holds, Claims
<1>4. Together
  <2>1. SetsKnown
    BY InitSets
  <2>2. \A n \in Node : Root[n] = n
    <3>1. UfTyped /\ ParentIncreasing /\ Node \subseteq Slot
      BY <2>1 DEF SetsKnown, SetsInv, Typed, Upward, Node, Slot
    <3>2. \A n \in Node : uf[n].parent = 0
      BY <1>1, <3>1 DEF uf_node
    <3>. QED
      BY <3>1, <3>2, RootFacts
  <2>. QED
    BY <2>2 DEF Together
<1>5. ClaimedStates = {} /\ Holders = {} /\ Uniques = [t \in Worker |-> 0]
  BY <1>1, <1>2, <1>3 DEF ClaimedStates, Holders, Uniques
<1>6. IsFiniteSet(Worker)
  BY UFConstants, FS_Interval DEF Worker
<1>7. Total(Uniques) = 0
  BY <1>5, <1>6, SumOfNone
<1>. QED
  BY <1>1, <1>3, <1>4, <1>5, <1>7, FS_EmptySet DEF CountInv, CountKnown, Counted

\* Counted is UniqueCounted in the names of this proof.
LEMMA CountedUnique ==
  ASSUME Counted
  PROVE  UniqueCounted
BY DEF Counted, UniqueCounted, ClaimedStates, HasBits, Holders, Holds, Uniques, Total

\* The counts that the workers add up are the number of states claimed: each
\* state is claimed first exactly once, by one worker (UniqueCounted).
THEOREM ClaimsAreCounted == NWorkers <= WordBits => (Spec => []UniqueCounted)
<1> SUFFICES ASSUME NWorkers <= WordBits PROVE Spec => []UniqueCounted
  OBVIOUS
<1>1. Init => Search /\ CountInv
  BY InitSearch, InitCounted
<1>2. Search /\ CountInv /\ [Next]_vars => (Search /\ CountInv)'
  BY NextSearch, NextCounted
<1>3. CountInv => UniqueCounted
  BY CountedUnique DEF CountInv
<1>. QED
  BY <1>1, <1>2, <1>3, PTL DEF Spec
==============================================================================
