---------------------------- MODULE UFSetsProofs ----------------------------
(***************************************************************************)
(* What holds of the union-find whoever calls it: its types, its locks and *)
(* its parents first, then its sets, then its lists.                       *)
(***************************************************************************)
EXTENDS UnionFind, SequenceTheorems, WellFoundedInduction, NaturalsInduction, TLAPS

(* The types of UFTypeOK, by variable *)

Entry == [parent : Slot, workers : WorkerSet, list_next : Slot,
          uf_status : {LIVE, LOCK, DEAD}, list_status : {LIVE, LOCK, TOMB}]
Sames  == [a : Slot, b : Slot]
Picks  == [a : Slot, b : Slot, c : Slot]
Unites == [a : Slot, b : Slot, ar : Slot, q : Slot, r : Slot, al : Slot, bl : Slot,
           qw : WorkerSet, up : Slot]
Locals == [first : BOOLEAN, same : Sames, pick : Picks, unite : Unites]

UfTyped  == uf \in [Slot -> Entry] /\ G_Color \in [Node -> {0, -2}]
LocTyped == loc \in [Worker -> Locals]

\* find is entered with a call of its own on path and never returned to, so the
\* labels on a stack are the others.
Back(callers) == (Labels \cup callers) \ {"find", "compress"}

ControlTyped(callers) ==
  /\ pc \in [Worker -> Labels \cup callers]
  /\ stack \in [Worker -> Seq(Back(callers))]
  /\ ret \in [Worker -> [code : Codes, node : Slot]]
  /\ path \in [Worker -> Seq(Slot)]
  /\ \A w \in Worker : pc[w] \in {"find", "compress"} => path[w] # <<>>

Typed(callers) == UfTyped /\ LocTyped /\ ControlTyped(callers)

\* The typing that the proofs keep implies the type invariant.
LEMMA TypedUFTypeOK ==
  ASSUME NEW callers, Typed(callers)
  PROVE  UFTypeOK(callers)
<1>1. stack \in [Worker -> Seq(Labels \cup callers)]
  BY DEF Typed, ControlTyped, Back
<1>. QED
  BY <1>1 DEF Typed, UfTyped, LocTyped, ControlTyped, UFTypeOK, Entry, Locals, Sames, Picks, Unites

-----------------------------------------------------------------------------
(* The control operators *)

\* Slot 0, the sentinel, is a slot, and slots are numbers.
LEMMA SlotZero == 0 \in Slot /\ Slot \subseteq Int
BY UFConstants DEF Slot

\* Moving to another label keeps the types of the control state.
LEMMA GotoTyped ==
  ASSUME NEW callers, ControlTyped(callers), NEW w \in Worker, NEW label \in Back(callers),
         Goto(w, label), path' = path
  PROVE  ControlTyped(callers)'
BY DEF ControlTyped, Goto, Back

\* So does resuming after a call.
LEMMA ResumeTyped ==
  ASSUME NEW callers, ControlTyped(callers), NEW w \in Worker, NEW label \in Back(callers),
         Resume(w, label), path' = path
  PROVE  ControlTyped(callers)'
BY SlotZero DEF ControlTyped, Resume, Back, NoRet, Codes

\* So does a call, which pushes return labels.
LEMMA CallTyped ==
  ASSUME NEW callers, ControlTyped(callers), NEW w \in Worker, NEW label \in Back(callers),
         NEW backs \in Seq(Back(callers)), Call(w, label, backs), path' = path
  PROVE  ControlTyped(callers)'
<1>1. stack' \in [Worker -> Seq(Back(callers))]
  BY DEF ControlTyped, Call
<1>. QED
  BY <1>1, SlotZero DEF ControlTyped, Call, Back, NoRet, Codes

\* So does a call of find, which also starts a path.
LEMMA CallFindTyped ==
  ASSUME NEW callers, ControlTyped(callers), NEW w \in Worker, NEW state \in Slot,
         NEW backs \in Seq(Back(callers)), CallFind(w, state, backs)
  PROVE  ControlTyped(callers)'
<1>1. stack' \in [Worker -> Seq(Back(callers))]
  BY DEF ControlTyped, CallFind, Call
<1>2. path' \in [Worker -> Seq(Slot)] /\ path'[w] # <<>> /\ \A x \in Worker \ {w} : path'[x] = path[x]
  BY DEF ControlTyped, CallFind
<1>3. pc' \in [Worker -> Labels \cup callers]
  BY DEF ControlTyped, CallFind, Call, Labels
<1>. QED
  BY <1>1, <1>2, <1>3, SlotZero DEF ControlTyped, CallFind, Call, NoRet, Codes

\* So does a return, which jumps to a pushed label.
LEMMA ReturnTyped ==
  ASSUME NEW callers, ControlTyped(callers), NEW w \in Worker, NEW code \in Codes,
         NEW node \in Slot, Return(w, code, node), path' \in [Worker -> Seq(Slot)],
         \A x \in Worker \ {w} : path'[x] = path[x]
  PROVE  ControlTyped(callers)'
<1>1. stack[w] \in Seq(Back(callers)) /\ stack[w] # <<>>
  BY DEF ControlTyped, Return
<1>2. stack[w][Len(stack[w])] \in Back(callers)
  BY <1>1
<1>3. SubSeq(stack[w], 1, Len(stack[w]) - 1) \in Seq(Back(callers))
  BY <1>1
<1>4. stack' \in [Worker -> Seq(Back(callers))]
  BY <1>3 DEF ControlTyped, Return
<1>5. pc' \in [Worker -> Labels \cup callers] /\ pc'[w] \notin {"find", "compress"}
  BY <1>2 DEF ControlTyped, Return, Back
<1>. QED
  BY <1>4, <1>5 DEF ControlTyped, Return
-----------------------------------------------------------------------------
(* The steps, function by function *)

\* The types of a worker's locals, field by field.
LEMMA LocalsTyped ==
  ASSUME LocTyped, NEW w \in Worker
  PROVE  /\ loc[w].same \in Sames /\ loc[w].pick \in Picks /\ loc[w].unite \in Unites
         /\ loc[w].same.a \in Slot /\ loc[w].same.b \in Slot
         /\ loc[w].pick.a \in Slot /\ loc[w].pick.b \in Slot /\ loc[w].pick.c \in Slot
         /\ loc[w].unite.a \in Slot /\ loc[w].unite.b \in Slot /\ loc[w].unite.ar \in Slot
         /\ loc[w].unite.q \in Slot /\ loc[w].unite.r \in Slot /\ loc[w].unite.al \in Slot
         /\ loc[w].unite.bl \in Slot /\ loc[w].unite.up \in Slot
         /\ loc[w].unite.qw \in WorkerSet
BY DEF LocTyped, Locals, Sames, Picks, Unites

\* The cleared locals are of the right types.
LEMMA NoneTyped == NoSame \in Sames /\ NoPick \in Picks /\ NoUnite \in Unites
BY SlotZero DEF NoSame, NoPick, NoUnite, Sames, Picks, Unites, WorkerSet

\* A call of find with a single return label.
LEMMA CallFindOnceTyped ==
  ASSUME NEW callers, ControlTyped(callers), NEW w \in Worker, NEW state \in Slot,
         NEW label \in Back(callers), CallFind(w, state, <<label>>)
  PROVE  ControlTyped(callers)'
<1>1. <<label>> \in Seq(Back(callers))
  OBVIOUS
<1>. QED
  BY <1>1, CallFindTyped

\* The steps of find keep the types.
LEMMA FindTyped ==
  ASSUME NEW callers, Typed(callers), NEW w \in Worker, FindRead(w) \/ FindCompress(w)
  PROVE  Typed(callers)'
<1>1. path[w] \in Seq(Slot) /\ path[w] # <<>>
  BY DEF Typed, ControlTyped, FindRead, FindCompress
<1>2. path[w][Len(path[w])] \in Slot
  BY <1>1
<1>3. LocTyped'
  BY DEF Typed, LocTyped, FindRead, FindCompress
<1>4. CASE FindRead(w)
  <2> DEFINE state  == path[w][Len(path[w])]
             parent == uf[state].parent
             rest   == ToCompress(path[w])
  <2>1. parent \in Slot
    BY <1>2 DEF Typed, UfTyped, Entry
  <2>2. rest \in Seq(Slot)
    BY <1>1 DEF ToCompress
  <2>3. UfTyped'
    BY <1>4 DEF Typed, UfTyped, FindRead
  <2>4. CASE parent # 0
    <3>1. path' = [path EXCEPT ![w] = Append(@, parent)] /\ UNCHANGED control
      BY <1>4, <2>4 DEF FindRead
    <3>2. Append(path[w], parent) \in Seq(Slot) /\ Append(path[w], parent) # <<>>
      BY <1>1, <2>1
    <3>. QED
      BY <3>1, <3>2, <2>3, <1>3 DEF Typed, ControlTyped, control
  <2>5. CASE parent = 0
    <3>1. path' = [path EXCEPT ![w] = rest]
      BY <1>4, <2>5 DEF FindRead
    <3>2. path' \in [Worker -> Seq(Slot)] /\ path'[w] = rest /\ \A x \in Worker \ {w} : path'[x] = path[x]
      BY <3>1, <2>2 DEF Typed, ControlTyped
    <3>3. CASE rest = <<>>
      <4>1. Return(w, "find", state)
        BY <1>4, <2>5, <3>3 DEF FindRead
      <4>. QED
        BY <4>1, <3>2, <2>3, <1>2, <1>3, ReturnTyped DEF Typed, Codes
    <3>4. CASE rest # <<>>
      <4>1. /\ pc' = [pc EXCEPT ![w] = "compress"]
            /\ ret' = [ret EXCEPT ![w] = [code |-> "find", node |-> state]]
            /\ UNCHANGED stack
        BY <1>4, <2>5, <3>4 DEF FindRead
      <4>2. pc' \in [Worker -> Labels \cup callers]
        BY <4>1 DEF Typed, ControlTyped, Labels
      <4>3. ret' \in [Worker -> [code : Codes, node : Slot]]
        BY <4>1, <1>2 DEF Typed, ControlTyped, Codes
      <4>. QED
        BY <4>1, <4>2, <4>3, <3>2, <3>4, <2>3, <1>3 DEF Typed, ControlTyped
    <3>. QED
      BY <3>3, <3>4
  <2>. QED
    BY <2>4, <2>5
<1>5. CASE FindCompress(w)
  <2> DEFINE last == Len(path[w])
             rest == SubSeq(path[w], 1, last - 1)
  <2>1. ret[w].node \in Slot
    BY DEF Typed, ControlTyped
  <2>2. UfTyped'
    BY <1>2, <1>5, <2>1 DEF Typed, UfTyped, FindCompress, Entry
  <2>3. rest \in Seq(Slot) /\ (last > 1 => rest # <<>>)
    <3>1. last \in Nat /\ last > 0
      BY <1>1
    <3>2. rest \in Seq(Slot) /\ Len(rest) = last - 1
      BY <1>1, <3>1
    <3>3. rest = <<>> => Len(rest) = 0
      BY EmptySeq
    <3>. QED
      BY <3>1, <3>2, <3>3
  <2>4. path' \in [Worker -> Seq(Slot)] /\ path'[w] = rest /\ \A x \in Worker \ {w} : path'[x] = path[x]
    BY <1>5, <2>3 DEF Typed, ControlTyped, FindCompress
  <2>5. CASE last > 1
    BY <1>3, <1>5, <2>2, <2>3, <2>4, <2>5 DEF Typed, ControlTyped, FindCompress, control
  <2>6. CASE ~(last > 1)
    BY <1>3, <1>5, <2>1, <2>2, <2>4, <2>6, ReturnTyped DEF Typed, FindCompress, Codes
  <2>. QED
    BY <2>5, <2>6
<1>. QED
  BY <1>4, <1>5

\* The steps of make_claim keep the types.
LEMMA ClaimTyped ==
  ASSUME NEW callers, Typed(callers), NEW w \in Worker,
         ClaimDead(w) \/ ClaimFound(w) \/ ClaimOr(w) \/ ClaimCheck(w)
  PROVE  Typed(callers)'
<1>1. ret[w].node \in Slot
  BY DEF Typed, ControlTyped
<1>2. {"claim_found", "claim_or", "claim_check", "claim_again"} \subseteq Back(callers)
  BY DEF Back, Labels
<1>3. {"CLAIM_DEAD", "CLAIM_FOUND", "CLAIM_FIRST", "CLAIM_SUCCESS"} \subseteq Codes
  BY DEF Codes
<1>4. UNCHANGED path => path' \in [Worker -> Seq(Slot)] /\ \A x \in Worker \ {w} : path'[x] = path[x]
  BY DEF Typed, ControlTyped
<1>5. CASE ClaimDead(w)
  <2>1. UfTyped' /\ LocTyped'
    BY <1>5 DEF Typed, UfTyped, LocTyped, ClaimDead
  <2>. QED
    BY <1>2, <1>3, <1>4, <1>5, <2>1, GotoTyped, ReturnTyped, SlotZero DEF Typed, ClaimDead
<1>6. CASE ClaimFound(w)
  <2>1. UfTyped' /\ LocTyped'
    BY <1>6 DEF Typed, UfTyped, LocTyped, ClaimFound
  <2>. QED
    BY <1>2, <1>3, <1>4, <1>6, <2>1, GotoTyped, ReturnTyped, SlotZero DEF Typed, ClaimFound
<1>7. CASE ClaimOr(w)
  <2>1. w_id(w) \in WorkerSet
    BY UFConstants DEF w_id, WorkerSet, Worker
  <2>2. uf[ret[w].node].workers \cup w_id(w) \in WorkerSet
    BY <1>1, <2>1 DEF Typed, UfTyped, Entry, WorkerSet
  <2>3. UfTyped'
    <3> DEFINE bits == uf[ret[w].node].workers \cup w_id(w)
    <3>1. uf' = [uf EXCEPT ![ret[w].node].workers = bits] /\ UNCHANGED G_Color
      BY <1>7 DEF ClaimOr
    <3>2. bits \in WorkerSet
      BY <2>2
    <3> HIDE DEF bits
    <3>. QED
      BY <1>1, <3>1, <3>2 DEF Typed, UfTyped, Entry
  <2>4. LocTyped'
    <3>1. PICK first \in BOOLEAN : loc' = [loc EXCEPT ![w].first = first]
      <4>1. loc[w].first \in BOOLEAN
        BY DEF Typed, LocTyped, Locals
      <4>. QED
        BY <1>7, <4>1 DEF ClaimOr, Unclaimed
    <3>. QED
      BY <3>1 DEF Typed, LocTyped, Locals
  <2>. QED
    BY <1>2, <1>7, <2>3, <2>4, GotoTyped DEF Typed, ClaimOr
<1>8. CASE ClaimCheck(w)
  <2>1. UfTyped'
    BY <1>8 DEF Typed, UfTyped, ClaimCheck
  <2>2. LocTyped'
    BY <1>8 DEF Typed, LocTyped, ClaimCheck, Locals
  <2>3. ASSUME CallFind(w, ret[w].node, <<"claim_again">>)
        PROVE  ControlTyped(callers)'
    BY <1>1, <1>2, <2>3, CallFindOnceTyped DEF Typed
  <2>. QED
    BY <1>3, <1>4, <1>8, <2>1, <2>2, <2>3, ReturnTyped, SlotZero DEF Typed, ClaimCheck
<1>. QED
  BY <1>5, <1>6, <1>7, <1>8

\* The steps of sameset keep the types.
LEMMA SameTyped ==
  ASSUME NEW callers, Typed(callers), NEW w \in Worker, SameB(w) \/ SameA(w) \/ SameRetry(w)
  PROVE  Typed(callers)'
<1>1. ret[w].node \in Slot
  BY DEF Typed, ControlTyped
<1>2. {"same_b", "same_a", "same_retry"} \subseteq Back(callers)
  BY DEF Back, Labels
<1>3. {"same", "different"} \subseteq Codes
  BY DEF Codes
<1>4. UNCHANGED path => path' \in [Worker -> Seq(Slot)] /\ \A x \in Worker \ {w} : path'[x] = path[x]
  BY DEF Typed, ControlTyped
<1>5. loc[w].same.a \in Slot /\ loc[w].same.b \in Slot
  BY LocalsTyped DEF Typed
<1>6. UfTyped'
  BY DEF Typed, UfTyped, SameB, SameA, SameRetry
<1>7. ASSUME NEW same \in Sames, loc' = [loc EXCEPT ![w].same = same]
      PROVE  LocTyped'
  BY <1>7 DEF Typed, LocTyped, Locals
<1>8. \A code : SameReturn(w, code) => LocTyped'
  BY <1>7, NoneTyped DEF SameReturn
<1>9. \A code \in {"same", "different"} : SameReturn(w, code) /\ UNCHANGED path => Typed(callers)'
  BY <1>3, <1>4, <1>6, <1>8, ReturnTyped, SlotZero DEF Typed, SameReturn
<1>10. CASE SameB(w)
  <2>1. ASSUME loc' = [loc EXCEPT ![w].same.b = ret[w].node]
        PROVE  LocTyped'
    BY <1>1, <2>1 DEF Typed, LocTyped, Locals, Sames
  <2>. QED
    BY <1>2, <1>6, <1>9, <1>10, <2>1, ResumeTyped DEF Typed, SameB
<1>11. CASE SameA(w)
  <2>1. ASSUME UNCHANGED loc
        PROVE  LocTyped'
    BY <2>1 DEF Typed, LocTyped
  <2>2. ASSUME CallFind(w, loc[w].same.a, <<"same_retry">>)
        PROVE  ControlTyped(callers)'
    BY <1>2, <1>5, <2>2, CallFindOnceTyped DEF Typed
  <2>. QED
    BY <1>6, <1>9, <1>11, <2>1, <2>2 DEF Typed, SameA
<1>12. CASE SameRetry(w)
  <2>1. [a |-> ret[w].node, b |-> 0] \in Sames
    BY <1>1, SlotZero DEF Sames
  <2>2. ASSUME CallFind(w, loc[w].same.b, <<"same_b">>)
        PROVE  ControlTyped(callers)'
    BY <1>2, <1>5, <2>2, CallFindOnceTyped DEF Typed
  <2>. QED
    BY <1>6, <1>7, <1>9, <1>12, <2>1, <2>2 DEF Typed, SameRetry
<1>. QED
  BY <1>10, <1>11, <1>12

\* The steps of pick_from_list, mark_dead and remove_from_list keep the types.
LEMMA PickTyped ==
  ASSUME NEW callers, Typed(callers), NEW w \in Worker,
         \/ PickA(w) \/ PickNext(w) \/ PickB(w) \/ PickC(w) \/ PickCompare(w)
         \/ PickWrite(w) \/ MarkDead(w) \/ Remove(w) \/ RemoveColor(w)
  PROVE  Typed(callers)'
<1>1. ret[w].node \in Slot
  BY DEF Typed, ControlTyped
<1>2. {"pick_a", "pick_next", "pick_b", "pick_c", "pick_compare", "pick_write", "mark_dead",
       "remove_color"} \subseteq Back(callers)
  BY DEF Back, Labels
<1>3. {"PICK_SUCCESS", "PICK_MARK_DEAD", "PICK_DEAD", "removed"} \subseteq Codes
  BY DEF Codes
<1>4. UNCHANGED path => path' \in [Worker -> Seq(Slot)] /\ \A x \in Worker \ {w} : path'[x] = path[x]
  BY DEF Typed, ControlTyped
<1>5. loc[w].pick.a \in Slot /\ loc[w].pick.b \in Slot /\ loc[w].pick.c \in Slot
  BY LocalsTyped DEF Typed
<1>6. UNCHANGED <<uf, G_Color>> => UfTyped'
  BY DEF Typed, UfTyped
<1>7. UNCHANGED loc => LocTyped'
  BY DEF Typed, LocTyped
<1>8. ASSUME NEW pick \in Picks, loc' = [loc EXCEPT ![w].pick = pick]
      PROVE  LocTyped'
  BY <1>8 DEF Typed, LocTyped, Locals
<1>9. \A code \in {"PICK_SUCCESS", "PICK_MARK_DEAD", "PICK_DEAD", "removed"}, node \in Slot :
        PickReturn(w, code, node) /\ UNCHANGED path => ControlTyped(callers)' /\ LocTyped'
  BY <1>3, <1>4, <1>8, NoneTyped, ReturnTyped DEF Typed, PickReturn
<1>10. \A label \in Back(callers) : Goto(w, label) /\ UNCHANGED path => ControlTyped(callers)'
  BY GotoTyped DEF Typed
<1>11. \A s \in Slot : uf[s].list_next \in Slot
  BY DEF Typed, UfTyped, Entry
<1>12. CASE PickA(w)
  BY <1>2, <1>5, <1>6, <1>7, <1>9, <1>10, <1>12 DEF Typed, PickA
<1>13. CASE PickNext(w)
  <2>1. ASSUME NEW b \in Slot, loc' = [loc EXCEPT ![w].pick.b = b]
        PROVE  LocTyped'
    BY <2>1 DEF Typed, LocTyped, Locals, Picks
  <2>2. ASSUME CallFind(w, loc[w].pick.a, <<"mark_dead">>)
        PROVE  ControlTyped(callers)'
    BY <1>2, <1>5, <2>2, CallFindOnceTyped DEF Typed
  <2>. QED
    BY <1>2, <1>5, <1>6, <1>7, <1>10, <1>11, <1>13, <2>1, <2>2 DEF Typed, PickNext
<1>14. CASE PickB(w)
  BY <1>2, <1>5, <1>6, <1>7, <1>9, <1>10, <1>14 DEF Typed, PickB
<1>15. CASE PickC(w)
  <2>1. loc' = [loc EXCEPT ![w].pick.c = uf[loc[w].pick.b].list_next]
    BY <1>15 DEF PickC
  <2>2. LocTyped'
    BY <1>5, <1>11, <2>1 DEF Typed, LocTyped, Locals, Picks
  <2>. QED
    BY <1>2, <1>6, <1>10, <1>15, <2>2 DEF Typed, PickC
<1>16. ASSUME ContinueFromC(w), UNCHANGED path
       PROVE  ControlTyped(callers)' /\ LocTyped'
  <2>1. [NoPick EXCEPT !.a = loc[w].pick.c] \in Picks
    BY <1>5, NoneTyped DEF Picks
  <2>2. LocTyped'
    BY <1>8, <1>16, <2>1 DEF ContinueFromC
  <2>. QED
    BY <1>2, <1>10, <1>16, <2>2 DEF ContinueFromC
<1>17. CASE PickCompare(w)
  BY <1>2, <1>6, <1>7, <1>10, <1>16, <1>17 DEF Typed, PickCompare
<1>18. CASE PickWrite(w)
  <2>1. uf' = [uf EXCEPT ![loc[w].pick.a].list_next = loc[w].pick.c] /\ UNCHANGED G_Color
    BY <1>18 DEF PickWrite
  <2>2. UfTyped'
    BY <1>5, <2>1 DEF Typed, UfTyped, Entry
  <2>. QED
    BY <1>16, <1>18, <2>2 DEF Typed, PickWrite
<1>19. CASE MarkDead(w)
  <2>1. ASSUME uf' = [uf EXCEPT ![ret[w].node].uf_status = DEAD], UNCHANGED G_Color
        PROVE  UfTyped'
    BY <1>1, <2>1 DEF Typed, UfTyped, Entry
  <2>. QED
    BY <1>6, <1>9, <1>19, <2>1, SlotZero DEF Typed, MarkDead
<1>20. CASE Remove(w)
  <2>1. ASSUME uf' = [uf EXCEPT ![loc[w].pick.a].list_status = TOMB], UNCHANGED G_Color
        PROVE  UfTyped'
    BY <1>5, <2>1 DEF Typed, UfTyped, Entry
  <2>. QED
    BY <1>2, <1>6, <1>7, <1>9, <1>10, <1>20, <2>1, SlotZero DEF Typed, Remove
<1>21. CASE RemoveColor(w)
  <2>1. UfTyped'
    BY <1>21 DEF Typed, UfTyped, RemoveColor
  <2>. QED
    BY <1>9, <1>21, <2>1, SlotZero DEF Typed, RemoveColor
<1>. QED
  BY <1>12, <1>13, <1>14, <1>15, <1>17, <1>18, <1>19, <1>20, <1>21

\* The steps of unite and of the locks keep the types.
LEMMA UniteTyped ==
  ASSUME NEW callers, Typed(callers), NEW w \in Worker,
         \/ UniteFindB(w) \/ UniteRoots(w) \/ LockUf(w) \/ LockUfCheck(w) \/ LockUfUndo(w)
         \/ LockListA(w) \/ LockListB(w) \/ SwapLists(w) \/ SetParent(w)
         \/ ReadQw(w) \/ CompareRw(w) \/ AddQw(w) \/ CheckR(w) \/ FoundR(w)
         \/ UnlockListA(w) \/ UnlockListB(w) \/ UnlockUf(w)
  PROVE  Typed(callers)'
<1> DEFINE u == loc[w].unite
<1>1. ret[w].node \in Slot
  BY DEF Typed, ControlTyped
<1>2. {"unite_a", "unite_b", "lock_uf", "lock_uf_check", "lock_uf_undo", "list_a", "list_b", "swap",
       "set_parent", "read_qw", "compare_rw", "add_qw", "check_r", "found_r", "unlock_a", "unlock_b",
       "unlock_uf", "pick_a"} \subseteq Back(callers)
  BY DEF Back, Labels
<1>3. /\ u.a \in Slot /\ u.b \in Slot /\ u.ar \in Slot /\ u.q \in Slot /\ u.r \in Slot
      /\ u.al \in Slot /\ u.bl \in Slot /\ u.up \in Slot /\ u.qw \in WorkerSet /\ u \in Unites
  BY LocalsTyped DEF Typed
<1>4. UNCHANGED <<uf, G_Color>> => UfTyped'
  BY DEF Typed, UfTyped
<1>5. UNCHANGED loc => LocTyped'
  BY DEF Typed, LocTyped
<1>6. ASSUME NEW unite \in Unites, loc' = [loc EXCEPT ![w].unite = unite]
      PROVE  LocTyped'
  BY <1>6 DEF Typed, LocTyped, Locals
<1>7. ASSUME UniteReturn(w), UNCHANGED path
      PROVE  ControlTyped(callers)' /\ LocTyped'
  <2>1. path' \in [Worker -> Seq(Slot)] /\ \A x \in Worker \ {w} : path'[x] = path[x]
    BY <1>7 DEF Typed, ControlTyped
  <2>2. "united" \in Codes
    BY DEF Codes
  <2>. QED
    BY <1>6, <1>7, <2>1, <2>2, NoneTyped, ReturnTyped, SlotZero DEF Typed, UniteReturn
<1>8. \A label \in Back(callers) : Goto(w, label) /\ UNCHANGED path => ControlTyped(callers)'
  BY GotoTyped DEF Typed
<1>9. \A label \in Back(callers) : Resume(w, label) /\ UNCHANGED path => ControlTyped(callers)'
  BY ResumeTyped DEF Typed
<1>10. ASSUME NEW s \in Slot, NEW label \in Back(callers), CallFind(w, s, <<label>>)
       PROVE  ControlTyped(callers)'
  BY <1>10, CallFindOnceTyped DEF Typed
<1>11. ASSUME NEW label \in Back(callers), Call(w, "pick_a", <<label>>), UNCHANGED path
       PROVE  ControlTyped(callers)'
  <2>1. <<label>> \in Seq(Back(callers))
    OBVIOUS
  <2>. QED
    BY <1>2, <1>11, <2>1, CallTyped DEF Typed
<1>12. ASSUME NEW s \in Slot, NEW label \in Back(callers), CallPick(w, s, <<label>>), UNCHANGED path
       PROVE  ControlTyped(callers)' /\ LocTyped'
  <2>1. [NoPick EXCEPT !.a = s] \in Picks
    BY NoneTyped DEF Picks
  <2>2. LocTyped'
    BY <1>12, <2>1 DEF Typed, LocTyped, Locals, CallPick
  <2>. QED
    BY <1>11, <1>12, <2>2 DEF CallPick
<1>13. ASSUME NEW s \in Slot, NEW status \in {LIVE, LOCK, DEAD}, UNCHANGED G_Color,
              uf' = [uf EXCEPT ![s].uf_status = status]
       PROVE  UfTyped'
  BY <1>13 DEF Typed, UfTyped, Entry
<1>14. ASSUME NEW s \in Slot, NEW status \in {LIVE, LOCK, TOMB}, UNCHANGED G_Color,
              uf' = [uf EXCEPT ![s].list_status = status]
       PROVE  UfTyped'
  BY <1>14 DEF Typed, UfTyped, Entry
<1>15. ASSUME UniteRetry(w)
       PROVE  ControlTyped(callers)' /\ LocTyped'
  <2>1. [u EXCEPT !.q = 0, !.r = 0] \in Unites
    BY <1>3, SlotZero DEF Unites
  <2>2. LocTyped'
    BY <1>6, <1>15, <2>1 DEF UniteRetry
  <2>. QED
    BY <1>2, <1>3, <1>10, <1>15, <2>2 DEF UniteRetry
<1>16. CASE UniteFindB(w)
  <2>1. loc' = [loc EXCEPT ![w].unite.ar = ret[w].node]
    BY <1>16 DEF UniteFindB
  <2>2. LocTyped'
    BY <1>1, <2>1 DEF Typed, LocTyped, Locals, Unites
  <2>. QED
    BY <1>2, <1>3, <1>4, <1>10, <1>16, <2>2 DEF Typed, UniteFindB
<1>17. CASE UniteRoots(w)
  <2>1. Roles(u, u.ar, ret[w].node) \in Unites
    BY <1>1, <1>3 DEF Roles, Unites
  <2>. QED
    BY <1>2, <1>4, <1>6, <1>7, <1>9, <1>17, <2>1 DEF Typed, UniteRoots
<1>18. CASE LockUf(w)
  BY <1>2, <1>3, <1>4, <1>5, <1>8, <1>13, <1>15, <1>18 DEF Typed, LockUf
<1>19. CASE LockUfCheck(w)
  BY <1>2, <1>3, <1>4, <1>5, <1>8, <1>12, <1>19 DEF Typed, LockUfCheck
<1>20. CASE LockUfUndo(w)
  BY <1>3, <1>13, <1>15, <1>20 DEF Typed, LockUfUndo
<1>21. CASE LockListA(w)
  <2>1. ASSUME loc' = [loc EXCEPT ![w] = [@ EXCEPT !.unite.al = ret[w].node, !.pick.a = u.b]]
        PROVE  LocTyped'
    <3>1. [u EXCEPT !.al = ret[w].node] \in Unites
      BY <1>1, <1>3 DEF Unites
    <3>2. [loc[w].pick EXCEPT !.a = u.b] \in Picks
      BY <1>3, LocalsTyped DEF Typed, Picks
    <3>3. [loc[w] EXCEPT !.unite.al = ret[w].node, !.pick.a = u.b] \in Locals
      BY <3>1, <3>2 DEF Typed, LocTyped, Locals
    <3>. QED
      BY <2>1, <3>3 DEF Typed, LocTyped
  <2>. QED
    BY <1>1, <1>2, <1>3, <1>4, <1>7, <1>11, <1>12, <1>14, <1>21, <2>1 DEF Typed, LockListA
<1>22. CASE LockListB(w)
  <2>1. ASSUME loc' = [loc EXCEPT ![w].unite.bl = ret[w].node]
        PROVE  LocTyped'
    BY <1>1, <2>1 DEF Typed, LocTyped, Locals, Unites
  <2>. QED
    BY <1>1, <1>2, <1>3, <1>4, <1>7, <1>9, <1>12, <1>14, <1>22, <2>1 DEF Typed, LockListB
<1>23. CASE SwapLists(w)
  <2>1. uf' = Swapped(u.al, u.bl) /\ UNCHANGED G_Color
    BY <1>23 DEF SwapLists
  <2>2. NextOrSelf(u.al) \in Slot /\ NextOrSelf(u.bl) \in Slot
    BY <1>3 DEF NextOrSelf, Typed, UfTyped, Entry
  <2>3. UfTyped'
    <3> DEFINE x == NextOrSelf(u.bl)
               y == NextOrSelf(u.al)
    <3>1. uf' = [uf EXCEPT ![u.al].list_next = x, ![u.bl].list_next = y]
      BY <2>1 DEF Swapped
    <3>2. u.al \in Slot /\ u.bl \in Slot /\ x \in Slot /\ y \in Slot
      BY <1>3, <2>2
    <3> HIDE DEF u, x, y
    <3>. QED
      BY <2>1, <3>1, <3>2 DEF Typed, UfTyped, Entry
  <2>. QED
    BY <1>2, <1>5, <1>8, <1>23, <2>3 DEF Typed, SwapLists
<1>24. CASE SetParent(w)
  <2>1. uf' = [uf EXCEPT ![u.q].parent = u.r] /\ UNCHANGED G_Color
    BY <1>24 DEF SetParent, Merged
  <2>2. UfTyped'
    BY <1>3, <2>1 DEF Typed, UfTyped, Entry
  <2>. QED
    BY <1>2, <1>5, <1>8, <1>24, <2>2 DEF Typed, SetParent
<1>25. CASE ReadQw(w)
  <2>1. loc' = [loc EXCEPT ![w].unite.qw = uf[u.q].workers]
    BY <1>25 DEF ReadQw
  <2>2. uf[u.q].workers \in WorkerSet
    BY <1>3 DEF Typed, UfTyped, Entry
  <2>3. LocTyped'
    BY <2>1, <2>2 DEF Typed, LocTyped, Locals, Unites
  <2>. QED
    BY <1>2, <1>4, <1>8, <1>25, <2>3 DEF Typed, ReadQw
<1>26. CASE CompareRw(w)
  <2>1. loc' = [loc EXCEPT ![w].unite.up = u.r]
    BY <1>26 DEF CompareRw
  <2>2. LocTyped'
    BY <1>3, <2>1 DEF Typed, LocTyped, Locals, Unites
  <2>. QED
    BY <1>2, <1>4, <1>8, <1>26, <2>2 DEF Typed, CompareRw
<1>27. CASE AddQw(w)
  <2>1. uf' = [uf EXCEPT ![u.up].workers = @ \cup u.qw] /\ UNCHANGED G_Color
    BY <1>27 DEF AddQw
  <2>2. uf[u.up].workers \cup u.qw \in WorkerSet
    BY <1>3 DEF Typed, UfTyped, Entry, WorkerSet
  <2>3. UfTyped'
    BY <1>3, <2>1, <2>2 DEF Typed, UfTyped, Entry
  <2>. QED
    BY <1>2, <1>5, <1>8, <1>27, <2>3 DEF Typed, AddQw
<1>28. CASE CheckR(w)
  BY <1>2, <1>3, <1>4, <1>5, <1>8, <1>10, <1>28 DEF Typed, CheckR
<1>29. CASE FoundR(w)
  <2>1. loc' = [loc EXCEPT ![w].unite.up = ret[w].node]
    BY <1>29 DEF FoundR
  <2>2. LocTyped'
    BY <1>1, <2>1 DEF Typed, LocTyped, Locals, Unites
  <2>. QED
    BY <1>2, <1>4, <1>9, <1>29, <2>2 DEF Typed, FoundR
<1>30. CASE UnlockListA(w)
  BY <1>2, <1>3, <1>5, <1>8, <1>14, <1>30 DEF Typed, UnlockListA, Unlocked
<1>31. CASE UnlockListB(w)
  BY <1>2, <1>3, <1>5, <1>8, <1>14, <1>31 DEF Typed, UnlockListB, Unlocked
<1>32. CASE UnlockUf(w)
  BY <1>3, <1>7, <1>13, <1>32 DEF Typed, UnlockUf
<1>. QED
  BY <1>16, <1>17, <1>18, <1>19, <1>20, <1>21, <1>22, <1>23, <1>24, <1>25, <1>26, <1>27, <1>28,
     <1>29, <1>30, <1>31, <1>32

\* Every step of the union-find keeps the types.
LEMMA UFStepTyped ==
  ASSUME NEW callers, Typed(callers), NEW w \in Worker, UFStep(w)
  PROVE  Typed(callers)'
BY FindTyped, ClaimTyped, SameTyped, PickTyped, UniteTyped DEF UFStep
-----------------------------------------------------------------------------
(* Parents and locks *)

\* Why parents increase: a call of find has gone up from state to state, what it
\* will write is above every state it still has to write to, and unite has
\* sorted the roots it is about to link.
Ascending(p) == \A i, j \in 1 .. Len(p) : i < j => p[i] < p[j]

Upward ==
  /\ ParentIncreasing
  /\ \A w \in Worker :
       /\ Ascending(path[w])
       /\ pc[w] = "compress" => \A i \in 1 .. Len(path[w]) : path[w][i] < ret[w].node
       /\ loc[w].unite.q < loc[w].unite.r \/ (loc[w].unite.q = 0 /\ loc[w].unite.r = 0)

\* The half of LocksOwned that the unlocks rely on: what a worker unlocks is
\* locked, and by nobody else.
Locked ==
  \A w \in Worker :
    /\ \A n \in HoldsUf(w) : uf[n].uf_status = LOCK
    /\ \A n \in HoldsList(w) : uf[n].list_status = LOCK
    /\ \A x \in Worker \ {w} :
         HoldsUf(w) \cap HoldsUf(x) = {} /\ HoldsList(w) \cap HoldsList(x) = {}
    /\ loc[w].unite.al # 0 => loc[w].unite.al # loc[w].unite.bl

(* How a step of worker w can leave them alone *)

OthersKept(w) ==
  \A x \in Worker \ {w} :
    pc'[x] = pc[x] /\ ret'[x] = ret[x] /\ path'[x] = path[x] /\ loc'[x] = loc[x]

PathKept(w) ==
  /\ pc'[w] # "compress"
  /\ path'[w] = path[w] \/ \E s \in Slot : path'[w] = <<s>>

UniteKept(w) ==
  LET u == loc[w].unite
      v == loc'[w].unite
  IN  /\ \/ v.q = u.q /\ v.r = u.r /\ pc[w] # "lock_uf"
         \/ v.q = 0 /\ v.r = 0
      /\ \/ v.al = u.al /\ v.bl = u.bl /\ pc[w] \notin {"unlock_b", "unlock_uf"}
         \/ v.al = 0 /\ v.bl = 0

\* A step that changes no parent and no path keeps Upward, whatever it does to q and r.
LEMMA UpwardKept ==
  ASSUME NEW callers, Typed(callers), Upward, NEW w \in Worker, OthersKept(w), PathKept(w),
         \/ loc'[w].unite.q = loc[w].unite.q /\ loc'[w].unite.r = loc[w].unite.r
         \/ loc'[w].unite.q = 0 /\ loc'[w].unite.r = 0
         \/ loc'[w].unite.q < loc'[w].unite.r,
         \A s \in Slot : uf'[s].parent = uf[s].parent
  PROVE  Upward'
<1>1. ParentIncreasing'
  BY DEF Upward, ParentIncreasing
<1>2. Ascending(path[w])'
  <2>1. CASE path'[w] = path[w]
    BY <2>1 DEF Upward, Ascending
  <2>2. ASSUME NEW s \in Slot, path'[w] = <<s>>
        PROVE  Ascending(path[w])'
    <3>1. Len(path'[w]) = 1
      BY <2>2
    <3>. QED
      BY <3>1 DEF Ascending
  <2>. QED
    BY <2>1, <2>2 DEF PathKept
<1>3. \A x \in Worker \ {w} :
        /\ Ascending(path[x])'
        /\ pc'[x] = "compress" => \A i \in 1 .. Len(path'[x]) : path'[x][i] < ret'[x].node
        /\ loc'[x].unite.q < loc'[x].unite.r \/ (loc'[x].unite.q = 0 /\ loc'[x].unite.r = 0)
  BY DEF Upward, OthersKept, Ascending
<1>4. loc'[w].unite.q < loc'[w].unite.r \/ (loc'[w].unite.q = 0 /\ loc'[w].unite.r = 0)
  BY DEF Upward
<1>. QED
  BY <1>1, <1>2, <1>3, <1>4 DEF Upward, PathKept

\* A worker that goes on in unite without locking holds no more locks than before.
LEMMA HoldsLess ==
  ASSUME NEW w \in Worker, UniteKept(w)
  PROVE  /\ HoldsUf(w)' \subseteq HoldsUf(w) /\ HoldsList(w)' \subseteq HoldsList(w)
         /\ loc'[w].unite.al # 0 =>
              loc'[w].unite.al = loc[w].unite.al /\ loc'[w].unite.bl = loc[w].unite.bl
BY DEF UniteKept, HoldsUf, HoldsList

\* A step of one worker does not change what the others hold.
LEMMA OthersHold ==
  ASSUME NEW w \in Worker, OthersKept(w), NEW x \in Worker \ {w}
  PROVE  HoldsUf(x)' = HoldsUf(x) /\ HoldsList(x)' = HoldsList(x) /\ loc'[x].unite = loc[x].unite
BY DEF OthersKept, HoldsUf, HoldsList

\* Locks are held on nodes only, never on slot 0.
LEMMA HoldsNodes ==
  ASSUME LocTyped, NEW w \in Worker
  PROVE  HoldsUf(w) \subseteq Node /\ HoldsList(w) \subseteq Node
<1>1. Slot \ {0} = Node
  BY UFConstants DEF Slot, Node
<1>. QED
  BY <1>1, LocalsTyped DEF HoldsUf, HoldsList

\* What w stops holding no other worker holds; what is locked stays locked
\* while it is held.
LEMMA LockedKept ==
  ASSUME LocTyped, Locked, NEW w \in Worker, OthersKept(w),
         HoldsUf(w)' \subseteq HoldsUf(w), HoldsList(w)' \subseteq HoldsList(w),
         loc'[w].unite.al # 0 =>
           loc'[w].unite.al = loc[w].unite.al /\ loc'[w].unite.bl = loc[w].unite.bl,
         \A n \in Node : uf[n].uf_status = LOCK /\ n \notin HoldsUf(w) \ HoldsUf(w)'
                           => uf'[n].uf_status = LOCK,
         \A n \in Node : uf[n].list_status = LOCK /\ n \notin HoldsList(w) \ HoldsList(w)'
                           => uf'[n].list_status = LOCK
  PROVE  Locked'
<1>1. ASSUME NEW x \in Worker
      PROVE  /\ HoldsUf(x)' \subseteq HoldsUf(x) /\ HoldsList(x)' \subseteq HoldsList(x)
             /\ loc'[x].unite.al # 0 => loc'[x].unite.al # loc'[x].unite.bl
  BY OthersHold DEF Locked
<1>2. ASSUME NEW x \in Worker, NEW n \in HoldsUf(x)'
      PROVE  uf'[n].uf_status = LOCK
  <2>1. n \in HoldsUf(x) /\ n \in Node /\ uf[n].uf_status = LOCK
    BY <1>1, HoldsNodes DEF Locked
  <2>2. n \notin HoldsUf(w) \ HoldsUf(w)'
    BY <1>2, <2>1 DEF Locked
  <2>. QED
    BY <2>1, <2>2
<1>3. ASSUME NEW x \in Worker, NEW n \in HoldsList(x)'
      PROVE  uf'[n].list_status = LOCK
  <2>1. n \in HoldsList(x) /\ n \in Node /\ uf[n].list_status = LOCK
    BY <1>1, HoldsNodes DEF Locked
  <2>2. n \notin HoldsList(w) \ HoldsList(w)'
    BY <1>3, <2>1 DEF Locked
  <2>. QED
    BY <2>1, <2>2
<1>4. ASSUME NEW x \in Worker, NEW y \in Worker \ {x}
      PROVE  HoldsUf(x)' \cap HoldsUf(y)' = {} /\ HoldsList(x)' \cap HoldsList(y)' = {}
  BY <1>1 DEF Locked
<1>. QED
  BY <1>1, <1>2, <1>3, <1>4 DEF Locked

\* A step that changes neither parents nor statuses keeps Upward and Locked.
LEMMA QuietStep ==
  ASSUME NEW callers, Typed(callers), Upward, Locked, NEW w \in Worker,
         OthersKept(w), PathKept(w), UniteKept(w),
         \A s \in Slot : /\ uf'[s].parent = uf[s].parent
                         /\ uf'[s].uf_status = uf[s].uf_status
                         /\ uf'[s].list_status = uf[s].list_status
  PROVE  Upward' /\ Locked'
<1>1. Upward'
  BY UpwardKept DEF UniteKept
<1>2. Node \subseteq Slot
  BY DEF Node, Slot
<1>. QED
  BY <1>1, <1>2, HoldsLess, LockedKept DEF Typed

\* After a move of the control state, but a call of find, the worker is not in find.
LEMMA ControlMoves ==
  ASSUME NEW callers, ControlTyped(callers), NEW w \in Worker,
         \/ \E label \in Back(callers) : Goto(w, label) \/ Resume(w, label)
         \/ \E label \in Back(callers) : \E backs : Call(w, label, backs)
         \/ \E code : \E node : Return(w, code, node)
  PROVE  /\ pc'[w] \notin {"find", "compress"}
         /\ \A x \in Worker \ {w} : pc'[x] = pc[x] /\ ret'[x] = ret[x]
<1>1. CASE \E label \in Back(callers) : Goto(w, label) \/ Resume(w, label)
  BY <1>1 DEF ControlTyped, Goto, Resume, Back
<1>2. CASE \E label \in Back(callers) : \E backs : Call(w, label, backs)
  BY <1>2 DEF ControlTyped, Call, Back
<1>3. CASE \E code : \E node : Return(w, code, node)
  <2>1. stack[w] \in Seq(Back(callers)) /\ stack[w] # <<>>
    BY <1>3 DEF ControlTyped, Return
  <2>2. stack[w][Len(stack[w])] \in Back(callers)
    BY <2>1
  <2>. QED
    BY <1>3, <2>2 DEF ControlTyped, Return, Back
<1>. QED
  BY <1>1, <1>2, <1>3

\* A call of find starts a path of one slot.
LEMMA CallFindMoves ==
  ASSUME NEW callers, ControlTyped(callers), NEW w \in Worker, NEW s \in Slot, NEW backs,
         CallFind(w, s, backs)
  PROVE  /\ pc'[w] = "find" /\ path'[w] = <<s>>
         /\ \A x \in Worker \ {w} : pc'[x] = pc[x] /\ ret'[x] = ret[x] /\ path'[x] = path[x]
BY DEF ControlTyped, CallFind, Call

\* Goto, Resume, Call and Return where path and the other workers' locals stay
LEMMA PlainKept ==
  ASSUME NEW callers, ControlTyped(callers), NEW w \in Worker, UNCHANGED path,
         \A x \in Worker \ {w} : loc'[x] = loc[x],
         \/ \E label \in Back(callers) : Goto(w, label) \/ Resume(w, label)
         \/ \E label \in Back(callers) : \E backs : Call(w, label, backs)
         \/ \E code : \E node : Return(w, code, node)
  PROVE  OthersKept(w) /\ PathKept(w)
BY ControlMoves DEF OthersKept, PathKept

\* A call of find leaves the other workers and the order of paths alone.
LEMMA CallFindKept ==
  ASSUME NEW callers, ControlTyped(callers), NEW w \in Worker, NEW s \in Slot, NEW backs,
         CallFind(w, s, backs), \A x \in Worker \ {w} : loc'[x] = loc[x]
  PROVE  OthersKept(w) /\ PathKept(w)
BY CallFindMoves DEF OthersKept, PathKept

\* What a step that is neither find's write, a lock, an unlock nor a union does
UfKept ==
  \A s \in Slot : /\ uf'[s].parent = uf[s].parent
                  /\ uf'[s].uf_status = uf[s].uf_status
                  /\ uf'[s].list_status = uf[s].list_status
                  /\ uf[s].workers \subseteq uf'[s].workers

Quiet(w) == OthersKept(w) /\ PathKept(w) /\ UniteKept(w) /\ UfKept

\* make_claim changes neither parents nor statuses.
LEMMA ClaimQuiet ==
  ASSUME NEW callers, Typed(callers), NEW w \in Worker,
         ClaimDead(w) \/ ClaimFound(w) \/ ClaimOr(w) \/ ClaimCheck(w)
  PROVE  Quiet(w)
<1>1. ret[w].node \in Slot
  BY DEF Typed, ControlTyped
<1>2. {"claim_found", "claim_or", "claim_check", "claim_again"} \subseteq Back(callers)
  BY DEF Back, Labels
<1>3. UfKept
  <2>1. CASE ClaimOr(w)
    BY <1>1, <2>1 DEF Typed, UfTyped, Entry, ClaimOr, UfKept
  <2>2. CASE ClaimDead(w) \/ ClaimFound(w) \/ ClaimCheck(w)
    BY <2>2 DEF ClaimDead, ClaimFound, ClaimCheck, UfKept
  <2>. QED
    BY <2>1, <2>2
<1>4. \A x \in Worker : loc'[x].unite = loc[x].unite
  BY DEF Typed, LocTyped, Locals, ClaimDead, ClaimFound, ClaimOr, ClaimCheck
<1>5. \A x \in Worker \ {w} : loc'[x] = loc[x]
  BY DEF Typed, LocTyped, ClaimDead, ClaimFound, ClaimOr, ClaimCheck
<1>6. UniteKept(w)
  BY <1>4 DEF UniteKept, ClaimDead, ClaimFound, ClaimOr, ClaimCheck
<1>7. OthersKept(w) /\ PathKept(w)
  <2>1. CASE ClaimDead(w)
    BY <1>2, <1>5, <2>1, PlainKept DEF Typed, ClaimDead
  <2>2. CASE ClaimFound(w)
    BY <1>2, <1>5, <2>2, PlainKept DEF Typed, ClaimFound
  <2>3. CASE ClaimOr(w)
    BY <1>2, <1>5, <2>3, PlainKept DEF Typed, ClaimOr
  <2>4. CASE ClaimCheck(w)
    BY <1>1, <1>5, <2>4, PlainKept, CallFindKept DEF Typed, ClaimCheck
  <2>. QED
    BY <2>1, <2>2, <2>3, <2>4
<1>. QED
  BY <1>3, <1>6, <1>7 DEF Quiet

\* Neither does sameset.
LEMMA SameQuiet ==
  ASSUME NEW callers, Typed(callers), NEW w \in Worker, SameB(w) \/ SameA(w) \/ SameRetry(w)
  PROVE  Quiet(w)
<1>1. ret[w].node \in Slot /\ loc[w].same.a \in Slot /\ loc[w].same.b \in Slot
  BY LocalsTyped DEF Typed, ControlTyped
<1>2. "same_a" \in Back(callers)
  BY DEF Back, Labels
<1>3. UfKept
  BY DEF SameB, SameA, SameRetry, UfKept
<1>4. \A x \in Worker : loc'[x].unite = loc[x].unite
  BY DEF Typed, LocTyped, Locals, SameB, SameA, SameRetry, SameReturn
<1>5. \A x \in Worker \ {w} : loc'[x] = loc[x]
  BY DEF Typed, LocTyped, SameB, SameA, SameRetry, SameReturn
<1>6. UniteKept(w)
  BY <1>4 DEF UniteKept, SameB, SameA, SameRetry
<1>7. OthersKept(w) /\ PathKept(w)
  <2>1. CASE SameB(w)
    BY <1>2, <1>5, <2>1, PlainKept DEF Typed, SameB, SameReturn
  <2>2. CASE SameA(w)
    BY <1>1, <1>5, <2>2, PlainKept, CallFindKept DEF Typed, SameA, SameReturn
  <2>3. CASE SameRetry(w)
    BY <1>1, <1>5, <2>3, PlainKept, CallFindKept DEF Typed, SameRetry, SameReturn
  <2>. QED
    BY <2>1, <2>2, <2>3
<1>. QED
  BY <1>3, <1>6, <1>7 DEF Quiet

\* Neither does pick_from_list, nor the store of G_Color.
LEMMA PickQuiet ==
  ASSUME NEW callers, Typed(callers), NEW w \in Worker,
         \/ PickA(w) \/ PickNext(w) \/ PickB(w) \/ PickC(w) \/ PickCompare(w)
         \/ PickWrite(w) \/ RemoveColor(w)
  PROVE  Quiet(w)
<1>1. loc[w].pick.a \in Slot /\ loc[w].pick.b \in Slot /\ loc[w].pick.c \in Slot
  BY LocalsTyped DEF Typed
<1>2. {"pick_a", "pick_next", "pick_b", "pick_c", "pick_compare", "pick_write"} \subseteq Back(callers)
  BY DEF Back, Labels
<1>3. UfKept
  <2>1. CASE PickWrite(w)
    BY <1>1, <2>1 DEF Typed, UfTyped, Entry, PickWrite, UfKept
  <2>2. CASE UNCHANGED uf
    BY <2>2 DEF UfKept
  <2>. QED
    BY <2>1, <2>2 DEF PickA, PickNext, PickB, PickC, PickCompare, RemoveColor
<1>4. \A x \in Worker : loc'[x].unite = loc[x].unite
  BY DEF Typed, LocTyped, Locals, PickA, PickNext, PickB, PickC, PickCompare, PickWrite, RemoveColor,
         PickReturn, ContinueFromC
<1>5. \A x \in Worker \ {w} : loc'[x] = loc[x]
  BY DEF Typed, LocTyped, PickA, PickNext, PickB, PickC, PickCompare, PickWrite, RemoveColor,
         PickReturn, ContinueFromC
<1>6. UniteKept(w)
  BY <1>4 DEF UniteKept, PickA, PickNext, PickB, PickC, PickCompare, PickWrite, RemoveColor
<1>7. OthersKept(w) /\ PathKept(w)
  <2>1. CASE PickA(w) \/ PickB(w)
    BY <1>2, <1>5, <2>1, PlainKept DEF Typed, PickA, PickB, PickReturn
  <2>2. CASE PickNext(w)
    BY <1>1, <1>2, <1>5, <2>2, PlainKept, CallFindKept DEF Typed, PickNext
  <2>3. CASE PickC(w) \/ PickCompare(w) \/ PickWrite(w)
    BY <1>2, <1>5, <2>3, PlainKept DEF Typed, PickC, PickCompare, PickWrite, ContinueFromC
  <2>4. CASE RemoveColor(w)
    BY <1>5, <2>4, PlainKept DEF Typed, RemoveColor, PickReturn
  <2>. QED
    BY <2>1, <2>2, <2>3, <2>4
<1>. QED
  BY <1>3, <1>6, <1>7 DEF Quiet

\* Neither do the steps of unite between taking and releasing its locks, but the link.
LEMMA UniteQuiet ==
  ASSUME NEW callers, Typed(callers), NEW w \in Worker,
         \/ UniteFindB(w) \/ LockUfCheck(w) \/ SwapLists(w) \/ ReadQw(w) \/ CompareRw(w)
         \/ AddQw(w) \/ CheckR(w) \/ FoundR(w)
  PROVE  Quiet(w)
<1> DEFINE u == loc[w].unite
<1>1. u.a \in Slot /\ u.b \in Slot /\ u.al \in Slot /\ u.bl \in Slot /\ u.up \in Slot
  BY LocalsTyped DEF Typed
<1>2. {"pick_a", "lock_uf_undo", "set_parent", "compare_rw", "add_qw", "check_r", "unlock_a"}
        \subseteq Back(callers)
  BY DEF Back, Labels
<1>3. UfKept
  <2>1. CASE SwapLists(w)
    <3> DEFINE x == NextOrSelf(u.bl)
               y == NextOrSelf(u.al)
    <3>1. uf \in [Slot -> Entry]
      BY DEF Typed, UfTyped
    <3>2. uf' = [uf EXCEPT ![u.al].list_next = x, ![u.bl].list_next = y]
      BY <2>1 DEF SwapLists, Swapped
    <3> HIDE DEF u, x, y
    <3>. QED
      BY <1>1, <3>1, <3>2 DEF Entry, UfKept
  <2>2. CASE AddQw(w)
    BY <1>1, <2>2 DEF Typed, UfTyped, Entry, AddQw, UfKept
  <2>3. CASE UNCHANGED uf
    BY <2>3 DEF UfKept
  <2>. QED
    BY <2>1, <2>2, <2>3 DEF UniteFindB, LockUfCheck, ReadQw, CompareRw, CheckR, FoundR
<1>4. /\ loc'[w].unite.q = u.q /\ loc'[w].unite.r = u.r
      /\ loc'[w].unite.al = u.al /\ loc'[w].unite.bl = u.bl
  <2>1. CASE UniteFindB(w)
    BY <2>1 DEF Typed, LocTyped, Locals, Unites, UniteFindB
  <2>2. CASE LockUfCheck(w)
    BY <2>2 DEF Typed, LocTyped, Locals, LockUfCheck, CallPick
  <2>3. CASE ReadQw(w)
    BY <2>3 DEF Typed, LocTyped, Locals, Unites, ReadQw
  <2>4. CASE CompareRw(w)
    BY <2>4 DEF Typed, LocTyped, Locals, Unites, CompareRw
  <2>5. CASE FoundR(w)
    BY <2>5 DEF Typed, LocTyped, Locals, Unites, FoundR
  <2>6. CASE SwapLists(w) \/ AddQw(w) \/ CheckR(w)
    BY <2>6 DEF SwapLists, AddQw, CheckR
  <2>. QED
    BY <2>1, <2>2, <2>3, <2>4, <2>5, <2>6
<1>5. \A x \in Worker \ {w} : loc'[x] = loc[x]
  BY DEF Typed, LocTyped, UniteFindB, LockUfCheck, SwapLists, ReadQw, CompareRw, AddQw, CheckR,
         FoundR, CallPick
<1>6. UniteKept(w)
  BY <1>4 DEF UniteKept, UniteFindB, LockUfCheck, SwapLists, ReadQw, CompareRw, AddQw, CheckR, FoundR
<1>7. OthersKept(w) /\ PathKept(w)
  <2>1. CASE UniteFindB(w)
    BY <1>1, <1>5, <2>1, CallFindKept DEF Typed, UniteFindB
  <2>2. CASE LockUfCheck(w)
    BY <1>2, <1>5, <2>2, PlainKept DEF Typed, LockUfCheck, CallPick
  <2>3. CASE SwapLists(w) \/ ReadQw(w) \/ CompareRw(w)
    BY <1>2, <1>5, <2>3, PlainKept DEF Typed, SwapLists, ReadQw, CompareRw
  <2>4. CASE AddQw(w) \/ FoundR(w)
    BY <1>2, <1>5, <2>4, PlainKept DEF Typed, AddQw, FoundR
  <2>5. CASE CheckR(w)
    BY <1>1, <1>2, <1>5, <2>5, PlainKept, CallFindKept DEF Typed, CheckR
  <2>. QED
    BY <2>1, <2>2, <2>3, <2>4, <2>5
<1>. QED
  BY <1>3, <1>6, <1>7 DEF Quiet

(* The find operation *)

\* An ascending path stays so when a higher slot is appended.
LEMMA AscendingAppend ==
  ASSUME NEW s \in Seq(Slot), s # <<>>, Ascending(s), NEW x \in Slot, s[Len(s)] < x
  PROVE  Ascending(Append(s, x))
<1>1. Len(s) \in Nat /\ Len(s) > 0 /\ \A i \in 1 .. Len(s) : s[i] \in Int
  <2>1. Len(s) \in Nat /\ Len(s) > 0
    BY EmptySeq
  <2>2. \A i \in 1 .. Len(s) : s[i] \in Slot
    OBVIOUS
  <2>. QED
    BY <2>1, <2>2, SlotZero
<1>2. Len(Append(s, x)) = Len(s) + 1 /\ Append(s, x)[Len(s) + 1] = x
      /\ \A i \in 1 .. Len(s) : Append(s, x)[i] = s[i]
  OBVIOUS
<1>3. \A i \in 1 .. Len(s) : s[i] < x
  <2> TAKE i \in 1 .. Len(s)
  <2>1. i < Len(s) => s[i] < s[Len(s)]
    BY <1>1 DEF Ascending
  <2>. QED
    BY <1>1, <2>1, SlotZero
<1> SUFFICES ASSUME NEW i \in 1 .. Len(s) + 1, NEW j \in 1 .. Len(s) + 1, i < j
             PROVE  Append(s, x)[i] < Append(s, x)[j]
  BY <1>2 DEF Ascending
<1>4. i \in 1 .. Len(s)
  BY <1>1
<1>5. CASE j = Len(s) + 1
  BY <1>2, <1>3, <1>4, <1>5
<1>6. CASE j \in 1 .. Len(s)
  BY <1>2, <1>4, <1>6 DEF Ascending
<1>. QED
  BY <1>1, <1>5, <1>6

\* A prefix of an ascending path is ascending.
LEMMA AscendingPrefix ==
  ASSUME NEW s \in Seq(Slot), Ascending(s), NEW n \in Int, n <= Len(s)
  PROVE  /\ Ascending(SubSeq(s, 1, n))
         /\ \A i \in 1 .. Len(SubSeq(s, 1, n)) :
              i \in 1 .. Len(s) /\ i <= n /\ SubSeq(s, 1, n)[i] = s[i]
<1>1. Len(s) \in Nat /\ \A i \in 1 .. Len(s) : s[i] \in Slot
  OBVIOUS
<1>2. Len(SubSeq(s, 1, n)) = (IF 1 <= n THEN n ELSE 0)
      /\ \A i \in 1 .. n : SubSeq(s, 1, n)[i] = s[i]
  <2>1. \A i \in 1 .. n : s[i] \in Slot
    BY <1>1
  <2>2. Len(SubSeq(s, 1, n)) = (IF 1 <= n THEN n-1+1 ELSE 0)
        /\ \A i \in 1 .. n-1+1 : SubSeq(s, 1, n)[i] = s[1+i-1]
    BY <2>1, SubSeqProperties
  <2>3. n-1+1 = n /\ \A i \in 1 .. n : 1+i-1 = i
    OBVIOUS
  <2>. QED
    BY <2>2, <2>3
<1>3. \A i \in 1 .. Len(SubSeq(s, 1, n)) : i \in 1 .. Len(s) /\ i <= n /\ i \in 1 .. n
  BY <1>1, <1>2
<1>. QED
  BY <1>2, <1>3 DEF Ascending

\* The steps of find change only the worker's path and control state.
LEMMA FindOthers ==
  ASSUME NEW callers, Typed(callers), NEW w \in Worker, FindRead(w) \/ FindCompress(w)
  PROVE  OthersKept(w) /\ UniteKept(w)
<1>1. CASE FindRead(w)
  <2>1. \A x \in Worker \ {w} : pc'[x] = pc[x] /\ ret'[x] = ret[x]
    <3>1. CASE Return(w, "find", path[w][Len(path[w])])
      BY <3>1, ControlMoves DEF Typed
    <3>2. CASE pc' = [pc EXCEPT ![w] = "compress"]
               /\ ret' = [ret EXCEPT ![w] = [code |-> "find", node |-> path[w][Len(path[w])]]]
      BY <3>2 DEF Typed, ControlTyped
    <3>. QED
      BY <1>1, <3>1, <3>2 DEF FindRead, control
  <2>. QED
    BY <1>1, <2>1 DEF Typed, ControlTyped, FindRead, OthersKept, UniteKept
<1>2. CASE FindCompress(w)
  <2>1. \A x \in Worker \ {w} : pc'[x] = pc[x] /\ ret'[x] = ret[x]
    <3>1. CASE Return(w, "find", ret[w].node)
      BY <3>1, ControlMoves DEF Typed
    <3>. QED
      BY <1>2, <3>1 DEF FindCompress, control
  <2>. QED
    BY <1>2, <2>1 DEF Typed, ControlTyped, FindCompress, OthersKept, UniteKept
<1>. QED
  BY <1>1, <1>2

\* A compression points upwards: the root found is higher than every slot of the path.
LEMMA FindUpward ==
  ASSUME NEW callers, Typed(callers), Upward, NEW w \in Worker, FindRead(w) \/ FindCompress(w)
  PROVE  Upward' /\ \A s \in Slot : uf[s].parent # 0 => uf'[s].parent # 0
<1> DEFINE p    == path[w]
           last == Len(p)
<1>1. p \in Seq(Slot) /\ p # <<>> /\ Ascending(p)
  BY DEF Typed, ControlTyped, FindRead, FindCompress, Upward
<1>2. last \in Nat /\ last > 0 /\ p[last] \in Slot /\ last \in 1 .. last
  BY <1>1, EmptySeq
<1>3. \A x \in Worker \ {w} :
        /\ Ascending(path'[x])
        /\ pc'[x] = "compress" => \A i \in 1 .. Len(path'[x]) : path'[x][i] < ret'[x].node
  BY FindOthers DEF Upward, OthersKept
<1>4. \A x \in Worker : loc'[x].unite.q < loc'[x].unite.r
                          \/ (loc'[x].unite.q = 0 /\ loc'[x].unite.r = 0)
  BY DEF Upward, FindRead, FindCompress
<1>5. CASE FindRead(w)
  <2> DEFINE parent == uf[p[last]].parent
             rest   == SubSeq(p, 1, last - 2)
  <2>1. ParentIncreasing' /\ \A s \in Slot : uf[s].parent # 0 => uf'[s].parent # 0
    BY <1>5 DEF Upward, ParentIncreasing, FindRead
  <2>2. CASE parent # 0
    <3>1. path' = [path EXCEPT ![w] = Append(p, parent)] /\ UNCHANGED control /\ pc[w] = "find"
      BY <1>5, <2>2 DEF FindRead
    <3>2. parent \in Slot /\ p[last] < parent
      BY <1>2, <2>2 DEF Typed, UfTyped, Entry, Upward, ParentIncreasing
    <3>3. Ascending(Append(p, parent))
      BY <1>1, <3>2, AscendingAppend
    <3>4. path'[w] = Append(p, parent) /\ pc'[w] # "compress"
      BY <3>1 DEF Typed, ControlTyped, control
    <3>. QED
      BY <1>3, <1>4, <2>1, <3>3, <3>4 DEF Upward
  <2>3. CASE parent = 0
    <3>1. path' = [path EXCEPT ![w] = rest]
      BY <1>5, <2>3 DEF FindRead, ToCompress
    <3>2. path'[w] = rest
      BY <3>1 DEF Typed, ControlTyped
    <3>3. Ascending(rest) /\ \A i \in 1 .. Len(rest) : i \in 1 .. last /\ i < last /\ rest[i] = p[i]
      BY <1>1, <1>2, AscendingPrefix
    <3>4. \A i \in 1 .. Len(rest) : rest[i] < p[last]
      BY <1>1, <1>2, <3>3 DEF Ascending
    <3>5. pc'[w] = "compress" => ret'[w].node = p[last]
      <4>1. CASE Return(w, "find", p[last])
        BY <4>1, ControlMoves DEF Typed
      <4>2. CASE ret' = [ret EXCEPT ![w] = [code |-> "find", node |-> p[last]]]
        BY <4>2 DEF Typed, ControlTyped
      <4>. QED
        BY <1>5, <2>3, <4>1, <4>2 DEF FindRead
    <3> HIDE DEF rest
    <3>. QED
      BY <1>3, <1>4, <2>1, <3>2, <3>3, <3>4, <3>5 DEF Upward
  <2>. QED
    BY <2>2, <2>3
<1>6. CASE FindCompress(w)
  <2> DEFINE r    == ret[w].node
             rest == SubSeq(p, 1, last - 1)
  <2>1. \A i \in 1 .. last : p[i] < r
    BY <1>6 DEF Upward, FindCompress
  <2>2. r \in Slot /\ p[last] < r
    BY <1>2, <2>1 DEF Typed, ControlTyped
  <2>3. \A s \in Slot : uf'[s].parent = IF s = p[last] THEN r ELSE uf[s].parent
    BY <1>2, <1>6 DEF Typed, UfTyped, Entry, FindCompress
  <2>4. r # 0
    BY <1>2, <2>2 DEF Slot
  <2>5. ParentIncreasing' /\ \A s \in Slot : uf[s].parent # 0 => uf'[s].parent # 0
    BY <2>2, <2>3, <2>4 DEF Upward, ParentIncreasing
  <2>6. path'[w] = rest
    BY <1>6 DEF Typed, ControlTyped, FindCompress
  <2>7. Ascending(rest) /\ \A i \in 1 .. Len(rest) : i \in 1 .. last /\ rest[i] = p[i]
    BY <1>1, <1>2, AscendingPrefix
  <2>8. \A i \in 1 .. Len(rest) : rest[i] < r
    BY <2>1, <2>7
  <2>9. pc'[w] = "compress" => ret'[w].node = r
    <3>1. CASE Return(w, "find", r)
      BY <3>1, ControlMoves DEF Typed
    <3>. QED
      BY <1>6, <3>1 DEF FindCompress, control
  <2> HIDE DEF rest
  <2>. QED
    BY <1>3, <1>4, <2>5, <2>6, <2>7, <2>8, <2>9 DEF Upward
<1>. QED
  BY <1>5, <1>6

\* The steps of find keep the invariants and undo nothing.
LEMMA FindStep ==
  ASSUME NEW callers, Typed(callers), Upward, Locked, NEW w \in Worker,
         FindRead(w) \/ FindCompress(w)
  PROVE  Upward' /\ Locked' /\ NothingUndone
<1>1. \A s \in Slot : /\ uf'[s].uf_status = uf[s].uf_status
                      /\ uf'[s].list_status = uf[s].list_status
                      /\ uf'[s].workers = uf[s].workers
  <2>1. CASE FindRead(w)
    BY <2>1 DEF FindRead
  <2>2. CASE FindCompress(w)
    <3>1. path[w][Len(path[w])] \in Slot
      BY <2>2, EmptySeq DEF Typed, ControlTyped, FindCompress
    <3>. QED
      BY <2>2, <3>1 DEF Typed, UfTyped, Entry, FindCompress
  <2>. QED
    BY <2>1, <2>2
<1>2. Locked'
  <2>1. Node \subseteq Slot
    BY DEF Node, Slot
  <2>. QED
    BY <1>1, <2>1, FindOthers, HoldsLess, LockedKept DEF Typed
<1>. QED
  BY <1>1, <1>2, FindUpward DEF NothingUndone, Node, Slot

(* The steps that write a status or link two roots *)

\* So do mark_dead and the CAS of remove_from_list.
LEMMA ListStep ==
  ASSUME NEW callers, Typed(callers), Upward, Locked, NEW w \in Worker, MarkDead(w) \/ Remove(w)
  PROVE  Upward' /\ Locked' /\ NothingUndone
<1>1. ret[w].node \in Slot /\ loc[w].pick.a \in Slot
  BY LocalsTyped DEF Typed, ControlTyped
<1>2. "remove_color" \in Back(callers)
  BY DEF Back, Labels
<1>3. \A x \in Worker \ {w} : loc'[x] = loc[x]
  BY DEF Typed, LocTyped, MarkDead, Remove, PickReturn
<1>4. OthersKept(w) /\ PathKept(w)
  <2>1. CASE MarkDead(w)
    BY <1>3, <2>1, PlainKept DEF Typed, MarkDead, PickReturn
  <2>2. CASE Remove(w)
    BY <1>2, <1>3, <2>2, PlainKept DEF Typed, Remove, PickReturn
  <2>. QED
    BY <2>1, <2>2
<1>5. loc'[w].unite = loc[w].unite /\ pc[w] \in {"mark_dead", "remove"}
  BY DEF Typed, LocTyped, Locals, MarkDead, Remove, PickReturn
<1>6. UniteKept(w)
  BY <1>5 DEF UniteKept
<1>7. \A s \in Slot :
        /\ uf'[s].parent = uf[s].parent /\ uf'[s].workers = uf[s].workers
        /\ uf[s].uf_status \in {LOCK, DEAD} => uf'[s].uf_status = uf[s].uf_status
        /\ uf[s].list_status \in {LOCK, TOMB} => uf'[s].list_status = uf[s].list_status
  <2>1. CASE MarkDead(w)
    BY <1>1, <2>1 DEF Typed, UfTyped, Entry, MarkDead, LIVE, LOCK, DEAD
  <2>2. CASE Remove(w)
    BY <1>1, <2>2 DEF Typed, UfTyped, Entry, Remove, Removable, LIVE, LOCK, TOMB
  <2>. QED
    BY <2>1, <2>2
<1>8. Upward'
  BY <1>4, <1>5, <1>7, UpwardKept
<1>9. Locked'
  <2>1. Node \subseteq Slot
    BY DEF Node, Slot
  <2>. QED
    BY <1>4, <1>6, <1>7, <2>1, HoldsLess, LockedKept DEF Typed
<1>. QED
  BY <1>7, <1>8, <1>9 DEF NothingUndone, Node, Slot

\* A return from unite drops the locals of unite.
LEMMA UniteReturnKept ==
  ASSUME NEW callers, Typed(callers), NEW w \in Worker, UniteReturn(w), UNCHANGED path
  PROVE  OthersKept(w) /\ PathKept(w) /\ UniteKept(w) /\ loc'[w].unite = NoUnite
<1>1. loc'[w].unite = NoUnite /\ \A x \in Worker \ {w} : loc'[x] = loc[x]
  BY DEF Typed, LocTyped, Locals, UniteReturn
<1>2. OthersKept(w) /\ PathKept(w)
  BY <1>1, PlainKept DEF Typed, UniteReturn
<1>. QED
  BY <1>1, <1>2 DEF UniteKept, NoUnite

\* A retry of unite forgets q and r.
LEMMA UniteRetryKept ==
  ASSUME NEW callers, Typed(callers), NEW w \in Worker, UniteRetry(w),
         pc[w] \notin {"unlock_b", "unlock_uf"}
  PROVE  OthersKept(w) /\ PathKept(w) /\ UniteKept(w) /\ loc'[w].unite.q = 0 /\ loc'[w].unite.r = 0
<1>1. loc[w].unite.a \in Slot
  BY LocalsTyped DEF Typed
<1>2. \A x \in Worker \ {w} : loc'[x] = loc[x]
  BY DEF Typed, LocTyped, UniteRetry
<1>3. loc'[w].unite = [loc[w].unite EXCEPT !.q = 0, !.r = 0]
  BY DEF Typed, LocTyped, Locals, UniteRetry
<1>4. /\ loc'[w].unite.q = 0 /\ loc'[w].unite.r = 0
      /\ loc'[w].unite.al = loc[w].unite.al /\ loc'[w].unite.bl = loc[w].unite.bl
  BY <1>3, LocalsTyped DEF Typed, Unites
<1>5. OthersKept(w) /\ PathKept(w)
  BY <1>1, <1>2, CallFindKept DEF Typed, UniteRetry
<1>. QED
  BY <1>4, <1>5 DEF UniteKept

\* Choosing the lower root as q: the roots are ascending from here on.
LEMMA UniteRootsStep ==
  ASSUME NEW callers, Typed(callers), Upward, Locked, NEW w \in Worker, UniteRoots(w)
  PROVE  Upward' /\ Locked' /\ NothingUndone
<1> DEFINE u == loc[w].unite
<1>1. UNCHANGED uf /\ UNCHANGED path /\ pc[w] = "unite_b"
  BY DEF UniteRoots
<1>2. NothingUndone
  BY <1>1 DEF NothingUndone
<1>3. CASE UniteReturn(w)
  BY <1>1, <1>2, <1>3, UniteReturnKept, QuietStep DEF Typed
<1>4. CASE u.ar # ret[w].node
  <2>1. loc' = [loc EXCEPT ![w].unite = Roles(@, u.ar, ret[w].node)] /\ Resume(w, "lock_uf")
    BY <1>4 DEF UniteRoots, UniteReturn
  <2>2. u \in Unites /\ u.ar \in Slot /\ ret[w].node \in Slot
    BY LocalsTyped DEF Typed, ControlTyped
  <2>3. loc'[w].unite = Roles(u, u.ar, ret[w].node) /\ \A x \in Worker \ {w} : loc'[x] = loc[x]
    BY <2>1 DEF Typed, LocTyped, Locals
  <2>4. /\ loc'[w].unite.q < loc'[w].unite.r
        /\ loc'[w].unite.al = u.al /\ loc'[w].unite.bl = u.bl
    <3>1. u.ar < ret[w].node \/ ret[w].node < u.ar
      BY <1>4, <2>2, SlotZero
    <3>. QED
      BY <2>2, <2>3, <3>1, SlotZero DEF Roles, Unites
  <2>5. "lock_uf" \in Back(callers)
    BY DEF Back, Labels
  <2>6. OthersKept(w) /\ PathKept(w) /\ pc'[w] = "lock_uf"
    BY <1>1, <2>1, <2>3, <2>5, PlainKept DEF Typed, ControlTyped, Resume
  <2>7. Upward'
    BY <1>1, <2>4, <2>6, UpwardKept
  <2>8. HoldsUf(w)' = {} /\ HoldsList(w)' = HoldsList(w)
    BY <1>1, <2>4, <2>6 DEF HoldsUf, HoldsList
  <2>9. Locked'
    <3>1. \A n \in Node : /\ uf[n].uf_status = LOCK => uf'[n].uf_status = LOCK
                          /\ uf[n].list_status = LOCK => uf'[n].list_status = LOCK
      BY <1>1
    <3>. QED
      BY <2>4, <2>6, <2>8, <3>1, LockedKept DEF Typed
  <2>. QED
    BY <1>2, <2>7, <2>9
<1>. QED
  BY <1>3, <1>4 DEF UniteRoots

\* The link: q, locked by this worker, gets the higher r as its parent.
LEMMA UniteLinkStep ==
  ASSUME NEW callers, Typed(callers), Upward, Locked, NEW w \in Worker, SetParent(w)
  PROVE  Upward' /\ Locked' /\ NothingUndone
<1> DEFINE u == loc[w].unite
<1>1. u.q \in Slot /\ u.r \in Slot /\ (u.q < u.r \/ (u.q = 0 /\ u.r = 0))
  BY LocalsTyped DEF Typed, Upward
<1>2. \A s \in Slot : /\ uf'[s].parent = IF s = u.q THEN u.r ELSE uf[s].parent
                      /\ uf'[s].uf_status = uf[s].uf_status
                      /\ uf'[s].list_status = uf[s].list_status
                      /\ uf'[s].workers = uf[s].workers
  BY <1>1 DEF Typed, UfTyped, Entry, SetParent, Merged
<1>3. "read_qw" \in Back(callers)
  BY DEF Back, Labels
<1>4. UNCHANGED <<loc, path>> /\ pc[w] = "set_parent"
  BY DEF SetParent
<1>5. OthersKept(w) /\ PathKept(w)
  BY <1>3, <1>4, PlainKept DEF Typed, SetParent
<1>6. UniteKept(w)
  BY <1>4 DEF UniteKept
<1>7. ParentIncreasing'
  BY <1>1, <1>2 DEF Upward, ParentIncreasing
<1>8. Upward'
  BY <1>4, <1>5, <1>7 DEF Upward, OthersKept, PathKept, Ascending
<1>9. Locked'
  <2>1. Node \subseteq Slot
    BY DEF Node, Slot
  <2>. QED
    BY <1>2, <1>5, <1>6, <2>1, HoldsLess, LockedKept DEF Typed
<1>10. NothingUndone
  <2>1. \A n \in Node : n \in Slot /\ n # 0
    BY DEF Node, Slot
  <2>2. \A n \in Node : uf[n].parent # 0 => uf'[n].parent # 0
    BY <1>1, <1>2, <2>1 DEF Slot
  <2>. QED
    BY <1>2, <2>1, <2>2 DEF NothingUndone
<1>. QED
  BY <1>8, <1>9, <1>10

\* The CAS of lock_uf adds one lock, which nobody held.
LEMMA LockUfStep ==
  ASSUME NEW callers, Typed(callers), Upward, Locked, NEW w \in Worker, LockUf(w)
  PROVE  Upward' /\ Locked' /\ NothingUndone
<1> DEFINE u == loc[w].unite
<1>1. u.q \in Slot /\ pc[w] = "lock_uf" /\ Node \subseteq Slot
  BY LocalsTyped DEF Typed, LockUf, Node, Slot
<1>2. CASE Lockable(u.q)
  <2>1. /\ uf' = [uf EXCEPT ![u.q].uf_status = LOCK]
        /\ Goto(w, "lock_uf_check") /\ UNCHANGED <<loc, path>>
    BY <1>2 DEF LockUf
  <2>2. \A s \in Slot :
          /\ uf'[s].uf_status = IF s = u.q THEN LOCK ELSE uf[s].uf_status
          /\ uf'[s].parent = uf[s].parent /\ uf'[s].list_status = uf[s].list_status
          /\ uf'[s].workers = uf[s].workers
    BY <1>1, <2>1 DEF Typed, UfTyped, Entry
  <2>3. uf[u.q].uf_status \notin {LOCK, DEAD}
    BY <1>2 DEF Lockable, LIVE, LOCK, DEAD
  <2>4. "lock_uf_check" \in Back(callers)
    BY DEF Back, Labels
  <2>5. OthersKept(w) /\ PathKept(w) /\ pc'[w] = "lock_uf_check"
    BY <2>1, <2>4, PlainKept DEF Typed, ControlTyped, Goto
  <2>6. Upward'
    BY <2>1, <2>2, <2>5, UpwardKept
  <2>7. HoldsUf(w)' = {u.q} \ {0} /\ HoldsList(w)' = HoldsList(w)
    BY <1>1, <2>1, <2>5 DEF HoldsUf, HoldsList
  <2>8. \A x \in Worker \ {w} : /\ HoldsUf(x)' = HoldsUf(x) /\ HoldsList(x)' = HoldsList(x)
                                /\ u.q \notin HoldsUf(x)
    BY <2>3, <2>5, OthersHold DEF Locked
  <2>9. \A x \in Worker : HoldsUf(x) \subseteq Node /\ HoldsList(x) \subseteq Node
    BY HoldsNodes DEF Typed
  <2>10. \A n \in Node : /\ uf[n].uf_status = LOCK => uf'[n].uf_status = LOCK
                         /\ uf'[n].list_status = uf[n].list_status
    BY <1>1, <2>2
  <2>11. Locked'
    <3> SUFFICES ASSUME NEW x \in Worker
                 PROVE  /\ \A n \in HoldsUf(x)' : uf'[n].uf_status = LOCK
                        /\ \A n \in HoldsList(x)' : uf'[n].list_status = LOCK
                        /\ \A y \in Worker \ {x} : /\ HoldsUf(x)' \cap HoldsUf(y)' = {}
                                                   /\ HoldsList(x)' \cap HoldsList(y)' = {}
                        /\ loc'[x].unite.al # 0 => loc'[x].unite.al # loc'[x].unite.bl
      BY DEF Locked
    <3>1. \A n \in HoldsUf(x)' : uf'[n].uf_status = LOCK
      BY <1>1, <2>2, <2>7, <2>8, <2>9, <2>10 DEF Locked
    <3>2. \A n \in HoldsList(x)' : uf'[n].list_status = LOCK
      BY <2>7, <2>8, <2>9, <2>10 DEF Locked
    <3>3. \A y \in Worker \ {x} : HoldsUf(x)' \cap HoldsUf(y)' = {} /\ HoldsList(x)' \cap HoldsList(y)' = {}
      BY <2>7, <2>8 DEF Locked
    <3>. QED
      BY <2>1, <3>1, <3>2, <3>3 DEF Locked
  <2>12. NothingUndone
    BY <1>1, <2>2, <2>3 DEF NothingUndone
  <2>. QED
    BY <2>6, <2>11, <2>12
<1>3. CASE ~Lockable(u.q)
  <2>1. UniteRetry(w) /\ UNCHANGED uf
    BY <1>3 DEF LockUf
  <2>2. OthersKept(w) /\ PathKept(w) /\ UniteKept(w)
    BY <1>1, <2>1, UniteRetryKept
  <2>3. Upward' /\ Locked'
    BY <2>1, <2>2, QuietStep
  <2>. QED
    BY <2>1, <2>3 DEF NothingUndone
<1>. QED
  BY <1>2, <1>3

\* The plain store of unlock_uf overwrites a LOCK of this worker, nothing else.
LEMMA UnlockUfStep ==
  ASSUME NEW callers, Typed(callers), Upward, Locked, NEW w \in Worker,
         LockUfUndo(w) \/ UnlockUf(w)
  PROVE  Upward' /\ Locked' /\ NothingUndone
<1> DEFINE u == loc[w].unite
<1>1. u.q \in Slot /\ pc[w] \in {"lock_uf_undo", "unlock_uf"} /\ Node \subseteq Slot /\ 0 \notin Node
  BY LocalsTyped DEF Typed, LockUfUndo, UnlockUf, Node, Slot
<1>2. uf' = [uf EXCEPT ![u.q].uf_status = LIVE]
  BY DEF LockUfUndo, UnlockUf
<1>3. \A s \in Slot :
        /\ uf'[s].uf_status = IF s = u.q THEN LIVE ELSE uf[s].uf_status
        /\ uf'[s].parent = uf[s].parent /\ uf'[s].list_status = uf[s].list_status
        /\ uf'[s].workers = uf[s].workers
  BY <1>1, <1>2 DEF Typed, UfTyped, Entry
<1>4. OthersKept(w) /\ PathKept(w) /\ loc'[w].unite.q = 0 /\ loc'[w].unite.r = 0 /\ UniteKept(w)
  <2>1. CASE LockUfUndo(w)
    BY <2>1, UniteRetryKept DEF LockUfUndo
  <2>2. CASE UnlockUf(w)
    BY <2>2, UniteReturnKept DEF UnlockUf, NoUnite
  <2>. QED
    BY <2>1, <2>2
<1>5. Upward'
  BY <1>3, <1>4, UpwardKept
<1>6. HoldsUf(w) = {u.q} \ {0} /\ HoldsUf(w)' = {}
  BY <1>1, <1>4 DEF HoldsUf
<1>7. \A n \in Node : n = u.q => uf[n].uf_status = LOCK
  BY <1>1, <1>6 DEF Locked
<1>8. \A n \in Node : n \notin HoldsUf(w) \ HoldsUf(w)' => uf'[n].uf_status = uf[n].uf_status
  BY <1>1, <1>3, <1>6
<1>9. Locked'
  BY <1>1, <1>3, <1>4, <1>8, HoldsLess, LockedKept DEF Typed
<1>10. NothingUndone
  BY <1>1, <1>3, <1>7 DEF NothingUndone, LOCK, DEAD
<1>. QED
  BY <1>5, <1>9, <1>10

\* The same of unlock_list.
LEMMA UnlockListStep ==
  ASSUME NEW callers, Typed(callers), Upward, Locked, NEW w \in Worker,
         UnlockListA(w) \/ UnlockListB(w)
  PROVE  Upward' /\ Locked' /\ NothingUndone
<1> DEFINE u == loc[w].unite
           l == IF pc[w] = "unlock_a" THEN u.al ELSE u.bl
<1>1. l \in Slot /\ pc[w] \in {"unlock_a", "unlock_b"} /\ Node \subseteq Slot /\ 0 \notin Node
  BY LocalsTyped DEF Typed, UnlockListA, UnlockListB, Node, Slot
<1>2. uf' = [uf EXCEPT ![l].list_status = LIVE] /\ UNCHANGED <<path, loc>>
  BY DEF UnlockListA, UnlockListB, Unlocked
<1>3. \A s \in Slot :
        /\ uf'[s].list_status = IF s = l THEN LIVE ELSE uf[s].list_status
        /\ uf'[s].parent = uf[s].parent /\ uf'[s].uf_status = uf[s].uf_status
        /\ uf'[s].workers = uf[s].workers
  BY <1>1, <1>2 DEF Typed, UfTyped, Entry
<1>4. {"unlock_b", "unlock_uf"} \subseteq Back(callers)
  BY DEF Back, Labels
<1>5. pc'[w] = IF pc[w] = "unlock_a" THEN "unlock_b" ELSE "unlock_uf"
  BY DEF Typed, ControlTyped, UnlockListA, UnlockListB, Goto
<1>6. OthersKept(w) /\ PathKept(w)
  BY <1>2, <1>4, PlainKept DEF Typed, UnlockListA, UnlockListB
<1>7. Upward'
  BY <1>2, <1>3, <1>6, UpwardKept
<1>8. HoldsUf(w)' = HoldsUf(w)
  BY <1>1, <1>2, <1>5 DEF HoldsUf
<1>9. l # 0 => l \in HoldsList(w) /\ l \notin HoldsList(w)'
  BY <1>1, <1>2, <1>5 DEF HoldsList, Locked
<1>10. HoldsList(w)' \subseteq HoldsList(w)
  BY <1>1, <1>2, <1>5 DEF HoldsList
<1>11. \A n \in Node : n = l => uf[n].list_status = LOCK
  BY <1>1, <1>9 DEF Locked
<1>12. \A n \in Node : n \notin HoldsList(w) \ HoldsList(w)' => uf'[n].list_status = uf[n].list_status
  BY <1>1, <1>3, <1>9
<1>13. \A n \in Node : uf'[n].uf_status = uf[n].uf_status
  BY <1>1, <1>3
<1> HIDE DEF l
<1>14. Locked'
  BY <1>2, <1>6, <1>8, <1>10, <1>12, <1>13, LockedKept DEF Typed
<1>15. NothingUndone
  BY <1>1, <1>3, <1>11 DEF NothingUndone, LOCK, TOMB
<1>. QED
  BY <1>7, <1>14, <1>15

\* lock_list got l: w holds it from now on, and nobody else did.
LEMMA LockListTaken ==
  ASSUME NEW callers, Typed(callers), Upward, Locked, NEW w \in Worker, NEW l \in Slot,
         OthersKept(w), PathKept(w), uf[l].list_status = LIVE,
         uf' = [uf EXCEPT ![l].list_status = LOCK],
         loc'[w].unite.q = loc[w].unite.q, loc'[w].unite.r = loc[w].unite.r,
         HoldsUf(w)' \subseteq HoldsUf(w), HoldsList(w)' \subseteq HoldsList(w) \cup ({l} \ {0}),
         loc'[w].unite.al # 0 => loc'[w].unite.al # loc'[w].unite.bl
  PROVE  Upward' /\ Locked' /\ NothingUndone
<1>1. \A s \in Slot :
        /\ uf'[s].list_status = IF s = l THEN LOCK ELSE uf[s].list_status
        /\ uf'[s].parent = uf[s].parent /\ uf'[s].uf_status = uf[s].uf_status
        /\ uf'[s].workers = uf[s].workers
  BY DEF Typed, UfTyped, Entry
<1>2. Node \subseteq Slot
  BY DEF Node, Slot
<1>3. uf[l].list_status \notin {LOCK, TOMB}
  BY DEF LIVE, LOCK, TOMB
<1>4. Upward'
  BY <1>1, UpwardKept
<1>5. \A x \in Worker : HoldsUf(x) \subseteq Node /\ HoldsList(x) \subseteq Node /\ l \notin HoldsList(x)
  BY <1>3, HoldsNodes DEF Typed, Locked
<1>6. \A x \in Worker \ {w} : /\ HoldsUf(x)' = HoldsUf(x) /\ HoldsList(x)' = HoldsList(x)
                              /\ loc'[x].unite = loc[x].unite
  BY OthersHold
<1>7. Locked'
  <2> SUFFICES ASSUME NEW x \in Worker
               PROVE  /\ \A n \in HoldsUf(x)' : uf'[n].uf_status = LOCK
                      /\ \A n \in HoldsList(x)' : uf'[n].list_status = LOCK
                      /\ \A y \in Worker \ {x} : /\ HoldsUf(x)' \cap HoldsUf(y)' = {}
                                                 /\ HoldsList(x)' \cap HoldsList(y)' = {}
                      /\ loc'[x].unite.al # 0 => loc'[x].unite.al # loc'[x].unite.bl
    BY DEF Locked
  <2>1. \A n \in HoldsUf(x)' : uf'[n].uf_status = LOCK
    BY <1>1, <1>2, <1>5, <1>6 DEF Locked
  <2>2. \A n \in HoldsList(x) : n \in Slot /\ uf'[n].list_status = LOCK
    BY <1>1, <1>2, <1>5 DEF Locked
  <2>3. \A n \in HoldsList(x)' : uf'[n].list_status = LOCK
    BY <1>1, <1>6, <2>2
  <2>4. \A y \in Worker \ {x} : HoldsUf(x)' \cap HoldsUf(y)' = {}
    BY <1>6 DEF Locked
  <2>5. \A y \in Worker \ {x} : HoldsList(x)' \cap HoldsList(y)' = {}
    BY <1>5, <1>6 DEF Locked
  <2>6. loc'[x].unite.al # 0 => loc'[x].unite.al # loc'[x].unite.bl
    BY <1>6 DEF Locked
  <2>. QED
    BY <2>1, <2>3, <2>4, <2>5, <2>6
<1>8. NothingUndone
  BY <1>1, <1>2, <1>3 DEF NothingUndone
<1>. QED
  BY <1>4, <1>7, <1>8

\* The CAS of lock_list adds one lock, which nobody held.
LEMMA LockListStep ==
  ASSUME NEW callers, Typed(callers), Upward, Locked, NEW w \in Worker,
         LockListA(w) \/ LockListB(w)
  PROVE  Upward' /\ Locked' /\ NothingUndone
<1> DEFINE u == loc[w].unite
           l == ret[w].node
<1>1. /\ u \in Unites /\ u.a \in Slot /\ u.b \in Slot /\ u.al \in Slot /\ u.bl \in Slot /\ l \in Slot
      /\ loc[w].pick \in Picks
  BY LocalsTyped DEF Typed, ControlTyped
<1>2. {"pick_a", "swap"} \subseteq Back(callers) /\ UNCHANGED path
  BY DEF Back, Labels, LockListA, LockListB
<1>3. pc[w] \in {"list_a", "list_b"}
  BY DEF LockListA, LockListB
<1>4. ASSUME NEW s \in Slot, NEW backs, CallPick(w, s, backs), UNCHANGED uf
      PROVE  Upward' /\ Locked' /\ NothingUndone
  <2>1. loc'[w].unite = u /\ \A x \in Worker \ {w} : loc'[x] = loc[x]
    BY <1>4 DEF Typed, LocTyped, Locals, CallPick
  <2>2. OthersKept(w) /\ PathKept(w)
    BY <1>2, <1>4, <2>1, PlainKept DEF Typed, CallPick
  <2>3. UniteKept(w)
    BY <1>3, <2>1 DEF UniteKept
  <2>. QED
    BY <1>4, <2>2, <2>3, QuietStep DEF NothingUndone
<1>5. CASE LockListA(w)
  <2>1. CASE Locks(w, l)
    <3>1. /\ uf' = [uf EXCEPT ![l].list_status = LOCK]
          /\ loc' = [loc EXCEPT ![w] = [@ EXCEPT !.unite.al = l, !.pick.a = u.b]]
          /\ Call(w, "pick_a", <<"list_b">>) /\ uf[l].list_status = LIVE
      BY <1>5, <2>1 DEF LockListA, Locks, PickAgain, Completed, LIVE
    <3>2. loc'[w].unite = [u EXCEPT !.al = l] /\ \A x \in Worker \ {w} : loc'[x] = loc[x]
      BY <3>1 DEF Typed, LocTyped, Locals
    <3>3. /\ loc'[w].unite.q = u.q /\ loc'[w].unite.r = u.r
          /\ loc'[w].unite.al = l /\ loc'[w].unite.bl = u.bl
      BY <1>1, <3>2 DEF Unites
    <3>4. OthersKept(w) /\ PathKept(w)
      BY <1>2, <3>1, <3>2, PlainKept DEF Typed
    <3>5. HoldsUf(w)' \subseteq HoldsUf(w) /\ HoldsList(w)' \subseteq HoldsList(w) \cup ({l} \ {0})
      BY <1>3, <3>3 DEF HoldsUf, HoldsList
    <3>6. l # 0 => l # u.bl
      <4>1. u.bl # 0 => u.bl \in HoldsList(w)
        BY <1>3 DEF HoldsList
      <4>. QED
        BY <3>1, <4>1 DEF Locked, LIVE, LOCK
    <3>. QED
      BY <1>1, <3>1, <3>3, <3>4, <3>5, <3>6, LockListTaken
  <2>2. CASE PickAgain(w, l)
    BY <1>1, <1>4, <1>5, <2>2 DEF LockListA, Locks, PickAgain, Completed
  <2>3. CASE Completed(w)
    <3>1. UniteReturn(w) /\ UNCHANGED uf
      BY <1>5, <2>3 DEF LockListA, Locks, PickAgain, Completed
    <3>2. Upward' /\ Locked'
      BY <1>2, <3>1, UniteReturnKept, QuietStep
    <3>. QED
      BY <3>1, <3>2 DEF NothingUndone
  <2>. QED
    BY <1>5, <2>1, <2>2, <2>3 DEF LockListA
<1>6. CASE LockListB(w)
  <2>1. u.al # 0 => u.al \in HoldsList(w) /\ uf[u.al].list_status = LOCK
    <3>1. u.al # 0 => u.al \in HoldsList(w)
      BY <1>3 DEF HoldsList
    <3>. QED
      BY <3>1 DEF Locked
  <2>2. CASE Locks(w, l)
    <3>1. /\ uf' = [uf EXCEPT ![l].list_status = LOCK]
          /\ loc' = [loc EXCEPT ![w].unite.bl = l]
          /\ Resume(w, "swap") /\ uf[l].list_status = LIVE
      BY <1>6, <2>2 DEF LockListB, Locks, PickAgain, Completed, LIVE
    <3>2. loc'[w].unite = [u EXCEPT !.bl = l] /\ \A x \in Worker \ {w} : loc'[x] = loc[x]
      BY <3>1 DEF Typed, LocTyped, Locals
    <3>3. /\ loc'[w].unite.q = u.q /\ loc'[w].unite.r = u.r
          /\ loc'[w].unite.al = u.al /\ loc'[w].unite.bl = l
      BY <1>1, <3>2 DEF Unites
    <3>4. OthersKept(w) /\ PathKept(w)
      BY <1>2, <3>1, <3>2, PlainKept DEF Typed
    <3>5. HoldsUf(w)' \subseteq HoldsUf(w) /\ HoldsList(w)' \subseteq HoldsList(w) \cup ({l} \ {0})
      BY <1>3, <3>3 DEF HoldsUf, HoldsList
    <3>6. u.al # 0 => u.al # l
      BY <2>1, <3>1 DEF LIVE, LOCK
    <3>. QED
      BY <1>1, <3>1, <3>3, <3>4, <3>5, <3>6, LockListTaken
  <2>3. CASE PickAgain(w, l)
    BY <1>1, <1>4, <1>6, <2>3 DEF LockListB, Locks, PickAgain, Completed
  <2>4. CASE Completed(w)
    <3>1. uf' = [uf EXCEPT ![u.al].list_status = LIVE] /\ UniteReturn(w)
      BY <1>6, <2>4 DEF LockListB, Locks, PickAgain, Completed
    <3>2. \A s \in Slot :
            /\ uf'[s].list_status = IF s = u.al THEN LIVE ELSE uf[s].list_status
            /\ uf'[s].parent = uf[s].parent /\ uf'[s].uf_status = uf[s].uf_status
            /\ uf'[s].workers = uf[s].workers
      BY <1>1, <3>1 DEF Typed, UfTyped, Entry
    <3>3. OthersKept(w) /\ PathKept(w) /\ UniteKept(w) /\ loc'[w].unite = NoUnite
      BY <1>2, <3>1, UniteReturnKept
    <3>4. Node \subseteq Slot /\ 0 \notin Node
      BY DEF Node, Slot
    <3>5. Upward'
      BY <3>2, <3>3, UpwardKept DEF NoUnite
    <3>6. HoldsList(w)' = {}
      BY <3>3 DEF HoldsList, NoUnite
    <3>7. \A n \in Node : n \notin HoldsList(w) \ HoldsList(w)' => uf'[n].list_status = uf[n].list_status
      BY <2>1, <3>2, <3>4, <3>6
    <3>8. \A n \in Node : uf'[n].uf_status = uf[n].uf_status
      BY <3>2, <3>4
    <3>9. Locked'
      BY <3>3, <3>7, <3>8, HoldsLess, LockedKept DEF Typed
    <3>10. NothingUndone
      BY <2>1, <3>2, <3>4 DEF NothingUndone, LOCK, TOMB
    <3>. QED
      BY <3>5, <3>9, <3>10
  <2>. QED
    BY <1>6, <2>2, <2>3, <2>4 DEF LockListB
<1>. QED
  BY <1>5, <1>6

\* Every step of the union-find keeps the invariants and undoes nothing.
LEMMA UFStepKeeps ==
  ASSUME NEW callers, Typed(callers), Upward, Locked, NEW w \in Worker, UFStep(w)
  PROVE  Upward' /\ Locked' /\ NothingUndone
<1>1. ASSUME Quiet(w)
      PROVE  Upward' /\ Locked' /\ NothingUndone
  <2>1. Upward' /\ Locked'
    BY <1>1, QuietStep DEF Quiet, UfKept
  <2>2. Node \subseteq Slot
    BY DEF Node, Slot
  <2>. QED
    BY <1>1, <2>1, <2>2 DEF Quiet, UfKept, NothingUndone
<1>. QED
  BY <1>1, ClaimQuiet, SameQuiet, PickQuiet, UniteQuiet, FindStep, ListStep, UniteRootsStep,
     UniteLinkStep, LockUfStep, UnlockUfStep, UnlockListStep, LockListStep DEF UFStep

(***************************************************************************)
(* The sets of the union-find while workers find, unite and claim at the   *)
(* same time.  The steps of the union-find never take a set apart; what    *)
(* find, sameset and unite have learnt of the sets stays true until they   *)
(* return; and a worker's bit is at the representative of its set, or on   *)
(* its way there.  Stated for any code that uses the union-find:           *)
(* "callers" are the labels of that code, and CallerStep says what its     *)
(* steps may do to the union-find.                                         *)
(*                                                                         *)
(* Root is defined by recursion over the parents, and no prover does       *)
(* induction over a definition.  Here its equations come from the least    *)
(* counterexample: parents increase (ParentIncreasing), so the highest     *)
(* slot at which an equation failed would have a parent at which it holds. *)
(***************************************************************************)

-----------------------------------------------------------------------------
(* Representatives as a function of the parents: what a store to a parent does to it *)

\* A set of numbers that is not empty has a least element.
LEMMA LeastNumber ==
  ASSUME NEW T, T \subseteq Nat, T # {}
  PROVE  \E m \in T : \A k \in T : m <= k
<1>1. PICK m \in T : \A k \in T : <<k, m>> \notin OpToRel(<, Nat)
  BY WFMin, NatLessThanWellFounded, Zenon
<1>2. \A k \in T : ~(k < m)
  BY <1>1, Zenon DEF OpToRel
<1>. QED
  BY <1>2

\* A set of slots that is not empty has a highest element.
LEMMA HighestSlot ==
  ASSUME NEW T, T \subseteq Slot, T # {}
  PROVE  \E m \in T : \A k \in T : k <= m
<1> DEFINE U == {N - k : k \in T}
<1>1. N \in Nat /\ \A k \in T : k \in Nat /\ k <= N
  BY UFConstants DEF Slot
<1>2. U \subseteq Nat /\ U # {}
  BY <1>1
<1>3. PICK u \in U : \A k \in U : u <= k
  BY <1>2, LeastNumber
<1>4. PICK m \in T : u = N - m
  OBVIOUS
<1>5. ASSUME NEW k \in T
      PROVE  k <= m
  <2>1. u <= N - k
    BY <1>3
  <2>. QED
    BY <1>1, <1>4, <2>1
<1>. QED
  BY <1>5

\* Parents as a function that increases, and the equation find follows them by.
Increasing(par) == par \in [Slot -> Slot] /\ \A s \in Slot : par[s] # 0 => s < par[s]
Follows(f, par) == \A n \in Slot : f[n] = IF par[n] = 0 THEN n ELSE f[par[n]]

RootOf(par) == LET root[n \in Slot] == IF par[n] = 0 THEN n ELSE root[par[n]]
               IN  root

\* One function at most satisfies the equation: where two differ last, their
\* values there come from above.
LEMMA FollowsOnce ==
  ASSUME NEW par, Increasing(par), NEW f, Follows(f, par), NEW g, Follows(g, par), NEW n \in Slot
  PROVE  f[n] = g[n]
<1> DEFINE T == {s \in Slot : f[s] # g[s]}
<1>1. SUFFICES ASSUME T # {} PROVE FALSE
  OBVIOUS
<1>2. PICK m \in T : \A k \in T : k <= m
  BY <1>1, HighestSlot
<1>3. par[m] # 0
  BY DEF Follows
<1>4. par[m] \in Slot /\ m < par[m]
  BY <1>3 DEF Increasing
<1>5. par[m] \notin T
  <2>1. m \in Int /\ par[m] \in Int
    BY <1>4, SlotZero
  <2>2. ~(par[m] <= m)
    BY <1>4, <2>1
  <2>. QED
    BY <1>2, <2>2
<1>6. f[m] = f[par[m]] /\ g[m] = g[par[m]]
  BY <1>3 DEF Follows
<1>. QED
  BY <1>4, <1>5, <1>6

\* And one does: it can be filled in from the highest slot down.
LEMMA FollowsExists ==
  ASSUME NEW par, Increasing(par)
  PROVE  \E f \in [Slot -> Slot] : Follows(f, par)
<1> DEFINE From(m, f) == \A n \in Slot : n >= m => f[n] = IF par[n] = 0 THEN n ELSE f[par[n]]
           T == {m \in Nat : \E f \in [Slot -> Slot] : From(m, f)}
<1>1. N \in Nat /\ \A s \in Slot : s \in Nat /\ s <= N
  BY UFConstants DEF Slot
<1>2. N + 1 \in T
  <2>1. [s \in Slot |-> s] \in [Slot -> Slot]
    OBVIOUS
  <2>2. From(N + 1, [s \in Slot |-> s])
    BY <1>1
  <2>3. N + 1 \in Nat
    BY <1>1
  <2>. QED
    BY <2>1, <2>2, <2>3
<1>3. PICK m \in T : \A k \in T : m <= k
  BY <1>2, LeastNumber
<1>4. PICK f \in [Slot -> Slot] : From(m, f)
  OBVIOUS
<1>5. m = 0
  <2>1. SUFFICES ASSUME m # 0 PROVE FALSE
    OBVIOUS
  <2> DEFINE s == m - 1
             g == [f EXCEPT ![s] = IF par[s] = 0 THEN s ELSE f[par[s]]]
  <2>2. m \in Nat /\ m <= N + 1
    BY <1>2, <1>3
  <2>3. s \in Slot /\ s \in Nat
    BY <1>1, <2>1, <2>2 DEF Slot
  <2>4. g \in [Slot -> Slot]
    BY <2>3 DEF Increasing
  <2>5. ASSUME NEW n \in Slot, n >= s
        PROVE  g[n] = IF par[n] = 0 THEN n ELSE g[par[n]]
    <3>1. par[n] # 0 => par[n] \in Slot /\ n < par[n]
      BY DEF Increasing
    <3>2. par[n] # 0 => par[n] # s /\ g[par[n]] = f[par[n]]
      BY <1>1, <2>3, <2>5, <3>1
    <3>3. CASE n = s
      BY <3>2, <3>3, <2>3
    <3>4. CASE n # s
      <4>1. n >= m
        BY <1>1, <2>2, <2>5, <3>4
      <4>2. f[n] = IF par[n] = 0 THEN n ELSE f[par[n]]
        BY <1>4, <4>1
      <4>3. g[n] = f[n]
        BY <3>4
      <4>. QED
        BY <3>2, <4>2, <4>3
    <3>. QED
      BY <3>3, <3>4
  <2>6. From(s, g)
    BY <2>5
  <2>7. s \in T
    BY <2>3, <2>4, <2>6, ZenonT(30)
  <2>. QED
    BY <1>3, <2>2, <2>7
<1>6. Follows(f, par)
  BY <1>1, <1>4, <1>5 DEF Follows
<1>. QED
  BY <1>6

\* So RootOf satisfies it.
LEMMA RootOfFollows ==
  ASSUME NEW par, Increasing(par)
  PROVE  RootOf(par) \in [Slot -> Slot] /\ Follows(RootOf(par), par)
<1> DEFINE F(f) == [n \in Slot |-> IF par[n] = 0 THEN n ELSE f[par[n]]]
<1>1. RootOf(par) = CHOOSE f : f = F(f)
  BY DEF RootOf
<1>2. PICK f \in [Slot -> Slot] : Follows(f, par)
  BY FollowsExists
<1>3. f = F(f)
  BY <1>2 DEF Follows
<1>4. RootOf(par) = F(RootOf(par))
  BY <1>1, <1>3
<1>5. Follows(RootOf(par), par)
  BY <1>4 DEF Follows
<1>6. \A n \in Slot : RootOf(par)[n] = f[n]
  BY <1>2, <1>5, FollowsOnce
<1>. QED
  BY <1>4, <1>5, <1>6

\* What finding a representative gives: a slot without a parent, no lower than
\* where the search started.
LEMMA RootOfTop ==
  ASSUME NEW par, Increasing(par), NEW n \in Slot
  PROVE  /\ RootOf(par)[n] \in Slot /\ par[RootOf(par)[n]] = 0 /\ n <= RootOf(par)[n]
         /\ par[n] = 0 => RootOf(par)[n] = n
         /\ par[n] # 0 => RootOf(par)[n] = RootOf(par)[par[n]]
<1> DEFINE r == RootOf(par)
           T == {s \in Slot : ~(par[r[s]] = 0 /\ s <= r[s])}
<1>1. r \in [Slot -> Slot] /\ Follows(r, par)
  BY RootOfFollows
<1>2. T = {}
  <2>1. SUFFICES ASSUME T # {} PROVE FALSE
    OBVIOUS
  <2>2. PICK m \in T : \A k \in T : k <= m
    BY <2>1, HighestSlot
  <2>3. par[m] # 0
    BY <1>1, SlotZero DEF Follows
  <2>4. par[m] \in Slot /\ m < par[m]
    BY <2>3 DEF Increasing
  <2>5. m \in Int /\ par[m] \in Int /\ r[m] \in Int
    BY <1>1, <2>4, SlotZero
  <2>6. par[m] \notin T
    <3>1. ~(par[m] <= m)
      BY <2>4, <2>5
    <3>. QED
      BY <2>2, <3>1
  <2>7. r[m] = r[par[m]]
    BY <1>1, <2>3 DEF Follows
  <2>8. par[r[m]] = 0 /\ par[m] <= r[m]
    BY <2>4, <2>6, <2>7
  <2>9. m <= r[m]
    BY <2>4, <2>5, <2>8
  <2>. QED
    BY <2>8, <2>9
<1>. QED
  BY <1>1, <1>2 DEF Follows

\* Path compression (line 259): a new parent in the same set changes no representative.
LEMMA RootOfCompressed ==
  ASSUME NEW par, Increasing(par), NEW s \in Slot, NEW r \in Slot, s < r,
         RootOf(par)[s] = RootOf(par)[r]
  PROVE  RootOf([par EXCEPT ![s] = r]) = RootOf(par)
<1> DEFINE new == [par EXCEPT ![s] = r]
           f   == RootOf(par)
<1>1. Increasing(new) /\ r # 0
  BY SlotZero DEF Increasing, Slot
<1>2. f \in [Slot -> Slot] /\ Follows(f, par)
  BY RootOfFollows
<1>3. Follows(f, new)
  <2>1. ASSUME NEW n \in Slot
        PROVE  f[n] = IF new[n] = 0 THEN n ELSE f[new[n]]
    <3>1. CASE n = s
      BY <1>1, <3>1 DEF Increasing
    <3>2. CASE n # s
      BY <1>2, <3>2 DEF Follows, Increasing
    <3>. QED
      BY <3>1, <3>2
  <2>. QED
    BY <2>1 DEF Follows
<1>4. RootOf(new) \in [Slot -> Slot] /\ Follows(RootOf(new), new)
  BY <1>1, RootOfFollows
<1>5. \A n \in Slot : RootOf(new)[n] = f[n]
  BY <1>1, <1>3, <1>4, FollowsOnce
<1> HIDE DEF f, new
<1>6. RootOf(new) = f
  BY <1>2, <1>4, <1>5
<1>. QED
  BY <1>6 DEF f, new

\* A union (line 348): the set of the representative q joins the set of r.
LEMMA RootOfMerged ==
  ASSUME NEW par, Increasing(par), NEW q \in Slot, NEW r \in Slot, q < r, par[q] = 0
  PROVE  RootOf([par EXCEPT ![q] = r])
           = [n \in Slot |-> IF RootOf(par)[n] = q THEN RootOf(par)[r] ELSE RootOf(par)[n]]
<1> DEFINE new == [par EXCEPT ![q] = r]
           f   == RootOf(par)
           g   == [n \in Slot |-> IF f[n] = q THEN f[r] ELSE f[n]]
<1>1. Increasing(new) /\ r # 0
  BY SlotZero DEF Increasing, Slot
<1>2. f \in [Slot -> Slot] /\ Follows(f, par)
  BY RootOfFollows
<1>3. f[r] # q /\ f[q] = q
  BY RootOfTop, SlotZero
<1>4. Follows(g, new)
  <2>1. ASSUME NEW n \in Slot
        PROVE  g[n] = IF new[n] = 0 THEN n ELSE g[new[n]]
    <3>1. CASE n = q
      BY <1>1, <1>3, <3>1 DEF Increasing
    <3>2. CASE n # q
      <4>1. new[n] = par[n] /\ par[n] \in Slot
        BY <3>2 DEF Increasing
      <4>2. f[n] = IF par[n] = 0 THEN n ELSE f[par[n]]
        BY <1>2 DEF Follows
      <4>. QED
        BY <3>2, <4>1, <4>2
    <3>. QED
      BY <3>1, <3>2
  <2>. QED
    BY <2>1 DEF Follows
<1>5. RootOf(new) \in [Slot -> Slot] /\ Follows(RootOf(new), new)
  BY <1>1, RootOfFollows
<1>6. \A n \in Slot : RootOf(new)[n] = g[n]
  BY <1>1, <1>4, <1>5, FollowsOnce
<1>. QED
  BY <1>5, <1>6
-----------------------------------------------------------------------------
Parent == [s \in Slot |-> uf[s].parent]

\* find's result in a state of the program is RootOf of its parents.
LEMMA RootIsRootOf ==
  UfTyped /\ ParentIncreasing => Increasing(Parent) /\ Root = RootOf(Parent)
<1>1. SUFFICES ASSUME UfTyped, ParentIncreasing PROVE Increasing(Parent) /\ Root = RootOf(Parent)
  OBVIOUS
<1>2. Increasing(Parent)
  BY <1>1 DEF UfTyped, Entry, ParentIncreasing, Parent, Increasing
<1> DEFINE F(f) == [n \in Slot |-> IF uf[n].parent = 0 THEN n ELSE f[uf[n].parent]]
<1>3. Root = CHOOSE f : f = F(f)
  BY DEF Root
<1>4. RootOf(Parent) \in [Slot -> Slot] /\ Follows(RootOf(Parent), Parent)
  BY <1>2, RootOfFollows
<1>5. RootOf(Parent) = F(RootOf(Parent))
  BY <1>4 DEF Follows, Parent
<1>6. Root = F(Root)
  BY <1>3, <1>5
<1>7. Follows(Root, Parent)
  BY <1>6 DEF Follows, Parent
<1>8. \A n \in Slot : Root[n] = RootOf(Parent)[n]
  BY <1>2, <1>4, <1>7, FollowsOnce
<1>. QED
  BY <1>2, <1>4, <1>6, <1>8

\* So it is after a step.
LEMMA RootIsRootOfNext ==
  UfTyped' /\ ParentIncreasing' => (Increasing(Parent) /\ Root = RootOf(Parent))'
BY RootIsRootOf, PTL
-----------------------------------------------------------------------------
(* Return labels *)

\* What a return pops from a short stack of labels, and where it goes.
LEMMA PopOne ==
  ASSUME NEW s, NEW c, s = <<c>>
  PROVE  SubSeq(s, 1, Len(s) - 1) = <<>> /\ s[Len(s)] = c
<1>1. Len(s) = 1 /\ s[1] = c
  OBVIOUS
<1>. QED
  BY <1>1, SubSeqEmpty

\* Of two, the first is left.
LEMMA PopTwo ==
  ASSUME NEW s, NEW c, NEW b, s = <<c, b>>
  PROVE  SubSeq(s, 1, Len(s) - 1) = <<c>> /\ s[Len(s)] = b
<1> DEFINE S == {c, b}
           p == SubSeq(s, 1, 1)
<1>1. s \in Seq(S) /\ <<c>> \in Seq(S) /\ Len(s) = 2 /\ s[1] = c /\ s[2] = b
  OBVIOUS
<1>2. \A i \in 1 .. 1 : s[i] \in S
  BY <1>1
<1>3. p \in Seq(S) /\ Len(p) = 1 /\ \A i \in 1 .. 1 : p[i] = s[1+i-1]
  BY <1>2, SubSeqProperties
<1>4. \A i \in 1 .. 1 : p[i] = <<c>>[i]
  BY <1>1, <1>3
<1> HIDE DEF p
<1>5. p = <<c>>
  BY <1>1, <1>3, <1>4, SeqEqual
<1>. QED
  BY <1>1, <1>5 DEF p

\* Of three, the first two.
LEMMA PopThree ==
  ASSUME NEW s, NEW c, NEW b, NEW d, s = <<c, b, d>>
  PROVE  SubSeq(s, 1, Len(s) - 1) = <<c, b>> /\ s[Len(s)] = d
<1> DEFINE S == {c, b, d}
           p == SubSeq(s, 1, 2)
<1>1. /\ s \in Seq(S) /\ <<c, b>> \in Seq(S) /\ Len(s) = 3
      /\ s[1] = c /\ s[2] = b /\ s[3] = d
  OBVIOUS
<1>2. \A i \in 1 .. 2 : s[i] \in S
  BY <1>1
<1>3. p \in Seq(S) /\ Len(p) = 2 /\ \A i \in 1 .. 2 : p[i] = s[1+i-1]
  BY <1>2, SubSeqProperties
<1>4. \A i \in 1 .. 2 : p[i] = <<c, b>>[i]
  BY <1>1, <1>3
<1> HIDE DEF p
<1>5. p = <<c, b>>
  BY <1>1, <1>3, <1>4, SeqEqual
<1>. QED
  BY <1>1, <1>5 DEF p

\* What a call pushes on one.
LEMMA PushOne ==
  ASSUME NEW s, NEW b, s = <<>>
  PROVE  s \o <<b>> = <<b>>
<1>1. s \in Seq({b}) /\ <<b>> \in Seq({b})
  OBVIOUS
<1>. QED
  BY <1>1, ConcatEmptySeq

\* Two pushed on an empty stack.
LEMMA PushBoth ==
  ASSUME NEW s, NEW c, NEW b, s = <<>>
  PROVE  s \o <<c, b>> = <<c, b>>
<1>1. s \in Seq({c, b}) /\ <<c, b>> \in Seq({c, b})
  OBVIOUS
<1>. QED
  BY <1>1, ConcatEmptySeq

\* One pushed on one.
LEMMA PushTwo ==
  ASSUME NEW s, NEW c, NEW b, s = <<c>>
  PROVE  s \o <<b>> = <<c, b>>
<1> DEFINE S == {c, b}
           p == s \o <<b>>
<1>1. <<b>> \in Seq(S) /\ s \in Seq(S) /\ <<c, b>> \in Seq(S) /\ Len(s) = 1 /\ s[1] = c
  OBVIOUS
<1>2. p \in Seq(S) /\ Len(p) = 2 /\ \A i \in 1 .. 2 : p[i] = IF i <= 1 THEN s[i] ELSE b
  BY <1>1, ConcatProperties
<1>3. \A i \in 1 .. 2 : p[i] = <<c, b>>[i]
  BY <1>1, <1>2
<1> HIDE DEF p
<1>4. p = <<c, b>>
  BY <1>1, <1>2, <1>3, SeqEqual
<1>. QED
  BY <1>4 DEF p

\* One pushed on two.
LEMMA PushThree ==
  ASSUME NEW s, NEW c, NEW b, NEW d, s = <<c, b>>
  PROVE  s \o <<d>> = <<c, b, d>>
<1> DEFINE S == {c, b, d}
           p == s \o <<d>>
<1>1. /\ <<d>> \in Seq(S) /\ s \in Seq(S) /\ <<c, b, d>> \in Seq(S) /\ Len(s) = 2
      /\ s[1] = c /\ s[2] = b
  OBVIOUS
<1>2. p \in Seq(S) /\ Len(p) = 3 /\ \A i \in 1 .. 3 : p[i] = IF i <= 2 THEN s[i] ELSE d
  BY <1>1, ConcatProperties
<1>3. \A i \in 1 .. 3 : p[i] = <<c, b, d>>[i]
  BY <1>1, <1>2
<1> HIDE DEF p
<1>4. p = <<c, b, d>>
  BY <1>1, <1>2, <1>3, SeqEqual
<1>. QED
  BY <1>4 DEF p

-----------------------------------------------------------------------------
(* Which function a worker is in, and which call of it *)

FindLabels == {"find", "compress"}
FindBacks  == {"claim_dead", "claim_again", "same_b", "same_retry", "unite_a", "unite_b", "found_r"}
ListLabels == {"list_a", "list_b"}
PickLabels == {"pick_a", "pick_next", "pick_b", "pick_c", "pick_compare", "pick_write", "mark_dead"}

\* The stack of a worker tells its open calls: c is where the caller of the
\* union-find goes on, unite calls pick_from_list and both call find.
InCall(w, callers) ==
  \/ pc[w] \in callers /\ stack[w] = <<>>
  \/ \E c \in callers :
       \/ pc[w] \in Labels /\ stack[w] = <<c>>
       \/ pc[w] \in FindLabels /\ \E b \in FindBacks \cup {"mark_dead"} : stack[w] = <<c, b>>
       \/ pc[w] \in PickLabels /\ \E l \in ListLabels : stack[w] = <<c, l>>
       \/ pc[w] \in FindLabels /\ \E l \in ListLabels : stack[w] = <<c, l, "mark_dead">>

Outside(callers) == callers \cap Labels = {}

\* The labels of the functions lie apart.
LEMMA LabelSets ==
  /\ FindLabels \cup FindBacks \cup ListLabels \cup PickLabels \subseteq Labels
  /\ FindLabels \cap (FindBacks \cup ListLabels \cup PickLabels) = {}
  /\ PickLabels \cap (FindBacks \cup ListLabels) = {} /\ FindBacks \cap ListLabels = {}
BY DEF FindLabels, FindBacks, ListLabels, PickLabels, Labels

\* Outside find and pick_from_list only the caller's label is on the stack.
LEMMA OuterStack ==
  ASSUME NEW callers, Outside(callers), NEW w \in Worker, InCall(w, callers),
         pc[w] \in Labels \ (FindLabels \cup PickLabels)
  PROVE  \E c \in callers : stack[w] = <<c>>
BY DEF InCall, Outside

\* In pick_from_list unite's label may be on top of it.
LEMMA PickStack ==
  ASSUME NEW callers, Outside(callers), NEW w \in Worker, InCall(w, callers), pc[w] \in PickLabels
  PROVE  \E c \in callers : stack[w] = <<c>> \/ \E l \in ListLabels : stack[w] = <<c, l>>
<1>1. pc[w] \notin FindLabels /\ pc[w] \in Labels
  BY LabelSets
<1>. QED
  BY <1>1 DEF InCall, Outside

\* A return of any function of the union-find ends up in a call again, or in the caller.
LEMMA ReturnInCall ==
  ASSUME NEW callers, Typed(callers), Outside(callers), NEW w \in Worker, InCall(w, callers),
         pc[w] \in Labels, NEW code, NEW node, Return(w, code, node)
  PROVE  InCall(w, callers)' /\ \A x \in Worker \ {w} : stack'[x] = stack[x]
<1>1. /\ pc'[w] = stack[w][Len(stack[w])] /\ stack'[w] = SubSeq(stack[w], 1, Len(stack[w]) - 1)
      /\ \A x \in Worker \ {w} : stack'[x] = stack[x]
  BY DEF Typed, ControlTyped, Return
<1>2. PICK c \in callers :
       \/ pc[w] \in Labels /\ stack[w] = <<c>>
       \/ pc[w] \in FindLabels /\ \E b \in FindBacks \cup {"mark_dead"} : stack[w] = <<c, b>>
       \/ pc[w] \in PickLabels /\ \E l \in ListLabels : stack[w] = <<c, l>>
       \/ pc[w] \in FindLabels /\ \E l \in ListLabels : stack[w] = <<c, l, "mark_dead">>
  BY DEF InCall, Outside
<1>3. CASE stack[w] = <<c>>
  <2>1. pc'[w] = c /\ stack'[w] = <<>>
    BY <1>1, <1>3, PopOne, PopTwo, PopThree
  <2>. QED
    BY <1>1, <2>1 DEF InCall
<1>4. ASSUME NEW b \in FindBacks \cup {"mark_dead"} \cup ListLabels, stack[w] = <<c, b>>
      PROVE  InCall(w, callers)'
  <2>1. pc'[w] = b /\ stack'[w] = <<c>>
    BY <1>1, <1>4, PopOne, PopTwo, PopThree
  <2>2. b \in Labels
    BY LabelSets DEF PickLabels
  <2>. QED
    BY <2>1, <2>2 DEF InCall
<1>5. ASSUME NEW l \in ListLabels, NEW d \in {"mark_dead"}, stack[w] = <<c, l, d>>
      PROVE  InCall(w, callers)'
  <2>1. pc'[w] = d /\ stack'[w] = <<c, l>>
    BY <1>1, <1>5, PopThree
  <2>2. "mark_dead" \in PickLabels
    BY DEF PickLabels
  <2>. QED
    BY <2>1, <2>2 DEF InCall
<1>. QED
  BY <1>1, <1>2, <1>3, <1>4, <1>5

\* So does a move inside a function.
LEMMA MoveInCall ==
  ASSUME NEW callers, Typed(callers), Outside(callers), NEW w \in Worker, InCall(w, callers),
         \/ pc[w] \in Labels \ (FindLabels \cup PickLabels) /\ pc'[w] \in Labels
         \/ pc[w] \in PickLabels /\ pc'[w] \in PickLabels
         \/ pc[w] \in FindLabels /\ pc'[w] \in FindLabels,
         UNCHANGED stack
  PROVE  InCall(w, callers)' /\ \A x \in Worker \ {w} : stack'[x] = stack[x]
<1>1. CASE pc[w] \in Labels \ (FindLabels \cup PickLabels) /\ pc'[w] \in Labels
  BY <1>1, OuterStack DEF InCall
<1>2. CASE pc[w] \in PickLabels /\ pc'[w] \in PickLabels
  BY <1>2, PickStack, LabelSets DEF InCall
<1>3. CASE pc[w] \in FindLabels /\ pc'[w] \in FindLabels
  BY <1>3, LabelSets DEF InCall, Outside
<1>. QED
  BY <1>1, <1>2, <1>3

\* So does a call of find, or of pick_from_list by unite.
LEMMA PushInCall ==
  ASSUME NEW callers, Typed(callers), Outside(callers), NEW w \in Worker, InCall(w, callers),
         NEW b, NEW label, Call(w, label, <<b>>),
         \/ pc[w] \in Labels \ (FindLabels \cup PickLabels) /\ b \in FindBacks /\ label = "find"
         \/ pc[w] \in PickLabels /\ b = "mark_dead" /\ label = "find"
         \/ pc[w] \in Labels \ (FindLabels \cup PickLabels) /\ b \in ListLabels /\ label = "pick_a"
  PROVE  /\ InCall(w, callers)' /\ \A x \in Worker \ {w} : stack'[x] = stack[x]
         /\ stack'[w][Len(stack'[w])] = b
<1>1. /\ pc'[w] = label /\ stack'[w] = stack[w] \o <<b>>
      /\ \A x \in Worker \ {w} : stack'[x] = stack[x]
  BY DEF Typed, ControlTyped, Call
<1>2. "find" \in FindLabels /\ "pick_a" \in PickLabels
  BY DEF FindLabels, PickLabels
<1>3. CASE pc[w] \in Labels \ (FindLabels \cup PickLabels)
  <2>1. PICK c \in callers : stack[w] = <<c>>
    BY <1>3, OuterStack
  <2>2. stack'[w] = <<c, b>> /\ stack'[w][Len(stack'[w])] = b
    BY <1>1, <2>1, PushTwo, PushThree, PopTwo, PopThree
  <2>. QED
    BY <1>1, <1>2, <1>3, <2>2 DEF InCall
<1>4. CASE pc[w] \in PickLabels
  <2>0. b = "mark_dead" /\ label = "find"
    BY <1>4
  <2>1. PICK c \in callers : stack[w] = <<c>> \/ \E l \in ListLabels : stack[w] = <<c, l>>
    BY <1>4, PickStack
  <2>2. CASE stack[w] = <<c>>
    <3>1. stack'[w] = <<c, b>> /\ stack'[w][Len(stack'[w])] = b
      BY <1>1, <2>2, PushTwo, PushThree, PopTwo, PopThree
    <3>. QED
      BY <1>1, <1>2, <2>0, <3>1 DEF InCall
  <2>3. ASSUME NEW l \in ListLabels, stack[w] = <<c, l>>
        PROVE  InCall(w, callers)' /\ stack'[w][Len(stack'[w])] = b
    <3>1. stack'[w] = <<c, l, b>> /\ stack'[w][Len(stack'[w])] = b
      BY <1>1, <2>3, PushTwo, PushThree, PopTwo, PopThree
    <3>. QED
      BY <1>1, <1>2, <2>0, <3>1 DEF InCall
  <2>. QED
    BY <1>1, <2>1, <2>2, <2>3
<1>. QED
  BY <1>3, <1>4

\* Every step of the union-find moves between these stacks.
LEMMA UFStepInCall ==
  ASSUME NEW callers, Typed(callers), Outside(callers), NEW w \in Worker, InCall(w, callers), UFStep(w)
  PROVE  InCall(w, callers)' /\ \A x \in Worker \ {w} : stack'[x] = stack[x]
<1> DEFINE Kept == InCall(w, callers)' /\ \A x \in Worker \ {w} : stack'[x] = stack[x]
           Outer == pc[w] \in Labels \ (FindLabels \cup PickLabels)
<1> SUFFICES Kept
  OBVIOUS
<1>1. \A label : (Goto(w, label) \/ Resume(w, label)) => pc'[w] = label /\ UNCHANGED stack
  BY DEF Typed, ControlTyped, Goto, Resume
<1>2. \A code, node : pc[w] \in Labels /\ Return(w, code, node) => Kept
  BY ReturnInCall
<1>3. \A label \in Labels : Outer /\ (Goto(w, label) \/ Resume(w, label)) => Kept
  BY <1>1, MoveInCall
<1>4. \A s, b : Outer /\ b \in FindBacks /\ CallFind(w, s, <<b>>) => Kept
  BY PushInCall DEF CallFind
<1>5. \A s, l : Outer /\ l \in ListLabels /\ CallPick(w, s, <<l>>) => Kept
  BY PushInCall DEF CallPick
<1>6. CASE FindRead(w)
  <2>1. pc[w] \in FindLabels /\ pc[w] \in Labels
    BY <1>6, LabelSets DEF FindRead, FindLabels
  <2>2. CASE UNCHANGED control
    BY <2>1, <2>2, MoveInCall DEF control
  <2>3. CASE pc' = [pc EXCEPT ![w] = "compress"] /\ UNCHANGED stack
    <3>1. pc'[w] \in FindLabels
      BY <2>3 DEF Typed, ControlTyped, FindLabels
    <3>. QED
      BY <2>1, <2>3, <3>1, MoveInCall
  <2>. QED
    BY <1>2, <1>6, <2>1, <2>2, <2>3 DEF FindRead
<1>7. CASE FindCompress(w)
  <2>1. pc[w] \in FindLabels /\ pc[w] \in Labels
    BY <1>7, LabelSets DEF FindCompress, FindLabels
  <2>2. CASE UNCHANGED control
    BY <2>1, <2>2, MoveInCall DEF control
  <2>. QED
    BY <1>2, <1>7, <2>1, <2>2 DEF FindCompress
<1>8. CASE ClaimDead(w) \/ ClaimFound(w) \/ ClaimOr(w) \/ ClaimCheck(w)
  <2>1. Outer /\ pc[w] \in Labels
    BY <1>8 DEF ClaimDead, ClaimFound, ClaimOr, ClaimCheck, Labels, FindLabels, PickLabels
  <2>2. {"claim_found", "claim_or", "claim_check"} \subseteq Labels /\ "claim_again" \in FindBacks
    BY DEF Labels, FindBacks
  <2>. QED
    BY <1>2, <1>3, <1>4, <1>8, <2>1, <2>2 DEF ClaimDead, ClaimFound, ClaimOr, ClaimCheck
<1>9. CASE SameB(w) \/ SameA(w) \/ SameRetry(w)
  <2>1. Outer /\ pc[w] \in Labels
    BY <1>9 DEF SameB, SameA, SameRetry, Labels, FindLabels, PickLabels
  <2>2. "same_a" \in Labels /\ {"same_b", "same_retry"} \subseteq FindBacks
    BY DEF Labels, FindBacks
  <2>. QED
    BY <1>2, <1>3, <1>4, <1>9, <2>1, <2>2 DEF SameB, SameA, SameRetry, SameReturn
<1>10. CASE PickA(w) \/ PickNext(w) \/ PickB(w) \/ PickC(w) \/ PickCompare(w) \/ PickWrite(w) \/ MarkDead(w)
  <2>1. pc[w] \in PickLabels /\ pc[w] \in Labels
    BY <1>10 DEF PickA, PickNext, PickB, PickC, PickCompare, PickWrite, MarkDead, Labels, PickLabels
  <2>2. {"pick_a", "pick_next", "pick_b", "pick_c", "pick_compare", "pick_write"} \subseteq PickLabels
    BY DEF PickLabels
  <2>3. \A label \in PickLabels : Goto(w, label) => Kept
    BY <1>1, <2>1, MoveInCall
  <2>4. \A s : CallFind(w, s, <<"mark_dead">>) => Kept
    BY <2>1, PushInCall DEF CallFind
  <2>. QED
    BY <1>2, <1>10, <2>1, <2>2, <2>3, <2>4 DEF PickA, PickNext, PickB, PickC, PickCompare, PickWrite,
       MarkDead, PickReturn, ContinueFromC
<1>11. CASE Remove(w) \/ RemoveColor(w)
  <2>1. Outer /\ pc[w] \in Labels
    BY <1>11 DEF Remove, RemoveColor, Labels, FindLabels, PickLabels
  <2>2. "remove_color" \in Labels
    BY DEF Labels
  <2>. QED
    BY <1>2, <1>3, <1>11, <2>1, <2>2 DEF Remove, RemoveColor, PickReturn
<1>12. CASE \/ UniteFindB(w) \/ UniteRoots(w) \/ LockUf(w) \/ LockUfCheck(w) \/ LockUfUndo(w)
            \/ LockListA(w) \/ LockListB(w) \/ SwapLists(w) \/ SetParent(w)
            \/ ReadQw(w) \/ CompareRw(w) \/ AddQw(w) \/ CheckR(w) \/ FoundR(w)
            \/ UnlockListA(w) \/ UnlockListB(w) \/ UnlockUf(w)
  <2>1. Outer /\ pc[w] \in Labels
    BY <1>12 DEF UniteFindB, UniteRoots, LockUf, LockUfCheck, LockUfUndo, LockListA, LockListB, SwapLists,
       SetParent, ReadQw, CompareRw, AddQw, CheckR, FoundR, UnlockListA, UnlockListB, UnlockUf,
       Labels, FindLabels, PickLabels
  <2>2. /\ {"lock_uf", "lock_uf_check", "lock_uf_undo", "swap", "set_parent", "read_qw", "compare_rw",
            "add_qw", "check_r", "unlock_a", "unlock_b", "unlock_uf"} \subseteq Labels
        /\ {"unite_a", "unite_b", "found_r"} \subseteq FindBacks /\ {"list_a", "list_b"} = ListLabels
    BY DEF Labels, FindBacks, ListLabels
  <2>3. UniteRetry(w) => Kept
    BY <1>4, <2>1, <2>2 DEF UniteRetry
  <2>4. CASE UniteFindB(w) \/ UniteRoots(w) \/ LockUf(w) \/ LockUfCheck(w) \/ LockUfUndo(w)
    BY <1>2, <1>3, <1>4, <1>5, <2>1, <2>2, <2>3, <2>4 DEF UniteFindB, UniteRoots, LockUf, LockUfCheck,
       LockUfUndo, UniteReturn
  <2>5. CASE LockListA(w)
    <3>1. Call(w, "pick_a", <<"list_b">>) => Kept
      BY <2>1, <2>2, PushInCall
    <3>. QED
      BY <1>2, <1>5, <2>1, <2>2, <2>5, <3>1 DEF LockListA, UniteReturn
  <2>6. CASE LockListB(w) \/ SwapLists(w) \/ SetParent(w) \/ ReadQw(w) \/ CompareRw(w)
    BY <1>2, <1>3, <1>5, <2>1, <2>2, <2>6 DEF LockListB, SwapLists, SetParent, ReadQw, CompareRw, UniteReturn
  <2>7. CASE AddQw(w) \/ CheckR(w) \/ FoundR(w) \/ UnlockListA(w) \/ UnlockListB(w) \/ UnlockUf(w)
    BY <1>2, <1>3, <1>4, <2>1, <2>2, <2>7 DEF AddQw, CheckR, FoundR, UnlockListA, UnlockListB, UnlockUf,
       UniteReturn
  <2>. QED
    BY <1>12, <2>4, <2>5, <2>6, <2>7
<1> HIDE DEF Kept
<1>. QED
  BY <1>6, <1>7, <1>8, <1>9, <1>10, <1>11, <1>12 DEF UFStep

-----------------------------------------------------------------------------
(* What a step of one worker leaves alone *)

\* What a step of w leaves to the other workers
Alone(w) == OthersKept(w) /\ \A x \in Worker \ {w} : stack'[x] = stack[x]

\* A step of the union-find changes the locals of one worker only.
LEMMA UFStepAlone ==
  ASSUME NEW callers, Typed(callers), NEW w \in Worker, UFStep(w)
  PROVE  Alone(w)
<1> DEFINE Kept == \A x \in Worker \ {w} : pc'[x] = pc[x] /\ ret'[x] = ret[x] /\ stack'[x] = stack[x]
           Path == \A x \in Worker \ {w} : path'[x] = path[x]
           Loc  == \A x \in Worker \ {w} : loc'[x] = loc[x]
<1>1. /\ pc \in [Worker -> Labels \cup callers] /\ stack \in [Worker -> Seq(Back(callers))]
      /\ ret \in [Worker -> [code : Codes, node : Slot]]
      /\ path \in [Worker -> Seq(Slot)] /\ loc \in [Worker -> Locals]
  BY DEF Typed, ControlTyped, LocTyped
<1>2. \A label : (Goto(w, label) \/ Resume(w, label)) => Kept
  BY <1>1 DEF Goto, Resume
<1>3. \A label, backs : Call(w, label, backs) => Kept
  BY <1>1 DEF Call
<1>4. \A code, node : Return(w, code, node) => Kept
  BY <1>1 DEF Return
<1>5. \A s, backs : CallFind(w, s, backs) => Kept /\ Path
  BY <1>1, <1>3 DEF CallFind
<1>6. UNCHANGED control => Kept
  BY DEF control
<1>7. UNCHANGED path => Path
  OBVIOUS
<1>8. UNCHANGED loc => Loc
  OBVIOUS
<1>9. Kept /\ Path
  <2>1. CASE FindRead(w) \/ FindCompress(w)
    BY <1>1, <1>4, <1>6, <2>1 DEF FindRead, FindCompress
  <2>2. CASE ClaimDead(w) \/ ClaimFound(w) \/ ClaimOr(w) \/ ClaimCheck(w)
    BY <1>2, <1>4, <1>5, <2>2 DEF ClaimDead, ClaimFound, ClaimOr, ClaimCheck
  <2>3. CASE SameB(w) \/ SameA(w) \/ SameRetry(w)
    BY <1>2, <1>4, <1>5, <2>3 DEF SameB, SameA, SameRetry, SameReturn
  <2>4. CASE \/ PickA(w) \/ PickNext(w) \/ PickB(w) \/ PickC(w) \/ PickCompare(w) \/ PickWrite(w)
             \/ MarkDead(w) \/ Remove(w) \/ RemoveColor(w)
    BY <1>2, <1>4, <1>5, <2>4 DEF PickA, PickNext, PickB, PickC, PickCompare, PickWrite, MarkDead,
       Remove, RemoveColor, PickReturn, ContinueFromC
  <2>5. CASE \/ UniteFindB(w) \/ UniteRoots(w) \/ LockUf(w) \/ LockUfCheck(w) \/ LockUfUndo(w)
    BY <1>2, <1>3, <1>4, <1>5, <2>5 DEF UniteFindB, UniteRoots, LockUf, LockUfCheck, LockUfUndo,
       UniteReturn, UniteRetry, CallPick
  <2>6. CASE LockListA(w) \/ LockListB(w)
    BY <1>2, <1>3, <1>4, <2>6 DEF LockListA, LockListB, CallPick, UniteReturn
  <2>7. CASE \/ SwapLists(w) \/ SetParent(w) \/ ReadQw(w) \/ CompareRw(w) \/ AddQw(w) \/ CheckR(w)
             \/ FoundR(w) \/ UnlockListA(w) \/ UnlockListB(w) \/ UnlockUf(w)
    BY <1>2, <1>4, <1>5, <2>7 DEF SwapLists, SetParent, ReadQw, CompareRw, AddQw, CheckR, FoundR,
       UnlockListA, UnlockListB, UnlockUf, UniteReturn
  <2>. QED
    BY <2>1, <2>2, <2>3, <2>4, <2>5, <2>6, <2>7 DEF UFStep
<1>10. Loc
  <2>1. CASE \/ FindRead(w) \/ FindCompress(w)
             \/ ClaimDead(w) \/ ClaimFound(w) \/ ClaimOr(w) \/ ClaimCheck(w)
             \/ SameB(w) \/ SameA(w) \/ SameRetry(w)
    BY <1>1, <2>1 DEF FindRead, FindCompress, ClaimDead, ClaimFound, ClaimOr, ClaimCheck, SameB, SameA,
       SameRetry, SameReturn
  <2>2. CASE \/ PickA(w) \/ PickNext(w) \/ PickB(w) \/ PickC(w) \/ PickCompare(w) \/ PickWrite(w)
             \/ MarkDead(w) \/ Remove(w) \/ RemoveColor(w)
    BY <1>1, <2>2 DEF PickA, PickNext, PickB, PickC, PickCompare, PickWrite, MarkDead,
       Remove, RemoveColor, PickReturn, ContinueFromC
  <2>3. CASE \/ UniteFindB(w) \/ UniteRoots(w) \/ LockUf(w) \/ LockUfCheck(w) \/ LockUfUndo(w)
    BY <1>1, <2>3 DEF UniteFindB, UniteRoots, LockUf, LockUfCheck, LockUfUndo,
       UniteReturn, UniteRetry, CallPick
  <2>4. CASE LockListA(w) \/ LockListB(w)
    BY <1>1, <2>4 DEF LockListA, LockListB, CallPick, UniteReturn
  <2>5. CASE \/ SwapLists(w) \/ SetParent(w) \/ ReadQw(w) \/ CompareRw(w) \/ AddQw(w) \/ CheckR(w)
             \/ FoundR(w) \/ UnlockListA(w) \/ UnlockListB(w) \/ UnlockUf(w)
    BY <1>1, <2>5 DEF SwapLists, SetParent, ReadQw, CompareRw, AddQw, CheckR, FoundR,
       UnlockListA, UnlockListB, UnlockUf, UniteReturn
  <2>. QED
    BY <2>1, <2>2, <2>3, <2>4, <2>5 DEF UFStep
<1>. QED
  BY <1>9, <1>10 DEF Alone, OthersKept

\* The entries hold their lock and parent except where find, the locks of the
\* union-find, mark_dead and the union write.
LEMMA UFStepEntries ==
  ASSUME NEW callers, Typed(callers), NEW w \in Worker, UFStep(w)
  PROVE  /\ FindCompress(w) \/ SetParent(w) \/ \A s \in Slot : uf'[s].parent = uf[s].parent
         /\ \/ LockUf(w) \/ LockUfUndo(w) \/ UnlockUf(w) \/ MarkDead(w)
            \/ \A s \in Slot : uf'[s].uf_status = uf[s].uf_status
<1>1. CASE Quiet(w)
  BY <1>1 DEF Quiet, UfKept
<1>2. CASE FindRead(w) \/ UniteRoots(w)
  BY <1>2 DEF FindRead, UniteRoots
<1>3. CASE FindCompress(w)
  <2>1. path[w][Len(path[w])] \in Slot
    BY <1>3, EmptySeq DEF Typed, ControlTyped, FindCompress
  <2>. QED
    BY <1>3, <2>1 DEF Typed, UfTyped, Entry, FindCompress
<1>4. ret[w].node \in Slot
  BY DEF Typed, ControlTyped
<1>5. CASE MarkDead(w) \/ Remove(w)
  BY <1>4, <1>5, LocalsTyped DEF Typed, UfTyped, Entry, MarkDead, Remove
<1>6. CASE LockUf(w) \/ LockUfUndo(w) \/ UnlockUf(w)
  BY <1>6, LocalsTyped DEF Typed, UfTyped, Entry, LockUf, LockUfUndo, UnlockUf
<1>7. CASE SetParent(w) \/ UnlockListA(w) \/ UnlockListB(w)
  BY <1>7, LocalsTyped DEF Typed, UfTyped, Entry, SetParent, Merged, UnlockListA, UnlockListB, Unlocked
<1>8. CASE LockListA(w) \/ LockListB(w)
  BY <1>4, <1>8, LocalsTyped, SMTT(30) DEF Typed, UfTyped, Entry, LockListA, LockListB
<1>. QED
  BY <1>1, <1>2, <1>3, <1>5, <1>6, <1>7, <1>8, ClaimQuiet, SameQuiet, PickQuiet, UniteQuiet DEF UFStep

-----------------------------------------------------------------------------
(* What the workers know of the sets *)

\* The call of w that has to return to l in a function of the union-find, itself
\* called by the program
Awaits(w, l) == Len(stack[w]) > 1 /\ stack[w][2] = l

RegionLabels == {"lock_uf", "lock_uf_check", "lock_uf_undo", "list_a", "list_b", "swap", "set_parent",
                 "read_qw", "compare_rw", "add_qw", "check_r", "found_r", "unlock_a", "unlock_b",
                 "unlock_uf"}
LinkLabels   == {"list_a", "list_b", "swap", "set_parent"}
JoinedLabels == {"read_qw", "compare_rw", "add_qw", "check_r", "found_r", "unlock_a", "unlock_b", "unlock_uf"}

\* w has chosen q and r; it is about to link them; it has.
Region(w)  == pc[w] \in RegionLabels \/ \E l \in ListLabels \cup {"found_r"} : Awaits(w, l)
Linking(w) == pc[w] \in LinkLabels \/ \E l \in ListLabels : Awaits(w, l)
Joined(w)  == pc[w] \in JoinedLabels \/ Awaits(w, "found_r")

\* All states on w's path are in one set, and none is a representative any more
\* once find has seen its parent.
PathOne(w) ==
  pc[w] \in FindLabels =>
    /\ \A i \in 1 .. Len(path[w]) :
         /\ Root[path[w][i]] = Root[path[w][1]]
         /\ pc[w] = "compress" \/ i < Len(path[w]) => uf[path[w][i]].parent # 0
    /\ pc[w] = "compress" => Root[ret[w].node] = Root[path[w][1]]

\* The lower root stays a representative from the check under its lock to the union.
QRoot(w) == Linking(w) => uf[loc[w].unite.q].parent = 0

UniteSets(w) ==
  LET u == loc[w].unite
  IN  /\ Awaits(w, "unite_a") => Root[path[w][1]] = Root[u.a]
      /\ pc[w] = "unite_a" => Root[ret[w].node] = Root[u.a]
      /\ Awaits(w, "unite_b") => Root[path[w][1]] = Root[u.b] /\ Root[u.ar] = Root[u.a]
      /\ pc[w] = "unite_b" => Root[ret[w].node] = Root[u.b] /\ Root[u.ar] = Root[u.a]
      /\ Region(w) => /\ u.q < u.r
                      /\ \/ Root[u.q] = Root[u.a] /\ Root[u.r] = Root[u.b]
                         \/ Root[u.q] = Root[u.b] /\ Root[u.r] = Root[u.a]
      /\ Joined(w) => Root[u.a] = Root[u.b]

Knows(w, callers) == InCall(w, callers) /\ PathOne(w) /\ QRoot(w) /\ UniteSets(w)

Holding(w) == pc[w] # "lock_uf" /\ loc[w].unite.q < loc[w].unite.r

\* LocksOwned for UF_LOCK, slot 0 included
OneHolder ==
  \A w \in Worker : Holding(w) =>
    /\ uf[loc[w].unite.q].uf_status = LOCK
    /\ \A x \in Worker \ {w} : Holding(x) => loc[w].unite.q # loc[x].unite.q

SetsInv(callers) ==
  /\ Outside(callers) /\ Typed(callers) /\ Upward /\ Locked
  /\ OneHolder
  /\ \A w \in Worker : Knows(w, callers)

\* What was one set stays one.
Coarser == \A m, n \in Slot : Root[m] = Root[n] => Root'[m] = Root'[n]

\* Representatives in a state of the program.
LEMMA RootFacts ==
  ASSUME UfTyped, ParentIncreasing, NEW n \in Slot
  PROVE  /\ Root[n] \in Slot /\ uf[Root[n]].parent = 0 /\ n <= Root[n]
         /\ uf[n].parent = 0 <=> Root[n] = n
         /\ uf[n].parent # 0 => /\ n < Root[n] /\ Root[n] = Root[uf[n].parent]
                                /\ uf[n].parent \in Slot /\ n < uf[n].parent
<1>1. Increasing(Parent) /\ Root = RootOf(Parent)
  BY RootIsRootOf
<1>2. \A s \in Slot : Parent[s] = uf[s].parent
  BY DEF Parent
<1>3. /\ Root[n] \in Slot /\ Parent[Root[n]] = 0 /\ n <= Root[n]
      /\ Parent[n] = 0 => Root[n] = n
      /\ Parent[n] # 0 => Root[n] = Root[Parent[n]]
  BY <1>1, RootOfTop
<1>4. uf[n].parent # 0 => n < uf[n].parent /\ uf[n].parent \in Slot
  BY <1>1, <1>2 DEF Increasing
<1>5. uf[n].parent # 0 => uf[n].parent <= Root[n]
  <2>1. uf[n].parent # 0 => uf[n].parent <= Root[uf[n].parent]
    BY <1>1, <1>4, RootOfTop
  <2>. QED
    BY <1>2, <1>3, <2>1
<1>6. n \in Int /\ Root[n] \in Int /\ uf[n].parent \in Int
  BY <1>3, <1>4, SlotZero
<1>7. uf[n].parent # 0 => n < Root[n]
  BY <1>4, <1>5, <1>6
<1>. QED
  BY <1>2, <1>3, <1>4, <1>6, <1>7

\* Steps that change no parent change no set.
LEMMA RootKept ==
  ASSUME UfTyped, UfTyped', \A s \in Slot : uf'[s].parent = uf[s].parent
  PROVE  Root' = Root
<1> DEFINE F(f) == [n \in Slot |-> IF uf[n].parent = 0 THEN n ELSE f[uf[n].parent]]
           H(f) == [n \in Slot |-> IF uf'[n].parent = 0 THEN n ELSE f[uf'[n].parent]]
<1>1. Root = CHOOSE f : f = F(f)
  BY DEF Root
<1>2. Root' = CHOOSE f : f = H(f)
  BY DEF Root
<1>3. \A f : F(f) = H(f)
  OBVIOUS
<1>. QED
  BY <1>1, <1>2, <1>3

\* Path compression changes no set either.
LEMMA CompressKept ==
  ASSUME NEW callers, Typed(callers), Typed(callers)', Upward, Upward', NEW w \in Worker,
         PathOne(w), FindCompress(w)
  PROVE  Root' = Root /\ (\A s \in Slot : uf[s].parent = 0 <=> uf'[s].parent = 0)
<1> DEFINE s == path[w][Len(path[w])]
           r == ret[w].node
<1>1. path[w] \in Seq(Slot) /\ path[w] # <<>> /\ r \in Slot /\ pc[w] = "compress"
  BY DEF Typed, ControlTyped, FindCompress
<1>2. Len(path[w]) \in 1 .. Len(path[w]) /\ s \in Slot
  BY <1>1, EmptySeq
<1>3. s < r /\ Root[s] = Root[r] /\ uf[s].parent # 0
  BY <1>1, <1>2 DEF Upward, PathOne, FindLabels
<1>4. uf' = [uf EXCEPT ![s].parent = r]
  BY DEF FindCompress
<1>5. Increasing(Parent) /\ Root = RootOf(Parent)
  BY RootIsRootOf DEF Typed, Upward
<1>6. Root' = RootOf(Parent')
  BY RootIsRootOfNext DEF Typed, Upward
<1>7. \A n \in Slot : uf'[n].parent = IF n = s THEN r ELSE uf[n].parent
  BY <1>1, <1>2, <1>4 DEF Typed, UfTyped, Entry
<1>8. Parent' = [Parent EXCEPT ![s] = r]
  BY <1>2, <1>7 DEF Parent
<1> HIDE DEF s, r
<1>9. RootOf([Parent EXCEPT ![s] = r]) = RootOf(Parent)
  BY <1>1, <1>2, <1>3, <1>5, RootOfCompressed
<1>10. r # 0
  BY <1>1, <1>2, <1>3 DEF Slot
<1>. QED
  BY <1>3, <1>5, <1>6, <1>7, <1>8, <1>9, <1>10

\* The union joins the sets of q and r, nothing else.
LEMMA LinkKept ==
  ASSUME NEW callers, Typed(callers), Typed(callers)', Upward, Upward', NEW w \in Worker,
         QRoot(w), UniteSets(w), SetParent(w)
  PROVE  /\ Coarser /\ Root'[loc[w].unite.q] = Root'[loc[w].unite.r]
         /\ \A s \in Slot : uf'[s].parent = IF s = loc[w].unite.q THEN loc[w].unite.r ELSE uf[s].parent
         /\ \A n \in Slot : Root'[n] = IF Root[n] = loc[w].unite.q THEN Root[loc[w].unite.r] ELSE Root[n]
<1> DEFINE q == loc[w].unite.q
           r == loc[w].unite.r
<1>1. q \in Slot /\ r \in Slot /\ q < r /\ uf[q].parent = 0
  <2>1. pc[w] \in LinkLabels /\ pc[w] \in RegionLabels
    BY DEF SetParent, LinkLabels, RegionLabels
  <2>. QED
    BY <2>1, LocalsTyped DEF Typed, QRoot, UniteSets, Linking, Region
<1>2. uf' = [uf EXCEPT ![q].parent = r]
  BY DEF SetParent, Merged
<1>3. Increasing(Parent) /\ Root = RootOf(Parent)
  BY RootIsRootOf DEF Typed, Upward
<1>4. Root' = RootOf(Parent')
  BY RootIsRootOfNext DEF Typed, Upward
<1>5. \A n \in Slot : uf'[n].parent = IF n = q THEN r ELSE uf[n].parent
  BY <1>1, <1>2 DEF Typed, UfTyped, Entry
<1>6. Parent' = [Parent EXCEPT ![q] = r] /\ Parent[q] = 0
  BY <1>1, <1>5 DEF Parent
<1>7. Root[q] = q
  BY <1>1, RootFacts DEF Typed, Upward
<1> HIDE DEF q, r
<1>8. Root' = [n \in Slot |-> IF Root[n] = q THEN Root[r] ELSE Root[n]]
  <2> DEFINE par == Parent
  <2>1. Increasing(par) /\ par[q] = 0
    BY <1>3, <1>6
  <2> HIDE DEF par
  <2>2. RootOf([par EXCEPT ![q] = r])
           = [n \in Slot |-> IF RootOf(par)[n] = q THEN RootOf(par)[r] ELSE RootOf(par)[n]]
    BY <1>1, <2>1, RootOfMerged
  <2>. QED
    BY <1>3, <1>4, <1>6, <2>2 DEF par
<1>. QED
  BY <1>1, <1>5, <1>7, <1>8 DEF Coarser, q, r

\* No step takes a set apart, whoever else is at work.
LEMMA UFStepCoarser ==
  ASSUME NEW callers, SetsInv(callers), NEW w \in Worker, UFStep(w), Typed(callers)', Upward'
  PROVE  Coarser
<1>1. CASE FindCompress(w)
  BY <1>1, CompressKept DEF SetsInv, Knows, Coarser
<1>2. CASE SetParent(w)
  BY <1>2, LinkKept DEF SetsInv, Knows
<1>3. CASE \A s \in Slot : uf'[s].parent = uf[s].parent
  BY <1>3, RootKept DEF SetsInv, Typed, Coarser
<1>. QED
  BY <1>1, <1>2, <1>3, UFStepEntries DEF SetsInv

-----------------------------------------------------------------------------
(* Which call a worker awaits, before and after a move *)

\* No function of the union-find is open above the one that moves.
LEMMA AwaitsNone ==
  ASSUME NEW callers, Outside(callers), NEW w \in Worker, InCall(w, callers),
         pc[w] \in (Labels \cup callers) \ (FindLabels \cup PickLabels)
  PROVE  \A l : ~Awaits(w, l)
<1>1. stack[w] = <<>> \/ \E c : stack[w] = <<c>>
  BY OuterStack DEF InCall, Outside
<1>2. Len(stack[w]) = 0 \/ Len(stack[w]) = 1
  <2>1. ASSUME NEW c, stack[w] = <<c>>
        PROVE  Len(stack[w]) = 1
    BY <2>1
  <2>2. CASE stack[w] = <<>>
    BY <2>2
  <2>. QED
    BY <1>1, <2>1, <2>2
<1>. QED
  BY <1>2 DEF Awaits

\* A call of one of them.
LEMMA AwaitsPush ==
  ASSUME NEW callers, Typed(callers), Outside(callers), NEW w \in Worker, InCall(w, callers),
         pc[w] \in Labels \ (FindLabels \cup PickLabels), NEW label, NEW b, Call(w, label, <<b>>)
  PROVE  pc'[w] = label /\ \A l : Awaits(w, l)' <=> l = b
<1>1. PICK c \in callers : stack[w] = <<c>>
  BY OuterStack
<1>2. stack'[w] = stack[w] \o <<b>> /\ pc'[w] = label
  BY DEF Typed, ControlTyped, Call
<1>3. stack'[w] = <<c, b>>
  BY <1>1, <1>2, PushTwo
<1>4. Len(stack'[w]) = 2 /\ stack'[w][2] = b
  BY <1>3
<1>. QED
  BY <1>2, <1>4 DEF Awaits

\* mark_dead, called by pick_from_list, calls find.
LEMMA AwaitsMark ==
  ASSUME NEW callers, Typed(callers), Outside(callers), NEW w \in Worker, InCall(w, callers),
         pc[w] \in PickLabels, Call(w, "find", <<"mark_dead">>)
  PROVE  pc'[w] = "find" /\ \A l : Awaits(w, l)' <=> Awaits(w, l) \/ (l = "mark_dead" /\ \A k : ~Awaits(w, k))
<1>1. PICK c \in callers : stack[w] = <<c>> \/ \E l \in ListLabels : stack[w] = <<c, l>>
  BY PickStack
<1>2. stack'[w] = stack[w] \o <<"mark_dead">> /\ pc'[w] = "find"
  BY DEF Typed, ControlTyped, Call
<1>3. CASE stack[w] = <<c>>
  <2>1. stack'[w] = <<c, "mark_dead">>
    BY <1>2, <1>3, PushTwo
  <2>2. Len(stack'[w]) = 2 /\ stack'[w][2] = "mark_dead" /\ Len(stack[w]) = 1
    BY <1>3, <2>1
  <2>. QED
    BY <1>2, <2>2 DEF Awaits
<1>4. ASSUME NEW l \in ListLabels, stack[w] = <<c, l>>
      PROVE  \A k : Awaits(w, k)' <=> Awaits(w, k)
  <2> DEFINE d == "mark_dead"
  <2>0. stack'[w] = stack[w] \o <<d>>
    BY <1>2
  <2> HIDE DEF d
  <2>1. stack'[w] = <<c, l, d>>
    BY <1>4, <2>0, PushThree
  <2>2. Len(stack'[w]) = 3 /\ stack'[w][2] = l /\ Len(stack[w]) = 2 /\ stack[w][2] = l
    BY <1>4, <2>1
  <2>. QED
    BY <2>2 DEF Awaits
<1>5. ASSUME NEW l \in ListLabels, stack[w] = <<c, l>>
      PROVE  Awaits(w, l)
  <2>1. Len(stack[w]) = 2 /\ stack[w][2] = l
    BY <1>5
  <2>. QED
    BY <2>1 DEF Awaits
<1>. QED
  BY <1>1, <1>2, <1>3, <1>4, <1>5

\* A return: to the program, or to the function that awaits it.
LEMMA AwaitsReturn ==
  ASSUME NEW callers, Typed(callers), Outside(callers), NEW w \in Worker, InCall(w, callers),
         pc[w] \in Labels, NEW code, NEW node, Return(w, code, node)
  PROVE  /\ ret'[w] = [code |-> code, node |-> node]
         /\ \/ pc'[w] \in callers /\ stack'[w] = <<>> /\ (\A l : ~Awaits(w, l)') /\ (\A l : ~Awaits(w, l))
            \/ pc[w] \in FindLabels /\ pc'[w] = "mark_dead"
                 /\ \/ (\A l : Awaits(w, l)' <=> Awaits(w, l)) /\ \E l \in ListLabels : Awaits(w, l)
                    \/ (\A l : ~Awaits(w, l)') /\ Awaits(w, "mark_dead")
            \/ pc[w] \in FindLabels /\ pc'[w] \in FindBacks /\ Awaits(w, pc'[w]) /\ \A l : ~Awaits(w, l)'
            \/ pc[w] \in PickLabels /\ pc'[w] \in ListLabels /\ Awaits(w, pc'[w]) /\ \A l : ~Awaits(w, l)'
<1>1. /\ pc'[w] = stack[w][Len(stack[w])] /\ stack'[w] = SubSeq(stack[w], 1, Len(stack[w]) - 1)
      /\ ret'[w] = [code |-> code, node |-> node]
  BY DEF Typed, ControlTyped, Return
<1>2. PICK c \in callers :
       \/ pc[w] \in Labels /\ stack[w] = <<c>>
       \/ pc[w] \in FindLabels /\ \E b \in FindBacks \cup {"mark_dead"} : stack[w] = <<c, b>>
       \/ pc[w] \in PickLabels /\ \E l \in ListLabels : stack[w] = <<c, l>>
       \/ pc[w] \in FindLabels /\ \E l \in ListLabels : stack[w] = <<c, l, "mark_dead">>
  BY DEF InCall, Outside
<1>3. CASE stack[w] = <<c>>
  <2>1. pc'[w] = c /\ stack'[w] = <<>>
    BY <1>1, <1>3, PopOne
  <2>2. Len(stack[w]) = 1 /\ Len(stack'[w]) = 0
    BY <1>3, <2>1
  <2>. QED
    BY <1>1, <2>1, <2>2 DEF Awaits
<1>4. ASSUME NEW b \in FindBacks \cup {"mark_dead"} \cup ListLabels, stack[w] = <<c, b>>
      PROVE  pc'[w] = b /\ Awaits(w, b) /\ \A l : ~Awaits(w, l)'
  <2>1. pc'[w] = b /\ stack'[w] = <<c>>
    BY <1>1, <1>4, PopTwo, SMTT(30)
  <2>2. Len(stack[w]) = 2 /\ stack[w][2] = b /\ Len(stack'[w]) = 1
    BY <1>4, <2>1
  <2>. QED
    BY <2>1, <2>2 DEF Awaits
<1>5. ASSUME NEW l \in ListLabels, NEW d \in {"mark_dead"}, stack[w] = <<c, l, d>>
      PROVE  pc'[w] = d /\ Awaits(w, l) /\ \A k : Awaits(w, k)' <=> Awaits(w, k)
  <2> DEFINE s == stack[w]
  <2>0. s = <<c, l, d>> /\ pc'[w] = s[Len(s)] /\ stack'[w] = SubSeq(s, 1, Len(s) - 1)
    BY <1>1, <1>5
  <2> HIDE DEF s
  <2>1. pc'[w] = d /\ stack'[w] = <<c, l>>
    BY <2>0, PopThree
  <2>2. Len(stack[w]) = 3 /\ stack[w][2] = l /\ Len(stack'[w]) = 2 /\ stack'[w][2] = l
    BY <1>5, <2>1
  <2>. QED
    BY <2>1, <2>2 DEF Awaits
<1>. QED
  BY <1>1, <1>2, <1>3, <1>4, <1>5

\* While it waits for find it is in find, and while for pick_from_list, in that.
LEMMA AwaitsWhere ==
  ASSUME NEW callers, Outside(callers), NEW w \in Worker, InCall(w, callers)
  PROVE  /\ \A b \in FindBacks : Awaits(w, b) => pc[w] \in FindLabels
         /\ \A l \in ListLabels : Awaits(w, l) => pc[w] \in FindLabels \cup PickLabels
         /\ \A k, l : Awaits(w, k) /\ Awaits(w, l) => k = l
<1>1. ASSUME NEW c, NEW d, stack[w] = <<>> \/ stack[w] = <<c>>
      PROVE  \A l : ~Awaits(w, l)
  BY <1>1 DEF Awaits
<1>2. ASSUME NEW c, NEW b, stack[w] = <<c, b>>
      PROVE  \A l : Awaits(w, l) => l = b
  BY <1>2 DEF Awaits
<1>3. ASSUME NEW c, NEW l, NEW d, stack[w] = <<c, l, d>>
      PROVE  \A k : Awaits(w, k) => k = l
  BY <1>3 DEF Awaits
<1>4. \A b \in FindBacks : Awaits(w, b) => pc[w] \in FindLabels
  BY <1>1, <1>2, <1>3, LabelSets, SMTT(30) DEF InCall
<1>5. \A l \in ListLabels : Awaits(w, l) => pc[w] \in FindLabels \cup PickLabels
  BY <1>1, <1>2, <1>3, LabelSets DEF InCall
<1>. QED
  BY <1>4, <1>5 DEF Awaits

\* After a step too, whoever awaits find is in find.
LEMMA AwaitsFindNext ==
  ASSUME NEW callers, NEW w \in Worker, InCall(w, callers)', NEW b \in FindBacks, Awaits(w, b)'
  PROVE  pc'[w] \in FindLabels
<1>1. ASSUME NEW c, NEW d, stack'[w] = <<>> \/ stack'[w] = <<c>>
      PROVE  FALSE
  BY <1>1 DEF Awaits
<1>2. ASSUME NEW c, NEW l \in ListLabels, NEW d, stack'[w] = <<c, l>> \/ stack'[w] = <<c, l, d>>
      PROVE  FALSE
  BY <1>2, LabelSets DEF Awaits
<1>. QED
  BY <1>1, <1>2 DEF InCall

-----------------------------------------------------------------------------
(* What the steps of one worker leave of what the others know, and the locks on roots *)

\* A slot that has a parent keeps one.
LEMMA ParentsStay ==
  ASSUME NEW callers, SetsInv(callers), NEW w \in Worker, UFStep(w), Typed(callers)', Upward'
  PROVE  /\ \A s \in Slot : uf[s].parent # 0 => uf'[s].parent # 0
         /\ \A s \in Slot : uf[s].parent = 0 /\ uf'[s].parent # 0 =>
               /\ SetParent(w) /\ s = loc[w].unite.q
               /\ pc[w] = "set_parent" /\ Holding(w)
<1>1. CASE FindCompress(w)
  BY <1>1, CompressKept DEF SetsInv, Knows
<1>2. CASE SetParent(w)
  <2>1. pc[w] = "set_parent" /\ pc[w] \in RegionLabels
    BY <1>2 DEF SetParent, RegionLabels
  <2>2. loc[w].unite.q < loc[w].unite.r /\ loc[w].unite.q \in Slot /\ loc[w].unite.r \in Slot
    BY <2>1, LocalsTyped DEF SetsInv, Typed, Knows, UniteSets, Region
  <2>3. \A s \in Slot : uf'[s].parent = IF s = loc[w].unite.q THEN loc[w].unite.r ELSE uf[s].parent
    BY <1>2, LinkKept DEF SetsInv, Knows
  <2>4. Holding(w)
    BY <2>1, <2>2 DEF Holding
  <2>5. loc[w].unite.r # 0
    BY <2>2 DEF Slot
  <2>. QED
    BY <1>2, <2>1, <2>3, <2>4, <2>5
<1>. QED
  BY <1>1, <1>2, UFStepEntries DEF SetsInv

\* What the other workers know stays true: their sets only grow, and nobody
\* links the root they are about to link.
LEMMA OthersKnow ==
  ASSUME NEW callers, SetsInv(callers), NEW w \in Worker, UFStep(w), Typed(callers)', Upward',
         NEW x \in Worker \ {w}
  PROVE  Knows(x, callers)'
<1>1. /\ pc'[x] = pc[x] /\ stack'[x] = stack[x] /\ ret'[x] = ret[x]
      /\ path'[x] = path[x] /\ loc'[x] = loc[x]
  BY UFStepAlone DEF SetsInv, Alone, OthersKept
<1>2. Coarser
  BY UFStepCoarser
<1>3. \A l : Awaits(x, l)' <=> Awaits(x, l)
  BY <1>1 DEF Awaits
<1>4. Region(x)' = Region(x) /\ Linking(x)' = Linking(x) /\ Joined(x)' = Joined(x)
  BY <1>1, <1>3 DEF Region, Linking, Joined
<1>5. InCall(x, callers)'
  BY <1>1 DEF SetsInv, Knows, InCall
<1>6. ret[x].node \in Slot /\ path[x] \in Seq(Slot) /\ (pc[x] \in FindLabels => path[x] # <<>>)
  BY DEF SetsInv, Typed, ControlTyped, FindLabels
<1>7. PathOne(x)'
  <2>1. pc[x] \in FindLabels => path[x][1] \in Slot /\ \A i \in 1 .. Len(path[x]) : path[x][i] \in Slot
    BY <1>6, EmptySeq
  <2>. QED
    BY <1>1, <1>2, <1>6, <2>1, ParentsStay DEF SetsInv, Knows, PathOne, Coarser
<1>8. QRoot(x)'
  <2>1. SUFFICES ASSUME Linking(x) PROVE uf'[loc[x].unite.q].parent = 0
    BY <1>1, <1>4 DEF QRoot
  <2>2. Region(x) /\ pc[x] # "lock_uf"
    <3>1. Region(x)
      BY <2>1 DEF Region, Linking, LinkLabels, RegionLabels
    <3>2. pc[x] \in LinkLabels \cup FindLabels \cup PickLabels
      BY <2>1, AwaitsWhere DEF SetsInv, Knows, Linking
    <3>. QED
      BY <3>1, <3>2 DEF LinkLabels, FindLabels, PickLabels
  <2>3. Holding(x) /\ loc[x].unite.q \in Slot /\ uf[loc[x].unite.q].parent = 0
    BY <2>1, <2>2, LocalsTyped DEF SetsInv, Typed, Knows, UniteSets, QRoot, Holding
  <2>. QED
    BY <2>3, ParentsStay DEF SetsInv, OneHolder
<1>9. UniteSets(x)'
  <2> DEFINE u == loc[x].unite
  <2>1. u.a \in Slot /\ u.b \in Slot /\ u.ar \in Slot /\ u.q \in Slot /\ u.r \in Slot
    BY LocalsTyped DEF SetsInv, Typed
  <2>2. Awaits(x, "unite_a") \/ Awaits(x, "unite_b") => path[x][1] \in Slot
    <3>1. {"unite_a", "unite_b"} \subseteq FindBacks
      BY DEF FindBacks
    <3>. QED
      BY <1>6, <3>1, AwaitsWhere, EmptySeq DEF SetsInv, Knows
  <2>3. UniteSets(x)
    BY DEF SetsInv, Knows
  <2>. QED
    BY <1>1, <1>2, <1>3, <1>4, <1>6, <2>1, <2>2, <2>3 DEF UniteSets, Coarser
<1>. QED
  BY <1>5, <1>7, <1>8, <1>9 DEF Knows

\* How a step changes the roles of its unite: not, by forgetting them, by
\* choosing them, or by locking q.
LEMMA UFStepRoles ==
  ASSUME NEW callers, Typed(callers), NEW w \in Worker, UFStep(w)
  PROVE  LET u == loc[w].unite
             v == loc'[w].unite
         IN  \/ v.q = u.q /\ v.r = u.r /\ pc[w] \notin {"lock_uf", "lock_uf_undo", "unlock_uf"}
             \/ v.q = 0 /\ v.r = 0
             \/ UniteRoots(w) /\ pc'[w] = "lock_uf"
             \/ LockUf(w) /\ v.q = u.q /\ v.r = u.r /\ uf[u.q].uf_status = LIVE /\ uf'[u.q].uf_status = LOCK
                  /\ \A s \in Slot \ {u.q} : uf'[s].uf_status = uf[s].uf_status
<1> DEFINE u == loc[w].unite
           v == loc'[w].unite
           Plain == v = u /\ pc[w] \notin {"lock_uf", "lock_uf_undo", "unlock_uf"}
<1>1. loc \in [Worker -> Locals] /\ u \in Unites
  BY LocalsTyped DEF Typed, LocTyped
<1>2. CASE \/ FindRead(w) \/ FindCompress(w)
           \/ ClaimDead(w) \/ ClaimFound(w) \/ ClaimOr(w) \/ ClaimCheck(w)
           \/ SameB(w) \/ SameA(w) \/ SameRetry(w)
  <2>1. Plain
    BY <1>1, <1>2 DEF Locals, FindRead, FindCompress, ClaimDead, ClaimFound, ClaimOr, ClaimCheck, SameB, SameA,
       SameRetry, SameReturn
  <2>. QED
    BY <2>1
<1>3. CASE \/ PickA(w) \/ PickNext(w) \/ PickB(w) \/ PickC(w) \/ PickCompare(w) \/ PickWrite(w)
           \/ MarkDead(w) \/ Remove(w) \/ RemoveColor(w)
  <2>1. Plain
    BY <1>1, <1>3 DEF Locals, PickA, PickNext, PickB, PickC, PickCompare, PickWrite, MarkDead,
       Remove, RemoveColor, PickReturn, ContinueFromC
  <2>. QED
    BY <2>1
<1>4. UniteReturn(w) \/ UniteRetry(w) => v.q = 0 /\ v.r = 0
  <2>1. UniteReturn(w) => v = NoUnite
    BY <1>1 DEF UniteReturn, Locals
  <2>2. UniteRetry(w) => v = [u EXCEPT !.q = 0, !.r = 0]
    BY <1>1 DEF UniteRetry, Locals
  <2>3. NoUnite.q = 0 /\ NoUnite.r = 0
    BY DEF NoUnite
  <2>4. \A z \in Unites : [z EXCEPT !.q = 0, !.r = 0].q = 0 /\ [z EXCEPT !.q = 0, !.r = 0].r = 0
    BY DEF Unites
  <2>. QED
    BY <1>1, <2>1, <2>2, <2>3, <2>4
<1>5. CASE UniteRoots(w)
  <2>1. Resume(w, "lock_uf") => pc'[w] = "lock_uf"
    BY DEF Typed, ControlTyped, Resume
  <2>. QED
    BY <1>4, <1>5, <2>1 DEF UniteRoots
<1>6. CASE LockUf(w)
  <2>1. CASE Lockable(u.q)
    <3>1. uf' = [uf EXCEPT ![u.q].uf_status = LOCK] /\ UNCHANGED loc /\ uf[u.q].uf_status = LIVE
      BY <1>6, <2>1 DEF LockUf, Lockable
    <3>2. u.q \in Slot
      BY LocalsTyped DEF Typed
    <3>. QED
      BY <1>6, <3>1, <3>2 DEF Typed, UfTyped, Entry
  <2>. QED
    BY <1>4, <1>6, <2>1 DEF LockUf
<1>7. CASE UniteFindB(w) \/ LockUfCheck(w) \/ LockUfUndo(w)
  <2>1. UniteFindB(w) => v = [u EXCEPT !.ar = ret[w].node] /\ pc[w] = "unite_a"
    BY <1>1 DEF UniteFindB, Locals
  <2>2. LockUfCheck(w) => v = u /\ pc[w] = "lock_uf_check"
    BY <1>1 DEF LockUfCheck, Locals, CallPick
  <2>. QED
    BY <1>1, <1>4, <1>7, <2>1, <2>2 DEF LockUfUndo, Unites
<1>8. CASE LockListA(w) \/ LockListB(w)
  <2>1. UniteReturn(w) \/ (v.q = u.q /\ v.r = u.r)
    <3>1. CASE LockListA(w)
      <4>1. ASSUME loc' = [loc EXCEPT ![w] = [@ EXCEPT !.unite.al = ret[w].node, !.pick.a = u.b]]
            PROVE  v = [u EXCEPT !.al = ret[w].node]
        BY <1>1, <4>1 DEF Locals
      <4>2. ASSUME loc' = [loc EXCEPT ![w].pick = [NoPick EXCEPT !.a = u.a]]
            PROVE  v = u
        BY <1>1, <4>2 DEF Locals
      <4>. QED
        BY <1>1, <3>1, <4>1, <4>2 DEF LockListA, Unites, CallPick
    <3>2. CASE LockListB(w)
      BY <1>1, <3>2 DEF LockListB, Locals, Unites, CallPick
    <3>. QED
      BY <1>8, <3>1, <3>2
  <2>. QED
    BY <1>4, <1>8, <2>1 DEF LockListA, LockListB
<1>9. CASE SwapLists(w) \/ SetParent(w) \/ AddQw(w) \/ CheckR(w) \/ UnlockListA(w) \/ UnlockListB(w)
  BY <1>9 DEF SwapLists, SetParent, AddQw, CheckR, UnlockListA, UnlockListB
<1>10. CASE ReadQw(w) \/ CompareRw(w) \/ FoundR(w)
  <2>1. v.q = u.q /\ v.r = u.r
    BY <1>1, <1>10 DEF ReadQw, CompareRw, FoundR, Locals, Unites
  <2>. QED
    BY <1>10, <2>1 DEF ReadQw, CompareRw, FoundR
<1>11. CASE UnlockUf(w)
  BY <1>4, <1>11 DEF UnlockUf
<1>. QED
  BY <1>2, <1>3, <1>5, <1>6, <1>7, <1>8, <1>9, <1>10, <1>11 DEF UFStep

\* A lock of the union-find has one holder.
LEMMA HolderKept ==
  ASSUME NEW callers, SetsInv(callers), NEW w \in Worker, UFStep(w)
  PROVE  OneHolder'
<1> DEFINE u == loc[w].unite
           v == loc'[w].unite
<1>1. \A x \in Worker \ {w} : pc'[x] = pc[x] /\ loc'[x] = loc[x]
  BY UFStepAlone DEF SetsInv, Alone, OthersKept
<1>2. \A x \in Worker : loc[x].unite.q \in Slot /\ loc[x].unite.r \in Slot
  BY LocalsTyped DEF SetsInv, Typed
<1>3. \A x \in Worker \ {w} : Holding(x)' <=> Holding(x)
  BY <1>1 DEF Holding
<1>4. CASE LockUf(w) /\ v.q = u.q /\ v.r = u.r /\ uf[u.q].uf_status = LIVE /\ uf'[u.q].uf_status = LOCK
           /\ \A s \in Slot \ {u.q} : uf'[s].uf_status = uf[s].uf_status
  <2>1. \A x \in Worker \ {w} : Holding(x) => loc[x].unite.q # u.q
    BY <1>4 DEF SetsInv, OneHolder, LIVE, LOCK
  <2>. QED
    BY <1>1, <1>2, <1>3, <1>4, <2>1 DEF SetsInv, OneHolder
<1>5. CASE ~LockUf(w)
           /\ \/ v.q = u.q /\ v.r = u.r /\ pc[w] \notin {"lock_uf", "lock_uf_undo", "unlock_uf"}
              \/ v.q = 0 /\ v.r = 0
              \/ UniteRoots(w) /\ pc'[w] = "lock_uf"
  <2>1. Holding(w)' => Holding(w) /\ v.q = u.q /\ pc[w] \notin {"lock_uf", "lock_uf_undo", "unlock_uf"}
    BY <1>5 DEF Holding
  <2>2. ASSUME NEW x \in Worker, Holding(x)'
        PROVE  Holding(x) /\ loc'[x].unite.q = loc[x].unite.q
    BY <1>1, <1>3, <2>1, <2>2
  <2>3. ASSUME NEW x \in Worker, Holding(x)'
        PROVE  uf'[loc[x].unite.q].uf_status = LOCK
    <3>1. uf[loc[x].unite.q].uf_status = LOCK /\ loc[x].unite.q \in Slot
      BY <1>2, <2>2, <2>3 DEF SetsInv, OneHolder
    <3>2. CASE LockUfUndo(w) \/ UnlockUf(w)
      <4>1. pc[w] \in {"lock_uf_undo", "unlock_uf"} /\ uf' = [uf EXCEPT ![u.q].uf_status = LIVE]
        BY <3>2 DEF LockUfUndo, UnlockUf
      <4>2. x # w
        BY <2>1, <2>3, <4>1
      <4>3. Region(w)
        BY <4>1 DEF Region, RegionLabels
      <4>4. Holding(w)
        BY <4>1, <4>3 DEF SetsInv, Knows, UniteSets, Holding
      <4>5. u.q # loc[x].unite.q
        BY <2>2, <2>3, <4>2, <4>4 DEF SetsInv, OneHolder
      <4>. QED
        BY <1>2, <3>1, <4>1, <4>5 DEF SetsInv, Typed, UfTyped, Entry
    <3>3. CASE MarkDead(w)
      <4>1. ret[w].node \in Slot
        BY DEF SetsInv, Typed, ControlTyped
      <4>. QED
        BY <3>1, <3>3, <4>1 DEF SetsInv, Typed, UfTyped, Entry, MarkDead, LIVE, LOCK
    <3>. QED
      BY <1>5, <3>1, <3>2, <3>3, UFStepEntries DEF SetsInv
  <2>4. ASSUME NEW x \in Worker, NEW y \in Worker \ {x}, Holding(x)', Holding(y)'
        PROVE  loc'[x].unite.q # loc'[y].unite.q
    <3>1. Holding(x) /\ Holding(y) /\ loc'[x].unite.q = loc[x].unite.q /\ loc'[y].unite.q = loc[y].unite.q
      BY <2>2, <2>4
    <3>. QED
      BY <3>1 DEF SetsInv, OneHolder
  <2>. QED
    BY <2>2, <2>3, <2>4 DEF OneHolder
<1>6. CASE LockUf(w) /\ v.q = 0 /\ v.r = 0
  <2>1. CASE Lockable(u.q)
    <3>1. loc' = loc /\ uf' = [uf EXCEPT ![u.q].uf_status = LOCK] /\ pc[w] = "lock_uf"
      BY <1>6, <2>1 DEF LockUf
    <3>2. pc[w] \in RegionLabels
      BY <3>1 DEF RegionLabels
    <3>3. u.q < u.r
      BY <3>2 DEF SetsInv, Knows, UniteSets, Region
    <3>. QED
      BY <1>6, <3>1, <3>3
  <2>2. CASE ~Lockable(u.q)
    <3>1. UNCHANGED uf
      BY <1>6, <2>2 DEF LockUf
    <3>2. ~Holding(w)'
      BY <1>6 DEF Holding
    <3>. QED
      BY <1>1, <1>3, <3>1, <3>2 DEF SetsInv, OneHolder
  <2>. QED
    BY <2>1, <2>2
<1>7. \/ v.q = u.q /\ v.r = u.r /\ pc[w] \notin {"lock_uf", "lock_uf_undo", "unlock_uf"}
      \/ v.q = 0 /\ v.r = 0
      \/ UniteRoots(w) /\ pc'[w] = "lock_uf"
      \/ LockUf(w) /\ v.q = u.q /\ v.r = u.r /\ uf[u.q].uf_status = LIVE /\ uf'[u.q].uf_status = LOCK
           /\ \A s \in Slot \ {u.q} : uf'[s].uf_status = uf[s].uf_status
  BY UFStepRoles DEF SetsInv
<1>8. LockUf(w) => pc[w] = "lock_uf" /\ ~UniteRoots(w)
  BY DEF LockUf, UniteRoots
<1> HIDE DEF u, v
<1>. QED
  BY <1>4, <1>5, <1>6, <1>7, <1>8

-----------------------------------------------------------------------------
(* What find returns *)

\* The prefixes that find's path is cut back to.
LEMMA PathCut ==
  ASSUME NEW p \in Seq(Slot), NEW k \in Nat, k < Len(p)
  PROVE  /\ SubSeq(p, 1, k) \in Seq(Slot) /\ Len(SubSeq(p, 1, k)) = k
         /\ \A i \in 1 .. k : SubSeq(p, 1, k)[i] = p[i]
         /\ SubSeq(p, 1, k) # <<>> <=> k > 0
<1>1. \A i \in 1 .. k : p[i] \in Slot
  OBVIOUS
<1>2. /\ SubSeq(p, 1, k) \in Seq(Slot) /\ Len(SubSeq(p, 1, k)) = k
      /\ \A i \in 1 .. k : SubSeq(p, 1, k)[i] = p[i]
  BY <1>1, SubSeqProperties
<1>. QED
  BY <1>2, EmptySeq

\* A step of find goes on with the same search, or returns a slot of the set in
\* which it started: the representative that this set had when find read it.
LEMMA FindOutcome ==
  ASSUME NEW callers, SetsInv(callers), NEW w \in Worker, FindRead(w) \/ FindCompress(w),
         Typed(callers)', Upward'
  PROVE  /\ Root' = Root /\ loc' = loc
         /\ path[w][1] \in Slot
         /\ \/ /\ pc'[w] \in FindLabels /\ stack' = stack /\ path'[w][1] = path[w][1] /\ PathOne(w)'
               /\ pc[w] = "find" /\ pc'[w] = "compress" => ret'[w].node = Root[path[w][1]]
               /\ pc[w] = "compress" => pc'[w] = "compress" /\ ret'[w] = ret[w]
            \/ \E node \in Slot :
               /\ Return(w, "find", node)
               /\ Root[node] = Root[path[w][1]] /\ path[w][1] <= node
               /\ uf[path[w][1]].parent # 0 => path[w][1] < node
               /\ pc[w] = "find" => node = Root[path[w][1]]
               /\ pc[w] = "compress" => node = ret[w].node
<1> DEFINE p == path[w]
           len == Len(p)
<1>1. p \in Seq(Slot) /\ p # <<>> /\ pc[w] \in FindLabels /\ path \in [Worker -> Seq(Slot)]
      /\ pc \in [Worker -> Labels \cup callers] /\ ret \in [Worker -> [code : Codes, node : Slot]]
  BY DEF SetsInv, Typed, ControlTyped, FindRead, FindCompress, FindLabels
<1>2. len \in Nat /\ len > 0 /\ p[1] \in Slot /\ p[len] \in Slot /\ \A i \in 1 .. len : p[i] \in Slot
  BY <1>1, EmptySeq
<1>3. \A i \in 1 .. len : /\ Root[p[i]] = Root[p[1]]
                          /\ pc[w] = "compress" \/ i < len => uf[p[i]].parent # 0
  BY <1>1 DEF SetsInv, Knows, PathOne
<1>4. \A i, j \in 1 .. len : i < j => p[i] < p[j]
  BY DEF SetsInv, Upward, Ascending
<1>5. loc' = loc
  BY DEF FindRead, FindCompress
<1>6. CASE FindRead(w)
  <2>1. Root' = Root /\ uf' = uf /\ pc[w] = "find"
    BY <1>6, RootKept DEF SetsInv, Typed, FindRead
  <2>2. CASE uf[p[len]].parent # 0
    <3> DEFINE parent == uf[p[len]].parent
    <3>1. path' = [path EXCEPT ![w] = Append(p, parent)] /\ UNCHANGED control
      BY <1>6, <2>2 DEF FindRead
    <3>2. parent \in Slot /\ Root[p[len]] = Root[parent]
      BY <1>2, <2>2, RootFacts DEF SetsInv, Typed, Upward
    <3>3. /\ path'[w] = Append(p, parent) /\ Len(path'[w]) = len + 1
          /\ (\A i \in 1 .. len : path'[w][i] = p[i]) /\ path'[w][len+1] = parent
      BY <1>1, <3>1, <3>2, AppendProperties
    <3>4. path'[w][1] = p[1]
      BY <1>2, <3>3
    <3>5. ASSUME NEW i \in 1 .. len + 1
          PROVE  /\ Root[path'[w][i]] = Root[p[1]]
                 /\ i < len + 1 => uf[path'[w][i]].parent # 0
      <4>1. CASE i = len + 1
        BY <1>2, <1>3, <3>2, <3>3, <4>1
      <4>2. CASE i # len + 1
        <5>1. i \in 1 .. len
          BY <1>2, <4>2
        <5>. QED
          BY <1>2, <1>3, <2>2, <3>3, <5>1
      <4>. QED
        BY <4>1, <4>2
    <3> HIDE DEF len, p, parent
    <3>6. PathOne(w)'
      BY <2>1, <3>1, <3>3, <3>4, <3>5 DEF PathOne, control
    <3>. QED
      BY <1>1, <1>2, <1>5, <2>1, <3>1, <3>4, <3>6 DEF control, p
  <2>3. CASE uf[p[len]].parent = 0
    <3> DEFINE rest == ToCompress(p)
    <3>1. path' = [path EXCEPT ![w] = rest]
      BY <1>6, <2>3 DEF FindRead
    <3>2. Root[p[len]] = p[len] /\ Root[p[1]] = p[len]
      BY <1>2, <1>3, <2>3, RootFacts DEF SetsInv, Typed, Upward
    <3>3. p[1] <= p[len] /\ (uf[p[1]].parent # 0 => p[1] < p[len])
      <4>1. p[1] \in Int /\ p[len] \in Int
        BY <1>2, SlotZero
      <4>2. CASE len = 1
        BY <2>3, <4>1, <4>2
      <4>3. CASE len # 1
        <5>0. 1 \in 1 .. len /\ len \in 1 .. len /\ 1 < len
          <6>1. len \in Nat /\ len > 0 /\ len # 1
            BY <1>2, <4>3
          <6> HIDE DEF len
          <6>. QED
            BY <6>1
        <5>1. p[1] < p[len]
          BY <1>4, <5>0
        <5>. QED
          BY <4>1, <5>1
      <4>. QED
        BY <4>2, <4>3
    <3>4. CASE rest = <<>>
      <4>1. Return(w, "find", p[len])
        BY <1>6, <2>3, <3>4 DEF FindRead
      <4>. QED
        BY <1>2, <1>5, <2>1, <3>2, <3>3, <4>1
    <3>5. CASE rest # <<>>
      <4>1. /\ pc' = [pc EXCEPT ![w] = "compress"] /\ UNCHANGED stack
            /\ ret' = [ret EXCEPT ![w] = [code |-> "find", node |-> p[len]]]
        BY <1>6, <2>3, <3>5 DEF FindRead
      <4>2. len > 2
        <5>1. len - 2 < 1 => SubSeq(p, 1, len - 2) = <<>>
          BY <1>2, SubSeqEmpty
        <5>. QED
          BY <1>2, <3>5, <5>1 DEF ToCompress
      <4>3. Len(rest) = len - 2 /\ \A i \in 1 .. len - 2 : rest[i] = p[i]
        <5>1. len - 2 \in Nat /\ len - 2 < len
          BY <1>2, <4>2
        <5>. QED
          BY <1>1, <5>1, PathCut DEF ToCompress
      <4>4. path'[w] = rest /\ pc'[w] = "compress" /\ ret'[w].node = p[len]
        BY <1>1, <3>1, <4>1
      <4>5. path'[w][1] = p[1]
        BY <1>2, <4>2, <4>3, <4>4
      <4>6. ASSUME NEW i \in 1 .. len - 2
            PROVE  Root[path'[w][i]] = Root[p[1]] /\ uf[path'[w][i]].parent # 0
        <5>1. i \in 1 .. len /\ i < len
          BY <1>2
        <5>. QED
          BY <1>3, <4>3, <4>4, <5>1
      <4> HIDE DEF rest
      <4>7. PathOne(w)'
        BY <2>1, <3>2, <4>3, <4>4, <4>5, <4>6 DEF PathOne
      <4>. QED
        BY <1>2, <1>5, <2>1, <3>2, <4>1, <4>4, <4>5, <4>7 DEF FindLabels
    <3>. QED
      BY <3>4, <3>5
  <2>. QED
    BY <2>2, <2>3
<1>7. CASE FindCompress(w)
  <2>1. Root' = Root /\ (\A s \in Slot : uf[s].parent = 0 <=> uf'[s].parent = 0)
    BY <1>7, CompressKept DEF SetsInv, Knows
  <2>2. pc[w] = "compress" /\ path' = [path EXCEPT ![w] = SubSeq(p, 1, len - 1)]
    BY <1>7 DEF FindCompress
  <2>3. Root[ret[w].node] = Root[p[1]] /\ ret[w].node \in Slot
    BY <1>1, <2>2 DEF SetsInv, Knows, PathOne
  <2>4. p[1] < ret[w].node
    BY <1>2, <2>2 DEF SetsInv, Upward
  <2>5. CASE len > 1
    <3>1. UNCHANGED control
      BY <1>7, <2>5 DEF FindCompress
    <3>2. Len(path'[w]) = len - 1 /\ \A i \in 1 .. len - 1 : path'[w][i] = p[i]
      <4>1. len - 1 \in Nat /\ len - 1 < len
        BY <1>2, <2>5
      <4>. QED
        BY <1>1, <2>2, <4>1, PathCut
    <3>3. path'[w][1] = p[1]
      BY <1>2, <2>5, <3>2
    <3>4. ASSUME NEW i \in 1 .. len - 1
          PROVE  Root[path'[w][i]] = Root[p[1]] /\ uf'[path'[w][i]].parent # 0
      <4>1. i \in 1 .. len
        BY <1>2
      <4>. QED
        BY <1>2, <1>3, <2>1, <2>2, <3>2, <4>1
    <3> HIDE DEF p, len
    <3>5. PathOne(w)'
      BY <2>1, <2>3, <3>1, <3>2, <3>3, <3>4 DEF PathOne, control
    <3>. QED
      BY <1>1, <1>2, <1>5, <2>1, <2>2, <3>1, <3>3, <3>5 DEF control, p
  <2>6. CASE ~(len > 1)
    <3>1. Return(w, "find", ret[w].node)
      BY <1>7, <2>6 DEF FindCompress
    <3>2. p[1] <= ret[w].node
      <4>1. p[1] \in Int /\ ret[w].node \in Int
        BY <1>2, <2>3, SlotZero
      <4>. QED
        BY <2>4, <4>1
    <3>. QED
      BY <1>2, <1>5, <2>1, <2>2, <2>3, <2>4, <3>1, <3>2
  <2>. QED
    BY <2>5, <2>6
<1>. QED
  BY <1>6, <1>7

-----------------------------------------------------------------------------
(* What a worker knows after a step of its own *)

Busy(w) == \/ Region(w) \/ pc[w] \in {"unite_a", "unite_b"}
           \/ Awaits(w, "unite_a") \/ Awaits(w, "unite_b")

\* Outside unite there is nothing to know of it.
LEMMA IdleSets ==
  ASSUME NEW w \in Worker, ~Busy(w)
  PROVE  QRoot(w) /\ UniteSets(w)
<1>1. ~Linking(w) /\ ~Joined(w)
  BY DEF Busy, Region, Linking, Joined, LinkLabels, JoinedLabels, RegionLabels
<1>. QED
  BY <1>1 DEF Busy, QRoot, UniteSets

\* The same after a step.
LEMMA IdleSetsNext ==
  ASSUME NEW w \in Worker, ~Busy(w)'
  PROVE  (QRoot(w) /\ UniteSets(w))'
<1>1. ~Linking(w)' /\ ~Joined(w)'
  BY DEF Busy, Region, Linking, Joined, LinkLabels, JoinedLabels, RegionLabels
<1>. QED
  BY <1>1 DEF Busy, QRoot, UniteSets

\* Inside it what is known stays known while its roles do.
LEMMA BusySets ==
  ASSUME NEW callers, SetsInv(callers), NEW w \in Worker, Coarser,
         loc'[w].unite.a = loc[w].unite.a, loc'[w].unite.b = loc[w].unite.b,
         loc'[w].unite.q = loc[w].unite.q, loc'[w].unite.r = loc[w].unite.r,
         Region(w)' => Region(w), Joined(w)' => Joined(w), Linking(w)' => Linking(w),
         pc'[w] \notin {"unite_a", "unite_b"}, ~Awaits(w, "unite_a")', ~Awaits(w, "unite_b")',
         Linking(w) => uf'[loc[w].unite.q].parent = uf[loc[w].unite.q].parent
  PROVE  (QRoot(w) /\ UniteSets(w))'
<1>1. /\ loc[w].unite.a \in Slot /\ loc[w].unite.b \in Slot
      /\ loc[w].unite.q \in Slot /\ loc[w].unite.r \in Slot
  BY LocalsTyped DEF SetsInv, Typed
<1>2. QRoot(w) /\ UniteSets(w)
  BY DEF SetsInv, Knows
<1>. QED
  BY <1>1, <1>2 DEF QRoot, UniteSets, Coarser

\* A path of one state, just started, is in one set; outside find there is none.
LEMMA PathStarts ==
  ASSUME NEW w \in Worker,
         pc'[w] \notin FindLabels \/ (pc'[w] = "find" /\ \E s \in Slot : path'[w] = <<s>>)
  PROVE  PathOne(w)'
<1>1. CASE pc'[w] \notin FindLabels
  BY <1>1 DEF PathOne
<1>2. ASSUME NEW s \in Slot, pc'[w] = "find", path'[w] = <<s>>
      PROVE  PathOne(w)'
  <2>1. Len(path'[w]) = 1
    BY <1>2
  <2>2. \A i \in 1 .. Len(path'[w]) : i = 1 /\ ~(i < Len(path'[w]))
    BY <2>1
  <2>. QED
    BY <1>2, <2>2 DEF PathOne
<1>. QED
  BY <1>1, <1>2

\* A call of find, by the functions that run alone.
LEMMA FindCalled ==
  ASSUME NEW callers, Typed(callers), Outside(callers), NEW w \in Worker, InCall(w, callers),
         pc[w] \in Labels \ (FindLabels \cup PickLabels), NEW s \in Slot, NEW b, CallFind(w, s, <<b>>)
  PROVE  /\ pc'[w] = "find" /\ path'[w] = <<s>> /\ path'[w][1] = s /\ PathOne(w)'
         /\ \A l : Awaits(w, l)' <=> l = b
<1>1. Call(w, "find", <<b>>) /\ path' = [path EXCEPT ![w] = <<s>>]
  BY DEF CallFind
<1>2. path'[w] = <<s>>
  BY <1>1 DEF Typed, ControlTyped
<1>3. pc'[w] = "find" /\ \A l : Awaits(w, l)' <=> l = b
  BY <1>1, AwaitsPush
<1>4. PathOne(w)'
  BY <1>2, <1>3, PathStarts
<1>5. path'[w][1] = s
  BY <1>2
<1>. QED
  BY <1>2, <1>3, <1>4, <1>5

\* A move inside such a function.
LEMMA Moved ==
  ASSUME NEW callers, Typed(callers), Outside(callers), NEW w \in Worker, InCall(w, callers),
         pc[w] \in Labels \ (FindLabels \cup PickLabels), NEW label \in Labels \ FindLabels,
         Goto(w, label) \/ Resume(w, label)
  PROVE  pc'[w] = label /\ PathOne(w)' /\ \A l : ~Awaits(w, l)'
<1>1. pc'[w] = label /\ UNCHANGED stack
  BY DEF Typed, ControlTyped, Goto, Resume
<1>2. \A l : ~Awaits(w, l)
  BY AwaitsNone
<1>. QED
  BY <1>1, <1>2, PathStarts DEF Awaits

\* A return from one of them.
LEMMA Returned ==
  ASSUME NEW callers, Typed(callers), Outside(callers), NEW w \in Worker, InCall(w, callers),
         pc[w] \in Labels \ (FindLabels \cup PickLabels), NEW code, NEW node, Return(w, code, node)
  PROVE  pc'[w] \in callers /\ PathOne(w)' /\ (\A l : ~Awaits(w, l)') /\ ~Busy(w)'
<1>1. pc'[w] \in callers /\ \A l : ~Awaits(w, l)'
  BY AwaitsReturn
<1>2. pc'[w] \notin FindLabels /\ pc'[w] \notin RegionLabels /\ pc'[w] \notin {"unite_a", "unite_b"}
  BY <1>1 DEF Outside, FindLabels, RegionLabels, Labels
<1>. QED
  BY <1>1, <1>2, PathStarts DEF Busy, Region

\* make_claim, sameset and remove_from_list have nothing to do with unite.
LEMMA OwnIdle ==
  ASSUME NEW callers, SetsInv(callers), NEW w \in Worker,
         \/ ClaimDead(w) \/ ClaimFound(w) \/ ClaimOr(w) \/ ClaimCheck(w)
         \/ SameB(w) \/ SameA(w) \/ SameRetry(w) \/ Remove(w) \/ RemoveColor(w)
  PROVE  (PathOne(w) /\ QRoot(w) /\ UniteSets(w))'
<1> DEFINE Done == PathOne(w)' /\ ~Busy(w)'
<1>1. Typed(callers) /\ Outside(callers) /\ InCall(w, callers)
  BY DEF SetsInv, Knows
<1>2. pc[w] \in Labels \ (FindLabels \cup PickLabels)
  BY DEF ClaimDead, ClaimFound, ClaimOr, ClaimCheck, SameB, SameA, SameRetry, Remove, RemoveColor,
         Labels, FindLabels, PickLabels
<1>3. ret[w].node \in Slot /\ loc[w].same.a \in Slot /\ loc[w].same.b \in Slot
  BY <1>1, LocalsTyped DEF Typed, ControlTyped
<1>4. \A code, node : Return(w, code, node) => Done
  BY <1>1, <1>2, Returned
<1>5. \A label \in {"claim_found", "claim_or", "claim_check", "same_a", "remove_color"} :
        Goto(w, label) \/ Resume(w, label) => Done
  <2> TAKE label \in {"claim_found", "claim_or", "claim_check", "same_a", "remove_color"}
  <2>1. label \in Labels \ FindLabels /\ label \notin RegionLabels /\ label \notin {"unite_a", "unite_b"}
    BY DEF Labels, FindLabels, RegionLabels
  <2>. QED
    BY <1>1, <1>2, <2>1, Moved DEF Busy, Region
<1>6. \A s \in Slot, b \in {"claim_again", "same_b", "same_retry"} : CallFind(w, s, <<b>>) => Done
  <2> TAKE s \in Slot, b \in {"claim_again", "same_b", "same_retry"}
  <2>1. "find" \notin RegionLabels /\ b \notin ListLabels \cup {"found_r", "unite_a", "unite_b"}
    BY DEF RegionLabels, ListLabels
  <2>. QED
    BY <1>1, <1>2, <2>1, FindCalled DEF Busy, Region
<1>7. Done
  <2> HIDE DEF Done
  <2>1. CASE ClaimDead(w) \/ ClaimFound(w) \/ ClaimOr(w) \/ ClaimCheck(w)
    BY <1>3, <1>4, <1>5, <1>6, <2>1 DEF ClaimDead, ClaimFound, ClaimOr, ClaimCheck
  <2>2. CASE SameB(w) \/ SameA(w) \/ SameRetry(w)
    BY <1>3, <1>4, <1>5, <1>6, <2>2 DEF SameB, SameA, SameRetry, SameReturn
  <2>3. CASE Remove(w) \/ RemoveColor(w)
    BY <1>4, <1>5, <2>3 DEF Remove, RemoveColor, PickReturn
  <2>. QED
    BY <2>1, <2>2, <2>3
<1>. QED
  BY <1>7, IdleSetsNext

\* pick_from_list returns to unite what unite already knows.
LEMMA OwnPick ==
  ASSUME NEW callers, SetsInv(callers), NEW w \in Worker, Coarser, Typed(callers)', Upward',
         \/ PickA(w) \/ PickNext(w) \/ PickB(w) \/ PickC(w) \/ PickCompare(w) \/ PickWrite(w) \/ MarkDead(w)
  PROVE  (PathOne(w) /\ QRoot(w) /\ UniteSets(w))'
<1>1. Typed(callers) /\ Outside(callers) /\ InCall(w, callers)
  BY DEF SetsInv, Knows
<1>2. pc[w] \in PickLabels /\ pc[w] \in Labels
  BY DEF PickA, PickNext, PickB, PickC, PickCompare, PickWrite, MarkDead, Labels, PickLabels
<1>3. pc[w] \notin RegionLabels \cup LinkLabels \cup JoinedLabels \cup FindLabels \cup {"unite_a", "unite_b"}
  BY <1>2 DEF RegionLabels, LinkLabels, JoinedLabels, FindLabels, PickLabels
<1>4. \A b \in FindBacks : ~Awaits(w, b)
  BY <1>1, <1>3, AwaitsWhere
<1>5. {"unite_a", "unite_b", "found_r"} \subseteq FindBacks /\ "mark_dead" \notin FindBacks \cup ListLabels
  BY DEF FindBacks, ListLabels
<1>6. loc'[w].unite = loc[w].unite /\ \A s \in Slot : uf'[s].parent = uf[s].parent
  <2>1. loc'[w].unite = loc[w].unite
    BY <1>1 DEF Typed, LocTyped, Locals, PickA, PickNext, PickB, PickC, PickCompare, PickWrite, MarkDead,
       PickReturn, ContinueFromC
  <2>2. ~FindCompress(w) /\ ~SetParent(w)
    BY <1>2 DEF FindCompress, SetParent, PickLabels
  <2>. QED
    BY <1>1, <2>1, <2>2, UFStepEntries DEF UFStep
<1>7. \/ pc'[w] \in PickLabels /\ UNCHANGED stack
      \/ \E code, node : Return(w, code, node)
      \/ CallFind(w, loc[w].pick.a, <<"mark_dead">>)
  <2>1. \A label \in PickLabels : Goto(w, label) => pc'[w] \in PickLabels /\ UNCHANGED stack
    BY <1>1 DEF Typed, ControlTyped, Goto
  <2>2. {"pick_a", "pick_next", "pick_b", "pick_c", "pick_compare", "pick_write"} \subseteq PickLabels
    BY DEF PickLabels
  <2>. QED
    BY <2>1, <2>2 DEF PickA, PickNext, PickB, PickC, PickCompare, PickWrite, MarkDead,
       PickReturn, ContinueFromC
<1>8. CASE pc'[w] \in PickLabels /\ UNCHANGED stack
  <2>1. pc'[w] \notin RegionLabels \cup LinkLabels \cup JoinedLabels \cup FindLabels \cup {"unite_a", "unite_b"}
    BY <1>8 DEF RegionLabels, LinkLabels, JoinedLabels, FindLabels, PickLabels
  <2>2. \A l : Awaits(w, l)' <=> Awaits(w, l)
    BY <1>8 DEF Awaits
  <2>3. (Region(w)' => Region(w)) /\ (Linking(w)' => Linking(w)) /\ (Joined(w)' => Joined(w))
    BY <2>1, <2>2 DEF Region, Linking, Joined
  <2>4. PathOne(w)'
    BY <2>1, PathStarts
  <2>5. loc[w].unite.q \in Slot
    BY <1>1, LocalsTyped DEF Typed
  <2>. QED
    BY <1>4, <1>5, <1>6, <2>1, <2>2, <2>3, <2>4, <2>5, BusySets
<1>9. CASE CallFind(w, loc[w].pick.a, <<"mark_dead">>)
  <2>1. Call(w, "find", <<"mark_dead">>) /\ path'[w] = <<loc[w].pick.a>> /\ loc[w].pick.a \in Slot
    BY <1>1, <1>9, LocalsTyped DEF Typed, ControlTyped, CallFind
  <2>2. pc'[w] = "find" /\ \A l : Awaits(w, l)' <=> Awaits(w, l) \/ (l = "mark_dead" /\ \A k : ~Awaits(w, k))
    BY <1>1, <1>2, <2>1, AwaitsMark
  <2>3. \A l \in ListLabels \cup FindBacks : Awaits(w, l)' <=> Awaits(w, l)
    BY <1>5, <2>2
  <2>4. "find" \notin RegionLabels \cup LinkLabels \cup JoinedLabels
    BY DEF RegionLabels, LinkLabels, JoinedLabels
  <2>5. (Region(w)' => Region(w)) /\ (Linking(w)' => Linking(w)) /\ (Joined(w)' => Joined(w))
    BY <1>5, <2>2, <2>3, <2>4 DEF Region, Linking, Joined
  <2>6. PathOne(w)'
    BY <2>1, <2>2, PathStarts
  <2>7. loc[w].unite.q \in Slot
    BY <1>1, LocalsTyped DEF Typed
  <2>8. ~Awaits(w, "unite_a")' /\ ~Awaits(w, "unite_b")'
    BY <1>4, <1>5, <2>3
  <2>. QED
    BY <1>6, <2>2, <2>5, <2>6, <2>7, <2>8, BusySets
<1>10. ASSUME NEW code, NEW node, Return(w, code, node)
       PROVE  (PathOne(w) /\ QRoot(w) /\ UniteSets(w))'
  <2>1. \/ pc'[w] \in callers /\ (\A l : ~Awaits(w, l)')
        \/ pc'[w] \in ListLabels /\ Awaits(w, pc'[w]) /\ \A l : ~Awaits(w, l)'
    BY <1>1, <1>2, <1>3, <1>10, AwaitsReturn
  <2>2. CASE pc'[w] \in callers /\ (\A l : ~Awaits(w, l)')
    <3>1. pc'[w] \notin RegionLabels \cup FindLabels \cup {"unite_a", "unite_b"}
      BY <1>1, <2>2 DEF Outside, RegionLabels, FindLabels, Labels
    <3>2. ~Busy(w)' /\ PathOne(w)'
      BY <2>2, <3>1, PathStarts DEF Busy, Region
    <3>. QED
      BY <3>2, IdleSetsNext
  <2>3. CASE pc'[w] \in ListLabels /\ Awaits(w, pc'[w]) /\ \A l : ~Awaits(w, l)'
    <3>1. Region(w) /\ Linking(w)
      BY <2>3 DEF Region, Linking
    <3>2. pc'[w] \notin FindLabels \cup JoinedLabels \cup {"unite_a", "unite_b"}
      BY <2>3 DEF ListLabels, FindLabels, JoinedLabels
    <3>3. ~Joined(w)' /\ PathOne(w)'
      BY <2>3, <3>2, PathStarts DEF Joined
    <3>4. loc[w].unite.q \in Slot
      BY <1>1, LocalsTyped DEF Typed
    <3>. QED
      BY <1>6, <2>3, <3>1, <3>2, <3>3, <3>4, BusySets
  <2>. QED
    BY <2>1, <2>2, <2>3
<1>. QED
  BY <1>7, <1>8, <1>9, <1>10

\* find returns to unite a state of the set it was asked for.
LEMMA OwnFind ==
  ASSUME NEW callers, SetsInv(callers), NEW w \in Worker, Coarser, Typed(callers)', Upward',
         FindRead(w) \/ FindCompress(w)
  PROVE  (PathOne(w) /\ QRoot(w) /\ UniteSets(w))'
<1>1. Typed(callers) /\ Outside(callers) /\ InCall(w, callers) /\ UniteSets(w) /\ QRoot(w)
  BY DEF SetsInv, Knows
<1>2. pc[w] \in FindLabels /\ pc[w] \in Labels
  BY DEF FindRead, FindCompress, FindLabels, Labels
<1>3. pc[w] \notin RegionLabels \cup LinkLabels \cup JoinedLabels \cup {"unite_a", "unite_b"} \cup PickLabels
  BY <1>2 DEF RegionLabels, LinkLabels, JoinedLabels, FindLabels, PickLabels
<1>4. Root' = Root /\ loc' = loc /\ path[w][1] \in Slot
  BY FindOutcome
<1>5. /\ loc[w].unite.a \in Slot /\ loc[w].unite.b \in Slot /\ loc[w].unite.q \in Slot
      /\ loc[w].unite.r \in Slot /\ loc[w].unite.ar \in Slot
  BY <1>1, LocalsTyped DEF Typed
<1>6. uf[loc[w].unite.q].parent = 0 => uf'[loc[w].unite.q].parent = 0
  <2>1. UFStep(w) /\ pc[w] # "set_parent"
    BY <1>3 DEF UFStep, LinkLabels
  <2>. QED
    BY <1>5, <2>1, ParentsStay
<1>7. CASE /\ pc'[w] \in FindLabels /\ stack' = stack /\ path'[w][1] = path[w][1] /\ PathOne(w)'
  <2>1. \A l : Awaits(w, l)' <=> Awaits(w, l)
    BY <1>7 DEF Awaits
  <2>2. pc'[w] \notin RegionLabels \cup LinkLabels \cup JoinedLabels \cup {"unite_a", "unite_b"}
    BY <1>7 DEF RegionLabels, LinkLabels, JoinedLabels, FindLabels
  <2>3. (Region(w)' => Region(w)) /\ (Linking(w)' => Linking(w)) /\ (Joined(w)' => Joined(w))
    BY <2>1, <2>2 DEF Region, Linking, Joined
  <2>4. UniteSets(w)' /\ QRoot(w)'
    BY <1>1, <1>4, <1>6, <1>7, <2>1, <2>2, <2>3 DEF UniteSets, QRoot
  <2>. QED
    BY <1>7, <2>4
<1>8. ASSUME NEW node \in Slot, Return(w, "find", node), Root[node] = Root[path[w][1]]
      PROVE  (PathOne(w) /\ QRoot(w) /\ UniteSets(w))'
  <2>1. /\ ret'[w].node = node
        /\ \/ pc'[w] \in callers /\ \A l : ~Awaits(w, l)'
           \/ pc'[w] = "mark_dead"
                 /\ \/ \A l : Awaits(w, l)' <=> Awaits(w, l)
                    \/ \A l : ~Awaits(w, l)'
           \/ pc'[w] \in FindBacks /\ Awaits(w, pc'[w]) /\ \A l : ~Awaits(w, l)'
    <3> DEFINE code == "find"
    <3>1. Return(w, code, node)
      BY <1>8
    <3> HIDE DEF code
    <3>2. ret'[w] = [code |-> code, node |-> node]
      BY <1>1, <1>2, <3>1, AwaitsReturn
    <3>3. \/ pc'[w] \in callers /\ \A l : ~Awaits(w, l)'
          \/ pc'[w] = "mark_dead"
                 /\ \/ \A l : Awaits(w, l)' <=> Awaits(w, l)
                    \/ \A l : ~Awaits(w, l)'
          \/ pc'[w] \in FindBacks /\ Awaits(w, pc'[w]) /\ \A l : ~Awaits(w, l)'
      BY <1>1, <1>2, <1>3, <3>1, AwaitsReturn
    <3>. QED
      BY <3>2, <3>3
  <2>2. pc'[w] \notin FindLabels
    BY <1>1, <2>1, LabelSets DEF Outside, PickLabels
  <2>3. PathOne(w)'
    BY <2>2, PathStarts
  <2>4. CASE pc'[w] \in callers /\ \A l : ~Awaits(w, l)'
    <3>1. pc'[w] \notin RegionLabels \cup {"unite_a", "unite_b"}
      BY <1>1, <2>4 DEF Outside, RegionLabels, Labels
    <3>2. ~Busy(w)'
      BY <2>4, <3>1 DEF Busy, Region
    <3>. QED
      BY <2>3, <3>2, IdleSetsNext
  <2>5. CASE pc'[w] = "mark_dead" /\ \A l : Awaits(w, l)' => Awaits(w, l)
    <3>1. pc'[w] \notin RegionLabels \cup LinkLabels \cup JoinedLabels \cup {"unite_a", "unite_b"}
      BY <2>5 DEF RegionLabels, LinkLabels, JoinedLabels
    <3>2. \A b \in FindBacks : ~Awaits(w, b)'
      <4>1. InCall(w, callers)'
        BY <1>1, UFStepInCall DEF UFStep
      <4>2. ASSUME NEW b \in FindBacks, Awaits(w, b)' PROVE FALSE
        <5>1. pc'[w] \in FindLabels
          <6>1. ASSUME NEW c, NEW d, stack'[w] = <<>> \/ stack'[w] = <<c>>
                PROVE  FALSE
            BY <4>2, <6>1 DEF Awaits
          <6>2. ASSUME NEW c, NEW l \in ListLabels, stack'[w] = <<c, l>>
                PROVE  FALSE
            BY <4>2, <6>2, LabelSets DEF Awaits
          <6>. QED
            BY <4>1, <6>1, <6>2 DEF InCall
        <5>. QED
          BY <2>2, <5>1
      <4>. QED
        BY <4>2
    <3>3. {"unite_a", "unite_b", "found_r"} \subseteq FindBacks
      BY DEF FindBacks
    <3>4. (Region(w)' => Region(w)) /\ (Linking(w)' => Linking(w)) /\ ~Joined(w)'
      BY <2>5, <3>1, <3>2, <3>3 DEF Region, Linking, Joined
    <3>5. UniteSets(w)' /\ QRoot(w)'
      BY <1>1, <1>4, <1>6, <3>1, <3>2, <3>3, <3>4 DEF UniteSets, QRoot
    <3>. QED
      BY <2>3, <3>5
  <2>6. CASE pc'[w] \in FindBacks /\ Awaits(w, pc'[w]) /\ \A l : ~Awaits(w, l)'
    <3>1. pc'[w] \notin LinkLabels /\ (pc'[w] \in RegionLabels \cup JoinedLabels => pc'[w] = "found_r")
      BY <2>6 DEF FindBacks, LinkLabels, RegionLabels, JoinedLabels
    <3>2. ~Linking(w)' /\ (Region(w)' => Region(w)) /\ (Joined(w)' => Joined(w))
      BY <2>6, <3>1 DEF Region, Linking, Joined
    <3>3. UniteSets(w)' /\ QRoot(w)'
      BY <1>1, <1>4, <1>8, <2>1, <2>6, <3>2 DEF UniteSets, QRoot
    <3>. QED
      BY <2>3, <3>3
  <2>. QED
    BY <2>1, <2>4, <2>5, <2>6
<1>. QED
  BY <1>7, <1>8, FindOutcome

\* unite starts over: it forgets its roles and looks up a again.
LEMMA UniteRetried ==
  ASSUME NEW callers, SetsInv(callers), NEW w \in Worker, UniteRetry(w),
         pc[w] \in Labels \ (FindLabels \cup PickLabels)
  PROVE  (PathOne(w) /\ QRoot(w) /\ UniteSets(w))'
<1>1. Typed(callers) /\ Outside(callers) /\ InCall(w, callers) /\ loc[w].unite.a \in Slot
  BY LocalsTyped DEF SetsInv, Knows, Typed
<1>2. CallFind(w, loc[w].unite.a, <<"unite_a">>)
  BY DEF UniteRetry
<1>3. /\ pc'[w] = "find" /\ path'[w][1] = loc[w].unite.a /\ PathOne(w)'
      /\ \A l : Awaits(w, l)' <=> l = "unite_a"
  BY <1>1, <1>2, FindCalled
<1>4. loc'[w].unite.a = loc[w].unite.a
  BY <1>1, LocalsTyped DEF UniteRetry, Typed, LocTyped, Locals, Unites
<1>5. ~Region(w)' /\ ~Linking(w)' /\ ~Joined(w)' /\ ~Awaits(w, "unite_b")' /\ pc'[w] \notin {"unite_a", "unite_b"}
  BY <1>3 DEF Region, Linking, Joined, RegionLabels, LinkLabels, JoinedLabels, ListLabels
<1>. QED
  BY <1>3, <1>4, <1>5 DEF QRoot, UniteSets

\* A move of unite that keeps its roles and does not link.
LEMMA UniteMoved ==
  ASSUME NEW callers, SetsInv(callers), NEW w \in Worker, Coarser, PathOne(w)',
         loc'[w].unite.a = loc[w].unite.a, loc'[w].unite.b = loc[w].unite.b,
         loc'[w].unite.q = loc[w].unite.q, loc'[w].unite.r = loc[w].unite.r,
         Region(w), Joined(w)' => Joined(w),
         Linking(w)' => uf'[loc[w].unite.q].parent = 0,
         pc'[w] \notin {"unite_a", "unite_b"}, ~Awaits(w, "unite_a")', ~Awaits(w, "unite_b")'
  PROVE  (PathOne(w) /\ QRoot(w) /\ UniteSets(w))'
<1>1. /\ loc[w].unite.a \in Slot /\ loc[w].unite.b \in Slot
      /\ loc[w].unite.q \in Slot /\ loc[w].unite.r \in Slot
  BY LocalsTyped DEF SetsInv, Typed
<1>2. QRoot(w) /\ UniteSets(w)
  BY DEF SetsInv, Knows
<1>. QED
  BY <1>1, <1>2 DEF QRoot, UniteSets, Coarser

\* The lower of two representatives becomes q, the other r.
LEMMA RolesChosen ==
  ASSUME NEW u \in Unites, NEW x \in Slot, NEW y \in Slot, x # y
  PROVE  LET v == Roles(u, x, y)
         IN  /\ v.a = u.a /\ v.b = u.b /\ v.q < v.r
             /\ (v.q = x /\ v.r = y) \/ (v.q = y /\ v.r = x)
<1>1. x \in Int /\ y \in Int
  BY SlotZero
<1>2. CASE x < y
  BY <1>1, <1>2 DEF Roles, Unites
<1>3. CASE ~(x < y)
  <2>1. y < x
    BY <1>1, <1>3
  <2>. QED
    BY <1>3, <2>1 DEF Roles, Unites
<1>. QED
  BY <1>2, <1>3

\* The steps of unite up to the choice of q and r keep what the worker knows.
LEMMA OwnChoose ==
  ASSUME NEW callers, SetsInv(callers), NEW w \in Worker, UniteFindB(w) \/ UniteRoots(w)
  PROVE  (PathOne(w) /\ QRoot(w) /\ UniteSets(w))'
<1>1. Typed(callers) /\ Outside(callers) /\ InCall(w, callers) /\ UniteSets(w) /\ loc \in [Worker -> Locals]
  BY DEF SetsInv, Knows, Typed, LocTyped
<1>2. /\ loc[w].unite \in Unites /\ ret[w].node \in Slot
      /\ loc[w].unite.a \in Slot /\ loc[w].unite.b \in Slot /\ loc[w].unite.ar \in Slot
  BY <1>1, LocalsTyped DEF Typed, ControlTyped
<1>3. pc[w] \in Labels \ (FindLabels \cup PickLabels)
  BY DEF UniteFindB, UniteRoots, Labels, FindLabels, PickLabels
<1>4. Root' = Root
  <2>1. UNCHANGED <<uf, G_Color>>
    BY DEF UniteFindB, UniteRoots
  <2>2. UfTyped /\ UfTyped'
    BY <1>1, <2>1 DEF Typed, UfTyped
  <2>3. \A s \in Slot : uf'[s].parent = uf[s].parent
    BY <2>1
  <2>. QED
    BY <2>2, <2>3, RootKept
<1>5. CASE UniteFindB(w)
  <2>1. CallFind(w, loc[w].unite.b, <<"unite_b">>)
    BY <1>5 DEF UniteFindB
  <2>2. /\ pc'[w] = "find" /\ path'[w][1] = loc[w].unite.b /\ PathOne(w)'
        /\ \A l : Awaits(w, l)' <=> l = "unite_b"
    BY <1>1, <1>2, <1>3, <2>1, FindCalled
  <2>3. loc'[w].unite = [loc[w].unite EXCEPT !.ar = ret[w].node]
    BY <1>1, <1>5 DEF UniteFindB, Locals
  <2>4. /\ loc'[w].unite.a = loc[w].unite.a /\ loc'[w].unite.b = loc[w].unite.b
        /\ loc'[w].unite.ar = ret[w].node
    BY <1>2, <2>3 DEF Unites
  <2>5. ~Region(w)' /\ ~Linking(w)' /\ ~Joined(w)' /\ ~Awaits(w, "unite_a")' /\ pc'[w] \notin {"unite_a", "unite_b"}
    BY <2>2 DEF Region, Linking, Joined, RegionLabels, LinkLabels, JoinedLabels, ListLabels
  <2>6. Root[ret[w].node] = Root[loc[w].unite.a]
    BY <1>1, <1>5 DEF UniteSets, UniteFindB
  <2>. QED
    BY <1>4, <2>2, <2>4, <2>5, <2>6 DEF QRoot, UniteSets
<1>6. CASE UniteRoots(w)
  <2>1. CASE UniteReturn(w)
    <3>1. PathOne(w)' /\ ~Busy(w)'
      BY <1>1, <1>3, <2>1, Returned DEF UniteReturn
    <3>. QED
      BY <3>1, IdleSetsNext
  <2>2. CASE /\ loc[w].unite.ar # ret[w].node
             /\ loc' = [loc EXCEPT ![w].unite = Roles(@, loc[w].unite.ar, ret[w].node)]
             /\ Resume(w, "lock_uf")
    <3>1. "lock_uf" \in Labels \ FindLabels
      BY DEF Labels, FindLabels
    <3>2. pc'[w] = "lock_uf" /\ PathOne(w)' /\ \A l : ~Awaits(w, l)'
      BY <1>1, <1>3, <2>2, <3>1, Moved
    <3>3. loc'[w].unite = Roles(loc[w].unite, loc[w].unite.ar, ret[w].node)
      BY <1>1, <2>2 DEF Locals
    <3>4. /\ loc'[w].unite.a = loc[w].unite.a /\ loc'[w].unite.b = loc[w].unite.b
          /\ \/ loc'[w].unite.q = loc[w].unite.ar /\ loc'[w].unite.r = ret[w].node
             \/ loc'[w].unite.q = ret[w].node /\ loc'[w].unite.r = loc[w].unite.ar
          /\ loc'[w].unite.q < loc'[w].unite.r
      BY <1>2, <2>2, <3>3, RolesChosen
    <3>5. Root[ret[w].node] = Root[loc[w].unite.b] /\ Root[loc[w].unite.ar] = Root[loc[w].unite.a]
      BY <1>1, <1>6 DEF UniteSets, UniteRoots
    <3>6. ~Linking(w)' /\ ~Joined(w)'
      BY <3>2 DEF Linking, Joined, LinkLabels, JoinedLabels
    <3>. QED
      BY <1>4, <3>2, <3>4, <3>5, <3>6 DEF QRoot, UniteSets
  <2>. QED
    BY <1>6, <2>1, <2>2 DEF UniteRoots
<1>. QED
  BY <1>5, <1>6

\* The locks and the union itself.
LEMMA OwnLink ==
  ASSUME NEW callers, SetsInv(callers), NEW w \in Worker, Coarser, Typed(callers)', Upward',
         \/ LockUf(w) \/ LockUfCheck(w) \/ LockUfUndo(w) \/ LockListA(w) \/ LockListB(w)
         \/ SwapLists(w) \/ SetParent(w)
  PROVE  (PathOne(w) /\ QRoot(w) /\ UniteSets(w))'
<1> DEFINE u == loc[w].unite
           Kept == (PathOne(w) /\ QRoot(w) /\ UniteSets(w))'
           Roles0 == /\ loc'[w].unite.a = loc[w].unite.a /\ loc'[w].unite.b = loc[w].unite.b
                     /\ loc'[w].unite.q = loc[w].unite.q /\ loc'[w].unite.r = loc[w].unite.r
<1>1. Typed(callers) /\ Outside(callers) /\ InCall(w, callers) /\ UniteSets(w) /\ QRoot(w)
      /\ loc \in [Worker -> Locals]
  BY DEF SetsInv, Knows, Typed, LocTyped
<1>2. u \in Unites /\ u.a \in Slot /\ u.b \in Slot /\ u.q \in Slot /\ u.r \in Slot /\ ret[w].node \in Slot
  BY <1>1, LocalsTyped DEF Typed, ControlTyped
<1>3. pc[w] \in Labels \ (FindLabels \cup PickLabels) /\ pc[w] \in RegionLabels
      /\ pc[w] \notin JoinedLabels
  BY DEF LockUf, LockUfCheck, LockUfUndo, LockListA, LockListB, SwapLists, SetParent,
     Labels, FindLabels, PickLabels, RegionLabels, JoinedLabels
<1>4. Region(w) /\ (\A l : ~Awaits(w, l)) /\ ~Joined(w)
  BY <1>1, <1>3, AwaitsNone DEF Region, Joined
<1>5. UFStep(w)
  BY DEF UFStep
<1>6. ~SetParent(w) /\ ~FindCompress(w) => \A s \in Slot : uf'[s].parent = uf[s].parent
  BY <1>1, <1>5, UFStepEntries
<1>7. UniteReturn(w) => Kept
  <2>1. ASSUME UniteReturn(w) PROVE PathOne(w)' /\ ~Busy(w)'
    BY <1>1, <1>3, <2>1, Returned DEF UniteReturn
  <2>. QED
    BY <2>1, IdleSetsNext
<1>8. UniteRetry(w) => Kept
  BY <1>3, UniteRetried
<1>9. ASSUME NEW label \in {"lock_uf_check", "lock_uf_undo", "swap", "set_parent"}, Roles0,
             Goto(w, label) \/ Resume(w, label),
             pc[w] \in LinkLabels \/ label \notin LinkLabels, ~SetParent(w)
      PROVE  Kept
  <2>1. label \in Labels \ FindLabels /\ label \notin JoinedLabels \cup {"unite_a", "unite_b"}
    BY <1>9 DEF Labels, FindLabels, JoinedLabels
  <2>2. pc'[w] = label /\ PathOne(w)' /\ \A l : ~Awaits(w, l)'
    BY <1>1, <1>3, <1>9, <2>1, Moved
  <2>3. ~Joined(w)' /\ (Linking(w)' => Linking(w))
    BY <1>9, <2>1, <2>2 DEF Joined, Linking
  <2>4. ~FindCompress(w)
    BY <1>3 DEF FindCompress, FindLabels
  <2>5. Linking(w)' => uf'[loc[w].unite.q].parent = 0
    BY <1>1, <1>2, <1>6, <1>9, <2>3, <2>4 DEF QRoot
  <2>. QED
    BY <1>4, <1>9, <2>1, <2>2, <2>3, <2>5, UniteMoved
<1>10. ASSUME NEW label \in {"list_a", "list_b"}, Roles0, Call(w, "pick_a", <<label>>),
              uf[u.q].parent = 0, ~SetParent(w)
       PROVE  Kept
  <2>1. pc'[w] = "pick_a" /\ \A l : Awaits(w, l)' <=> l = label
    BY <1>1, <1>3, <1>10, AwaitsPush
  <2>2. "pick_a" \notin FindLabels \cup JoinedLabels \cup {"unite_a", "unite_b"}
        /\ label \notin {"unite_a", "unite_b", "found_r"}
    BY <1>10 DEF FindLabels, JoinedLabels
  <2>3. PathOne(w)' /\ ~Joined(w)'
    BY <2>1, <2>2, PathStarts DEF Joined
  <2>4. ~FindCompress(w)
    BY <1>3 DEF FindCompress, FindLabels
  <2>5. uf'[loc[w].unite.q].parent = 0
    BY <1>2, <1>6, <1>10, <2>4
  <2>. QED
    BY <1>4, <1>10, <2>1, <2>2, <2>3, <2>5, UniteMoved
<1>11. ASSUME NEW s, NEW label \in {"list_a", "list_b"}, CallPick(w, s, <<label>>)
       PROVE  Roles0 /\ Call(w, "pick_a", <<label>>)
  BY <1>1, <1>11 DEF CallPick, Locals
<1>12. CASE LockUf(w)
  <2>1. ~SetParent(w) /\ "lock_uf_check" \notin LinkLabels
    BY <1>12 DEF LockUf, SetParent, LinkLabels
  <2>. QED
    BY <1>8, <1>9, <1>12, <2>1 DEF LockUf
<1>13. CASE LockUfCheck(w)
  <2>1. ~SetParent(w) /\ "lock_uf_undo" \notin LinkLabels
    BY <1>13 DEF LockUfCheck, SetParent, LinkLabels
  <2>2. CASE StillRoot(u.q) /\ CallPick(w, u.a, <<"list_a">>)
    BY <1>10, <1>11, <2>1, <2>2 DEF StillRoot
  <2>3. CASE Goto(w, "lock_uf_undo") /\ UNCHANGED loc
    BY <1>9, <2>1, <2>3
  <2>. QED
    BY <1>13, <2>2, <2>3 DEF LockUfCheck
<1>14. CASE LockUfUndo(w)
  BY <1>8, <1>14 DEF LockUfUndo
<1>15. CASE LockListA(w)
  <2>1. ~SetParent(w) /\ uf[u.q].parent = 0
    BY <1>1, <1>15 DEF LockListA, SetParent, QRoot, Linking, LinkLabels
  <2>2. CASE /\ loc' = [loc EXCEPT ![w] = [@ EXCEPT !.unite.al = ret[w].node, !.pick.a = u.b]]
             /\ Call(w, "pick_a", <<"list_b">>)
    <3>1. loc'[w].unite = [u EXCEPT !.al = ret[w].node]
      BY <1>1, <2>2 DEF Locals
    <3>2. Roles0
      BY <1>2, <3>1 DEF Unites
    <3>. QED
      BY <1>10, <2>1, <2>2, <3>2
  <2>3. CASE CallPick(w, u.a, <<"list_a">>)
    BY <1>10, <1>11, <2>1, <2>3
  <2>. QED
    BY <1>7, <1>15, <2>2, <2>3 DEF LockListA
<1>16. CASE LockListB(w)
  <2>1. ~SetParent(w) /\ uf[u.q].parent = 0 /\ pc[w] \in LinkLabels
    BY <1>1, <1>16 DEF LockListB, SetParent, QRoot, Linking, LinkLabels
  <2>2. CASE loc' = [loc EXCEPT ![w].unite.bl = ret[w].node] /\ Resume(w, "swap")
    <3>1. loc'[w].unite = [u EXCEPT !.bl = ret[w].node]
      BY <1>1, <2>2 DEF Locals
    <3>2. Roles0
      BY <1>2, <3>1 DEF Unites
    <3>. QED
      BY <1>9, <2>1, <2>2, <3>2
  <2>3. CASE CallPick(w, u.b, <<"list_b">>)
    BY <1>10, <1>11, <2>1, <2>3
  <2>. QED
    BY <1>7, <1>16, <2>2, <2>3 DEF LockListB
<1>17. CASE SwapLists(w)
  <2>1. ~SetParent(w) /\ pc[w] \in LinkLabels /\ Goto(w, "set_parent") /\ Roles0
    BY <1>17 DEF SwapLists, SetParent, LinkLabels
  <2>. QED
    BY <1>9, <2>1
<1>18. CASE SetParent(w)
  <2>1. Goto(w, "read_qw") /\ loc' = loc
    BY <1>18 DEF SetParent
  <2>2. "read_qw" \in Labels \ FindLabels /\ "read_qw" \notin LinkLabels
    BY DEF Labels, FindLabels, LinkLabels
  <2>3. pc'[w] = "read_qw" /\ PathOne(w)' /\ \A l : ~Awaits(w, l)'
    BY <1>1, <1>3, <2>1, <2>2, Moved
  <2>4. Root'[u.q] = Root'[u.r]
    BY <1>1, <1>18, LinkKept DEF SetsInv
  <2>5. /\ u.q < u.r
        /\ \/ Root'[u.q] = Root'[u.a] /\ Root'[u.r] = Root'[u.b]
           \/ Root'[u.q] = Root'[u.b] /\ Root'[u.r] = Root'[u.a]
    BY <1>1, <1>2, <1>4 DEF UniteSets, Coarser
  <2>6. Root'[u.a] = Root'[u.b]
    BY <2>4, <2>5
  <2>7. ~Linking(w)'
    BY <2>2, <2>3 DEF Linking
  <2>. QED
    BY <2>1, <2>3, <2>5, <2>6, <2>7 DEF QRoot, UniteSets
<1>. QED
  BY <1>12, <1>13, <1>14, <1>15, <1>16, <1>17, <1>18

\* The rest of unite, after the union.
LEMMA OwnJoined ==
  ASSUME NEW callers, SetsInv(callers), NEW w \in Worker, Coarser, Typed(callers)', Upward',
         \/ ReadQw(w) \/ CompareRw(w) \/ AddQw(w) \/ CheckR(w) \/ FoundR(w)
         \/ UnlockListA(w) \/ UnlockListB(w) \/ UnlockUf(w)
  PROVE  (PathOne(w) /\ QRoot(w) /\ UniteSets(w))'
<1> DEFINE u == loc[w].unite
           Kept == (PathOne(w) /\ QRoot(w) /\ UniteSets(w))'
           Roles0 == /\ loc'[w].unite.a = loc[w].unite.a /\ loc'[w].unite.b = loc[w].unite.b
                     /\ loc'[w].unite.q = loc[w].unite.q /\ loc'[w].unite.r = loc[w].unite.r
<1>1. Typed(callers) /\ Outside(callers) /\ InCall(w, callers) /\ loc \in [Worker -> Locals]
  BY DEF SetsInv, Knows, Typed, LocTyped
<1>2. u \in Unites /\ u.up \in Slot
  BY <1>1, LocalsTyped DEF Typed
<1>3. pc[w] \in Labels \ (FindLabels \cup PickLabels) /\ pc[w] \in RegionLabels
      /\ pc[w] \in JoinedLabels
  BY DEF ReadQw, CompareRw, AddQw, CheckR, FoundR, UnlockListA, UnlockListB, UnlockUf,
     Labels, FindLabels, PickLabels, RegionLabels, JoinedLabels
<1>4. Region(w) /\ Joined(w)
  BY <1>3 DEF Region, Joined
<1>5. ASSUME NEW label \in JoinedLabels, Roles0, Goto(w, label) \/ Resume(w, label)
      PROVE  Kept
  <2>1. label \in Labels \ FindLabels /\ label \notin LinkLabels \cup {"unite_a", "unite_b"}
    BY <1>5 DEF Labels, FindLabels, JoinedLabels, LinkLabels
  <2>2. pc'[w] = label /\ PathOne(w)' /\ \A l : ~Awaits(w, l)'
    BY <1>1, <1>3, <1>5, <2>1, Moved
  <2>3. ~Linking(w)'
    BY <2>1, <2>2 DEF Linking
  <2>. QED
    BY <1>4, <1>5, <2>1, <2>2, <2>3, UniteMoved
<1>6. CASE ReadQw(w) \/ CompareRw(w) \/ FoundR(w)
  <2>1. Roles0
    BY <1>1, <1>2, <1>6 DEF ReadQw, CompareRw, FoundR, Locals, Unites
  <2>2. {"compare_rw", "add_qw", "unlock_a"} \subseteq JoinedLabels
    BY DEF JoinedLabels
  <2>. QED
    BY <1>5, <1>6, <2>1, <2>2 DEF ReadQw, CompareRw, FoundR
<1>7. CASE AddQw(w) \/ UnlockListA(w) \/ UnlockListB(w)
  <2>1. {"check_r", "unlock_b", "unlock_uf"} \subseteq JoinedLabels
    BY DEF JoinedLabels
  <2>. QED
    BY <1>5, <1>7, <2>1 DEF AddQw, UnlockListA, UnlockListB
<1>8. CASE CheckR(w)
  <2>1. CASE CallFind(w, u.up, <<"found_r">>)
    <3>1. pc'[w] = "find" /\ PathOne(w)' /\ \A l : Awaits(w, l)' <=> l = "found_r"
      BY <1>1, <1>2, <1>3, <2>1, FindCalled
    <3>2. ~Linking(w)'
      BY <3>1 DEF Linking, LinkLabels, ListLabels
    <3>3. Roles0
      BY <1>8 DEF CheckR
    <3>. QED
      BY <1>4, <3>1, <3>2, <3>3, UniteMoved
  <2>2. CASE Goto(w, "unlock_a")
    <3>1. Roles0 /\ "unlock_a" \in JoinedLabels
      BY <1>8 DEF CheckR, JoinedLabels
    <3>. QED
      BY <1>5, <2>2, <3>1
  <2>. QED
    BY <1>8, <2>1, <2>2 DEF CheckR
<1>9. CASE UnlockUf(w)
  <2>1. PathOne(w)' /\ ~Busy(w)'
    BY <1>1, <1>3, <1>9, Returned DEF UnlockUf, UniteReturn
  <2>. QED
    BY <2>1, IdleSetsNext
<1>. QED
  BY <1>6, <1>7, <1>8, <1>9

\* Every step of the union-find, of one worker among the others, keeps what all
\* of them know, and takes no set apart.
LEMMA UFStepSets ==
  ASSUME NEW callers, SetsInv(callers), NEW w \in Worker, UFStep(w)
  PROVE  SetsInv(callers)' /\ Coarser
<1>1. Typed(callers)'
  BY UFStepTyped DEF SetsInv
<1>2. Upward' /\ Locked'
  BY <1>1, UFStepKeeps DEF SetsInv
<1>3. Coarser
  BY <1>1, <1>2, UFStepCoarser
<1>4. OneHolder'
  BY HolderKept
<1>5. InCall(w, callers)'
  BY UFStepInCall DEF SetsInv, Knows
<1>6. (PathOne(w) /\ QRoot(w) /\ UniteSets(w))'
  BY <1>1, <1>2, <1>3, OwnPick, OwnFind, OwnIdle, OwnChoose, OwnLink, OwnJoined DEF UFStep
<1>7. Knows(w, callers)'
  BY <1>5, <1>6 DEF Knows
<1>8. \A x \in Worker : Knows(x, callers)'
  BY <1>1, <1>2, <1>7, OthersKnow
<1>. QED
  BY <1>1, <1>2, <1>3, <1>4, <1>8 DEF SetsInv, Outside

-----------------------------------------------------------------------------
(* The calls of the code that uses the union-find *)

\* What a step of the code that uses the union-find does with it: move on, or
\* call one of its functions.
CallerStep(w, callers) ==
  /\ pc[w] \in callers
  /\ UNCHANGED <<uf, G_Color>>
  /\ \E back \in callers, s, s2 \in Slot :
       \/ /\ Goto(w, back) \/ Resume(w, back) \/ UNCHANGED control
          /\ UNCHANGED <<path, loc>>
       \/ CallFind(w, s, <<back>>) /\ UNCHANGED loc
       \/ CallClaim(w, s, back) /\ UNCHANGED loc
       \/ CallSameset(w, s, s2, back)
       \/ CallPick(w, s, <<back>>) /\ UNCHANGED path
       \/ CallRemove(w, s, back) /\ UNCHANGED path
       \/ CallUnite(w, s, s2, back)

\* What they leave on the stack.
LEMMA CallerMoves ==
  ASSUME NEW callers, Typed(callers), Outside(callers), NEW w \in Worker, InCall(w, callers),
         CallerStep(w, callers)
  PROVE  /\ stack[w] = <<>> /\ Alone(w)
         /\ \/ /\ loc'[w].unite = loc[w].unite
               /\ \/ pc'[w] \in callers /\ stack'[w] = <<>>
                  \/ \E c \in callers : pc'[w] \in {"pick_a", "remove"} /\ stack'[w] = <<c>>
                  \/ \E c \in callers, s \in Slot, b \in {"claim_dead", "same_b"} :
                       pc'[w] = "find" /\ path'[w] = <<s>> /\ (stack'[w] = <<c>> \/ stack'[w] = <<c, b>>)
            \/ \E c \in callers, s \in Slot, b \in {"unite_a"} :
                 /\ pc'[w] = "find" /\ path'[w] = <<s>> /\ stack'[w] = <<c, b>>
                 /\ loc'[w].unite.a = s /\ loc'[w].unite.q = 0 /\ loc'[w].unite.r = 0
<1> USE DEF Alone, OthersKept
<1>1. stack[w] = <<>>
  <2>1. pc[w] \in callers /\ pc[w] \notin Labels
    BY DEF Outside, CallerStep
  <2>2. pc[w] \notin FindLabels \cup PickLabels
    BY <2>1, LabelSets
  <2>. QED
    BY <2>1, <2>2 DEF InCall
<1>2. /\ pc \in [Worker -> Labels \cup callers] /\ stack \in [Worker -> Seq(Back(callers))]
      /\ ret \in [Worker -> [code : Codes, node : Slot]]
      /\ path \in [Worker -> Seq(Slot)] /\ loc \in [Worker -> Locals] /\ loc[w].unite \in Unites
  BY LocalsTyped DEF Typed, ControlTyped, LocTyped
<1>3. PICK back \in callers, s \in Slot, s2 \in Slot :
       \/ /\ Goto(w, back) \/ Resume(w, back) \/ UNCHANGED control
          /\ UNCHANGED <<path, loc>>
       \/ CallFind(w, s, <<back>>) /\ UNCHANGED loc
       \/ CallClaim(w, s, back) /\ UNCHANGED loc
       \/ CallSameset(w, s, s2, back)
       \/ CallPick(w, s, <<back>>) /\ UNCHANGED path
       \/ CallRemove(w, s, back) /\ UNCHANGED path
       \/ CallUnite(w, s, s2, back)
  BY DEF CallerStep
<1>4. CASE (Goto(w, back) \/ Resume(w, back) \/ UNCHANGED control) /\ UNCHANGED <<path, loc>>
  <2>1. UNCHANGED stack /\ pc'[w] \in callers
        /\ \A x \in Worker \ {w} : pc'[x] = pc[x] /\ ret'[x] = ret[x]
    BY <1>2, <1>4 DEF Goto, Resume, control, CallerStep
  <2>. QED
    BY <1>1, <1>4, <2>1
<1>5. ASSUME NEW label, Call(w, label, <<back>>)
      PROVE  /\ pc'[w] = label /\ stack'[w] = <<back>>
             /\ \A x \in Worker \ {w} : pc'[x] = pc[x] /\ ret'[x] = ret[x] /\ stack'[x] = stack[x]
  <2>1. /\ pc'[w] = label /\ stack'[w] = stack[w] \o <<back>>
        /\ \A x \in Worker \ {w} : pc'[x] = pc[x] /\ ret'[x] = ret[x] /\ stack'[x] = stack[x]
    BY <1>2, <1>5 DEF Call
  <2>2. stack'[w] = <<back>>
    BY <1>1, <2>1, PushOne
  <2>. QED
    BY <2>1, <2>2
<1>6. ASSUME NEW b \in Labels, NEW x \in Slot, CallFind(w, x, <<back, b>>)
      PROVE  /\ pc'[w] = "find" /\ stack'[w] = <<back, b>> /\ path'[w] = <<x>>
             /\ \A y \in Worker \ {w} : pc'[y] = pc[y] /\ ret'[y] = ret[y] /\ stack'[y] = stack[y]
                                        /\ path'[y] = path[y]
  <2>1. /\ pc'[w] = "find" /\ stack'[w] = stack[w] \o <<back, b>> /\ path'[w] = <<x>>
        /\ \A y \in Worker \ {w} : pc'[y] = pc[y] /\ ret'[y] = ret[y] /\ stack'[y] = stack[y]
                                        /\ path'[y] = path[y]
    BY <1>2, <1>6 DEF CallFind, Call
  <2>2. stack'[w] = <<back, b>>
    BY <1>1, <2>1, PushBoth
  <2>. QED
    BY <2>1, <2>2
<1>7. CASE CallFind(w, s, <<back>>) /\ UNCHANGED loc
  BY <1>1, <1>2, <1>5, <1>7 DEF CallFind
<1>8. {"claim_dead", "same_b", "unite_a"} \subseteq Labels
  BY DEF Labels
<1>9. CASE CallClaim(w, s, back) /\ UNCHANGED loc
  BY <1>1, <1>6, <1>8, <1>9 DEF CallClaim
<1>10. CASE CallSameset(w, s, s2, back)
  <2>1. CASE s = s2
    BY <1>1, <1>2, <1>10, <2>1 DEF CallSameset
  <2>2. CASE s # s2
    <3>1. loc' = [loc EXCEPT ![w].same.a = s] /\ CallFind(w, s2, <<back, "same_b">>)
      BY <1>10, <2>2 DEF CallSameset
    <3>2. loc'[w].unite = loc[w].unite /\ \A x \in Worker \ {w} : loc'[x] = loc[x]
      BY <1>2, <3>1 DEF Locals
    <3>. QED
      BY <1>1, <1>6, <1>8, <3>1, <3>2
  <2>. QED
    BY <2>1, <2>2
<1>11. CASE (CallPick(w, s, <<back>>) \/ CallRemove(w, s, back)) /\ UNCHANGED path
  <2>1. loc'[w].unite = loc[w].unite /\ \A x \in Worker \ {w} : loc'[x] = loc[x]
    BY <1>2, <1>11 DEF Locals, CallPick, CallRemove
  <2>. QED
    BY <1>1, <1>5, <1>11, <2>1 DEF CallPick, CallRemove
<1>12. CASE CallUnite(w, s, s2, back)
  <2>1. /\ loc' = [loc EXCEPT ![w].unite = [NoUnite EXCEPT !.a = s, !.b = s2]]
        /\ CallFind(w, s, <<back, "unite_a">>)
    BY <1>12 DEF CallUnite
  <2>2. loc'[w].unite = [NoUnite EXCEPT !.a = s, !.b = s2] /\ \A x \in Worker \ {w} : loc'[x] = loc[x]
    BY <1>2, <2>1 DEF Locals
  <2>3. loc'[w].unite.a = s /\ loc'[w].unite.q = 0 /\ loc'[w].unite.r = 0
    BY <2>2 DEF NoUnite
  <2>. QED
    BY <1>1, <1>6, <1>8, <2>1, <2>2, <2>3
<1>. QED
  BY <1>3, <1>4, <1>7, <1>9, <1>10, <1>11, <1>12

\* They keep what all workers know.
LEMMA CallerSets ==
  ASSUME NEW callers, SetsInv(callers), NEW w \in Worker, CallerStep(w, callers),
         Typed(callers)', Upward', Locked'
  PROVE  SetsInv(callers)' /\ Root' = Root
<1>1. Typed(callers) /\ Outside(callers) /\ InCall(w, callers) /\ uf' = uf
  BY DEF SetsInv, Knows, CallerStep
<1>2. Root' = Root
  <2>1. \A s \in Slot : uf'[s].parent = uf[s].parent
    BY <1>1
  <2>. QED
    BY <1>1, <2>1, RootKept DEF Typed
<1>3. /\ stack[w] = <<>> /\ Alone(w)
      /\ \/ /\ loc'[w].unite = loc[w].unite
               /\ \/ pc'[w] \in callers /\ stack'[w] = <<>>
                  \/ \E c \in callers : pc'[w] \in {"pick_a", "remove"} /\ stack'[w] = <<c>>
                  \/ \E c \in callers, s \in Slot, b \in {"claim_dead", "same_b"} :
                       pc'[w] = "find" /\ path'[w] = <<s>> /\ (stack'[w] = <<c>> \/ stack'[w] = <<c, b>>)
            \/ \E c \in callers, s \in Slot, b \in {"unite_a"} :
                 /\ pc'[w] = "find" /\ path'[w] = <<s>> /\ stack'[w] = <<c, b>>
                 /\ loc'[w].unite.a = s /\ loc'[w].unite.q = 0 /\ loc'[w].unite.r = 0
  BY <1>1, CallerMoves
<1>4. Knows(w, callers)'
  <2>1. "find" \in Labels /\ "find" \in FindLabels /\ {"pick_a", "remove"} \subseteq Labels \ FindLabels
        /\ {"find", "pick_a", "remove"} \cap (RegionLabels \cup {"unite_a", "unite_b"}) = {}
        /\ {"claim_dead", "same_b", "unite_a"} \subseteq FindBacks
        /\ "unite_a" \notin ListLabels \cup {"found_r"}
    BY DEF Labels, FindLabels, FindBacks, RegionLabels, ListLabels
  <2>2. callers \cap (RegionLabels \cup FindLabels \cup {"unite_a", "unite_b"}) = {}
    BY <1>1 DEF Outside, Labels, RegionLabels, FindLabels
  <2>3. ASSUME NEW c, NEW d, stack'[w] = <<>> \/ stack'[w] = <<c>>
        PROVE  \A l : ~Awaits(w, l)'
    BY <2>3 DEF Awaits
  <2>4. ASSUME NEW c, NEW b, stack'[w] = <<c, b>>
        PROVE  \A l : Awaits(w, l)' <=> l = b
    BY <2>4 DEF Awaits
  <2>5. CASE pc'[w] \in callers /\ stack'[w] = <<>>
    <3>1. InCall(w, callers)' /\ PathOne(w)' /\ ~Busy(w)'
      BY <2>2, <2>3, <2>5, PathStarts DEF InCall, Busy, Region
    <3>. QED
      BY <3>1, IdleSetsNext DEF Knows
  <2>6. ASSUME NEW c \in callers, pc'[w] \in {"pick_a", "remove"}, stack'[w] = <<c>>
        PROVE  Knows(w, callers)'
    <3>1. InCall(w, callers)' /\ PathOne(w)' /\ ~Busy(w)'
      BY <2>1, <2>3, <2>6, PathStarts DEF InCall, Busy, Region
    <3>. QED
      BY <3>1, IdleSetsNext DEF Knows
  <2>7. ASSUME NEW c \in callers, NEW s \in Slot, pc'[w] = "find", path'[w] = <<s>>, stack'[w] = <<c>>
        PROVE  Knows(w, callers)'
    <3>1. InCall(w, callers)' /\ PathOne(w)' /\ ~Busy(w)'
      BY <2>1, <2>3, <2>7, PathStarts DEF InCall, Busy, Region
    <3>. QED
      BY <3>1, IdleSetsNext DEF Knows
  <2>8. ASSUME NEW c \in callers, NEW s \in Slot, NEW b \in {"claim_dead", "same_b"},
               pc'[w] = "find", path'[w] = <<s>>, stack'[w] = <<c, b>>
        PROVE  Knows(w, callers)'
    <3>1. InCall(w, callers)' /\ PathOne(w)'
      BY <2>1, <2>8, PathStarts DEF InCall
    <3>2. ~Busy(w)'
      BY <2>1, <2>4, <2>8 DEF Busy, Region, ListLabels
    <3>. QED
      BY <3>1, <3>2, IdleSetsNext DEF Knows
  <2>9. ASSUME NEW c \in callers, NEW s \in Slot, NEW b \in {"unite_a"},
               pc'[w] = "find", path'[w] = <<s>>, stack'[w] = <<c, b>>, loc'[w].unite.a = s
        PROVE  Knows(w, callers)'
    <3>1. InCall(w, callers)' /\ PathOne(w)'
      BY <2>1, <2>9, PathStarts DEF InCall
    <3>2. \A l : Awaits(w, l)' <=> l = "unite_a"
      BY <2>4, <2>9
    <3>3. ~Region(w)' /\ ~Linking(w)' /\ ~Joined(w)'
      BY <2>1, <2>9, <3>2 DEF Region, Linking, Joined, RegionLabels, LinkLabels, JoinedLabels, ListLabels
    <3>4. path'[w][1] = s
      BY <2>9
    <3>5. QRoot(w)' /\ UniteSets(w)'
      BY <2>1, <2>9, <3>2, <3>3, <3>4 DEF QRoot, UniteSets
    <3>. QED
      BY <3>1, <3>5 DEF Knows
  <2>. QED
    BY <1>3, <2>5, <2>6, <2>7, <2>8, <2>9
<1>5. ASSUME NEW x \in Worker \ {w}
      PROVE  Knows(x, callers)'
  <2>1. /\ pc'[x] = pc[x] /\ stack'[x] = stack[x] /\ ret'[x] = ret[x]
        /\ path'[x] = path[x] /\ loc'[x] = loc[x]
    BY <1>3 DEF Alone, OthersKept
  <2>2. \A l : Awaits(x, l)' <=> Awaits(x, l)
    BY <2>1 DEF Awaits
  <2>3. Region(x)' = Region(x) /\ Linking(x)' = Linking(x) /\ Joined(x)' = Joined(x)
    BY <2>1, <2>2 DEF Region, Linking, Joined
  <2>4. Knows(x, callers)
    BY DEF SetsInv
  <2>. QED
    BY <1>1, <1>2, <2>1, <2>2, <2>3, <2>4 DEF Knows, InCall, PathOne, QRoot, UniteSets
<1>6. OneHolder'
  <2>1. \A x \in Worker \ {w} : (Holding(x)' <=> Holding(x)) /\ loc'[x] = loc[x]
    BY <1>3 DEF Alone, OthersKept, Holding
  <2>2. pc[w] # "lock_uf"
    BY <1>1 DEF CallerStep, Outside, Labels
  <2>3. Holding(w)' => Holding(w) /\ loc'[w].unite = loc[w].unite
    <3>1. CASE loc'[w].unite = loc[w].unite
      BY <2>2, <3>1 DEF Holding
    <3>2. CASE loc'[w].unite.q = 0 /\ loc'[w].unite.r = 0
      BY <3>2 DEF Holding
    <3>. QED
      BY <1>3, <3>1, <3>2
  <2>. QED
    BY <1>1, <2>1, <2>3 DEF SetsInv, OneHolder
<1>. QED
  BY <1>2, <1>4, <1>5, <1>6 DEF SetsInv, Outside

\* A step of the caller keeps the types.
LEMMA CallerTyped ==
  ASSUME NEW callers, Typed(callers), Outside(callers), NEW w \in Worker, CallerStep(w, callers)
  PROVE  Typed(callers)'
<1>1. UfTyped'
  BY DEF CallerStep, Typed, UfTyped
<1>2. PICK back \in callers, s \in Slot, s2 \in Slot :
       \/ (Goto(w, back) \/ Resume(w, back) \/ UNCHANGED control) /\ UNCHANGED <<path, loc>>
       \/ CallFind(w, s, <<back>>) /\ UNCHANGED loc
       \/ CallClaim(w, s, back) /\ UNCHANGED loc
       \/ CallSameset(w, s, s2, back)
       \/ CallPick(w, s, <<back>>) /\ UNCHANGED path
       \/ CallRemove(w, s, back) /\ UNCHANGED path
       \/ CallUnite(w, s, s2, back)
  BY DEF CallerStep
<1>3. /\ back \in Back(callers)
      /\ {"claim_dead", "same_b", "unite_a", "pick_a", "remove"} \subseteq Back(callers)
      /\ {"find", "compress"} \cap Back(callers) = {}
  BY DEF Outside, Back, Labels
<1>4. ASSUME NEW s3 \in Slot, NEW b \in Back(callers), CallFind(w, s3, <<back, b>>)
      PROVE  ControlTyped(callers)'
  <2>1. <<back, b>> \in Seq(Back(callers))
    BY <1>3
  <2>. QED
    BY <1>4, <2>1, CallFindTyped DEF Typed
<1>5. CASE (Goto(w, back) \/ Resume(w, back) \/ UNCHANGED control) /\ UNCHANGED <<path, loc>>
  <2>1. UNCHANGED control => ControlTyped(callers)'
    BY <1>5 DEF control, Typed, ControlTyped
  <2>. QED
    BY <1>1, <1>3, <1>5, <2>1, GotoTyped, ResumeTyped DEF Typed, LocTyped
<1>6. CASE CallFind(w, s, <<back>>) /\ UNCHANGED loc
  BY <1>1, <1>3, <1>6, CallFindOnceTyped DEF Typed, LocTyped
<1>7. CASE CallClaim(w, s, back) /\ UNCHANGED loc
  BY <1>1, <1>3, <1>4, <1>7 DEF CallClaim, Typed, LocTyped
<1>8. CASE CallSameset(w, s, s2, back)
  <2>1. CASE s = s2
    <3>1. UNCHANGED <<stack, path, loc>> /\ pc' = [pc EXCEPT ![w] = back]
          /\ ret' = [ret EXCEPT ![w] = [code |-> "same", node |-> 0]]
      BY <1>8, <2>1 DEF CallSameset
    <3>2. pc' \in [Worker -> Labels \cup callers] /\ pc'[w] \notin {"find", "compress"}
      BY <1>3, <3>1 DEF Typed, ControlTyped, Back
    <3>3. ret' \in [Worker -> [code : Codes, node : Slot]]
      BY <3>1, SlotZero DEF Typed, ControlTyped, Codes
    <3>. QED
      BY <1>1, <3>1, <3>2, <3>3 DEF Typed, ControlTyped, LocTyped
  <2>2. CASE s # s2
    <3>1. loc' = [loc EXCEPT ![w].same.a = s] /\ CallFind(w, s2, <<back, "same_b">>)
      BY <1>8, <2>2 DEF CallSameset
    <3>2. LocTyped'
      BY <3>1 DEF Typed, LocTyped, Locals, Sames
    <3>. QED
      BY <1>1, <1>3, <1>4, <3>1, <3>2 DEF Typed
  <2>. QED
    BY <2>1, <2>2
<1>9. CASE (CallPick(w, s, <<back>>) \/ CallRemove(w, s, back)) /\ UNCHANGED path
  <2>1. [NoPick EXCEPT !.a = s] \in Picks
    BY NoneTyped DEF Picks
  <2>2. LocTyped'
    BY <1>9, <2>1 DEF CallPick, CallRemove, Typed, LocTyped, Locals
  <2>3. <<back>> \in Seq(Back(callers))
    BY <1>3
  <2>. QED
    BY <1>1, <1>3, <1>9, <2>2, <2>3, CallTyped DEF CallPick, CallRemove, Typed
<1>10. CASE CallUnite(w, s, s2, back)
  <2>1. [NoUnite EXCEPT !.a = s, !.b = s2] \in Unites
    BY NoneTyped DEF Unites
  <2>2. LocTyped'
    BY <1>10, <2>1 DEF CallUnite, Typed, LocTyped, Locals
  <2>. QED
    BY <1>1, <1>3, <1>4, <1>10, <2>2 DEF CallUnite, Typed
<1>. QED
  BY <1>2, <1>5, <1>6, <1>7, <1>8, <1>9, <1>10

\* It leaves parents, statuses and locks alone.
LEMMA CallerQuiet ==
  ASSUME NEW callers, Typed(callers), Outside(callers), NEW w \in Worker, CallerStep(w, callers)
  PROVE  Quiet(w)
<1>1. UfKept /\ pc[w] \notin Labels
  BY DEF UfKept, CallerStep, Outside
<1>2. PICK back \in callers, s \in Slot, s2 \in Slot :
       \/ (Goto(w, back) \/ Resume(w, back) \/ UNCHANGED control) /\ UNCHANGED <<path, loc>>
       \/ CallFind(w, s, <<back>>) /\ UNCHANGED loc
       \/ CallClaim(w, s, back) /\ UNCHANGED loc
       \/ CallSameset(w, s, s2, back)
       \/ CallPick(w, s, <<back>>) /\ UNCHANGED path
       \/ CallRemove(w, s, back) /\ UNCHANGED path
       \/ CallUnite(w, s, s2, back)
  BY DEF CallerStep
<1>3. back \in Back(callers) /\ {"pick_a", "remove"} \subseteq Back(callers)
  BY DEF Outside, Back, Labels
<1>4. pc[w] \notin {"lock_uf", "unlock_b", "unlock_uf"}
  BY <1>1 DEF Labels
<1>5. ASSUME loc'[w].unite = loc[w].unite \/ (loc'[w].unite.q = 0 /\ loc'[w].unite.r = 0
                                              /\ loc'[w].unite.al = 0 /\ loc'[w].unite.bl = 0)
      PROVE  UniteKept(w)
  BY <1>4, <1>5 DEF UniteKept
<1>6. CASE (Goto(w, back) \/ Resume(w, back) \/ UNCHANGED control) /\ UNCHANGED <<path, loc>>
  <2>1. UNCHANGED control => OthersKept(w) /\ PathKept(w)
    BY <1>1, <1>6 DEF control, OthersKept, PathKept, Labels
  <2>2. OthersKept(w) /\ PathKept(w)
    BY <1>3, <1>6, <2>1, PlainKept DEF Typed
  <2>. QED
    BY <1>1, <1>5, <1>6, <2>2 DEF Quiet
<1>7. CASE CallFind(w, s, <<back>>) /\ UNCHANGED loc
  BY <1>1, <1>5, <1>7, CallFindKept DEF Typed, Quiet
<1>8. CASE CallClaim(w, s, back) /\ UNCHANGED loc
  BY <1>1, <1>5, <1>8, CallFindKept DEF CallClaim, Typed, Quiet
<1>9. CASE CallSameset(w, s, s2, back)
  <2>1. CASE s = s2
    <3>1. /\ UNCHANGED <<stack, path, loc>> /\ pc' = [pc EXCEPT ![w] = back]
          /\ ret' = [ret EXCEPT ![w] = [code |-> "same", node |-> 0]]
      BY <1>9, <2>1 DEF CallSameset
    <3>2. OthersKept(w) /\ PathKept(w)
      BY <1>3, <3>1 DEF Typed, ControlTyped, Back, OthersKept, PathKept
    <3>. QED
      BY <1>1, <1>5, <3>1, <3>2 DEF Quiet
  <2>2. CASE s # s2
    <3>1. loc' = [loc EXCEPT ![w].same.a = s] /\ CallFind(w, s2, <<back, "same_b">>)
      BY <1>9, <2>2 DEF CallSameset
    <3>2. loc'[w].unite = loc[w].unite /\ \A x \in Worker \ {w} : loc'[x] = loc[x]
      BY <3>1 DEF Typed, LocTyped, Locals
    <3>. QED
      BY <1>1, <1>5, <3>1, <3>2, CallFindKept DEF Typed, Quiet
  <2>. QED
    BY <2>1, <2>2
<1>10. CASE (CallPick(w, s, <<back>>) \/ CallRemove(w, s, back)) /\ UNCHANGED path
  <2>1. loc'[w].unite = loc[w].unite /\ \A x \in Worker \ {w} : loc'[x] = loc[x]
    BY <1>10 DEF Typed, LocTyped, Locals, CallPick, CallRemove
  <2>2. Call(w, "pick_a", <<back>>) \/ Call(w, "remove", <<back>>)
    BY <1>10 DEF CallPick, CallRemove
  <2>3. OthersKept(w) /\ PathKept(w)
    BY <1>3, <1>10, <2>1, <2>2, PlainKept DEF Typed
  <2>. QED
    BY <1>1, <1>5, <2>1, <2>3 DEF Quiet
<1>11. CASE CallUnite(w, s, s2, back)
  <2>1. /\ loc' = [loc EXCEPT ![w].unite = [NoUnite EXCEPT !.a = s, !.b = s2]]
        /\ CallFind(w, s, <<back, "unite_a">>)
    BY <1>11 DEF CallUnite
  <2>2. /\ loc'[w].unite = [NoUnite EXCEPT !.a = s, !.b = s2]
        /\ \A x \in Worker \ {w} : loc'[x] = loc[x]
    BY <2>1 DEF Typed, LocTyped, Locals
  <2>. QED
    BY <1>1, <1>5, <2>1, <2>2, CallFindKept DEF Typed, NoUnite, Quiet
<1>. QED
  BY <1>2, <1>6, <1>7, <1>8, <1>9, <1>10, <1>11

\* So it keeps what is known of the structure, and undoes nothing.
LEMMA CallerStepKeeps ==
  ASSUME NEW callers, Typed(callers), Outside(callers), Upward, Locked, NEW w \in Worker, CallerStep(w, callers)
  PROVE  Typed(callers)' /\ Upward' /\ Locked' /\ NothingUndone
<1>1. Quiet(w) /\ Typed(callers)'
  BY CallerQuiet, CallerTyped
<1>2. Upward' /\ Locked'
  BY <1>1, QuietStep DEF Quiet, UfKept
<1>3. Node \subseteq Slot
  BY DEF Node, Slot
<1>. QED
  BY <1>1, <1>2, <1>3 DEF Quiet, UfKept, NothingUndone

\* And a step that leaves the union-find alone keeps everything.
LEMMA StutterKeeps ==
  ASSUME NEW callers, SetsInv(callers), UNCHANGED <<uf, G_Color, pc, stack, ret, path, loc>>
  PROVE  SetsInv(callers)' /\ Root' = Root /\ \A w \in Worker : Alone(w)
<1>1. Root' = Root
  BY DEF Root
<1>2. Typed(callers)' /\ Upward' /\ Locked' /\ Outside(callers)'
  <2>1. Typed(callers)' /\ Outside(callers)'
    BY DEF SetsInv, Typed, UfTyped, LocTyped, ControlTyped, Outside
  <2>2. Upward'
    BY DEF SetsInv, Upward, ParentIncreasing, Ascending
  <2>3. \A w \in Worker : HoldsUf(w)' = HoldsUf(w) /\ HoldsList(w)' = HoldsList(w)
    BY DEF HoldsUf, HoldsList
  <2>4. Locked'
    BY <2>3 DEF SetsInv, Locked
  <2>. QED
    BY <2>1, <2>2, <2>4
<1>3. \A w \in Worker : (\A l : Awaits(w, l)' <=> Awaits(w, l))
  BY DEF Awaits
<1>4. \A w \in Worker : Region(w)' = Region(w) /\ Linking(w)' = Linking(w) /\ Joined(w)' = Joined(w)
  BY <1>3 DEF Region, Linking, Joined
<1>5. \A w \in Worker : Knows(w, callers)'
  BY <1>1, <1>3, <1>4 DEF SetsInv, Knows, InCall, PathOne, QRoot, UniteSets
<1>6. OneHolder'
  BY DEF SetsInv, OneHolder, Holding
<1>. QED
  BY <1>1, <1>2, <1>5, <1>6 DEF SetsInv, Alone, OthersKept

-----------------------------------------------------------------------------
(* sameset: its answer "same" is true *)

\* Where the call of the program that w is in returns to
Home(w) == IF stack[w] = <<>> THEN pc[w] ELSE stack[w][1]

\* No step of the union-find forgets it.
LEMMA UFStepHome ==
  ASSUME NEW callers, Typed(callers), Outside(callers), NEW w \in Worker, InCall(w, callers), UFStep(w)
  PROVE  Home(w)' = Home(w)
<1> DEFINE Kept == Home(w)' = Home(w)
<1> SUFFICES Kept
  OBVIOUS
<1>1. pc[w] \in Labels
  BY DEF UFStep, FindRead, FindCompress, ClaimDead, ClaimFound, ClaimOr, ClaimCheck, SameB, SameA,
     SameRetry, PickA, PickNext, PickB, PickC, PickCompare, PickWrite, MarkDead, Remove, RemoveColor,
     UniteFindB, UniteRoots, LockUf, LockUfCheck, LockUfUndo, LockListA, LockListB, SwapLists, SetParent,
     ReadQw, CompareRw, AddQw, CheckR, FoundR, UnlockListA, UnlockListB, UnlockUf, Labels
<1>2. PICK c \in callers :
       \/ pc[w] \in Labels /\ stack[w] = <<c>>
       \/ pc[w] \in FindLabels /\ \E b \in FindBacks \cup {"mark_dead"} : stack[w] = <<c, b>>
       \/ pc[w] \in PickLabels /\ \E l \in ListLabels : stack[w] = <<c, l>>
       \/ pc[w] \in FindLabels /\ \E l \in ListLabels : stack[w] = <<c, l, "mark_dead">>
  BY <1>1 DEF InCall, Outside
<1>3. Home(w) = c /\ stack[w] # <<>>
  <2>1. ASSUME stack[w] = <<c>> PROVE stack[w] # <<>> /\ stack[w][1] = c
    BY <2>1
  <2>2. ASSUME NEW b, stack[w] = <<c, b>> PROVE stack[w] # <<>> /\ stack[w][1] = c
    BY <2>2
  <2>3. ASSUME NEW b, NEW d, stack[w] = <<c, b, d>> PROVE stack[w] # <<>> /\ stack[w][1] = c
    BY <2>3
  <2>. QED
    BY <1>2, <2>1, <2>2, <2>3 DEF Home
<1>4. stack[w] # <<>>
  BY <1>3
<1>5. \A label : (Goto(w, label) \/ Resume(w, label) \/ UNCHANGED stack) => Kept
  BY <1>4 DEF Goto, Resume, Home
<1>6. ASSUME NEW label, NEW b, Call(w, label, <<b>>)
      PROVE  Kept
  <2>1. stack'[w] = stack[w] \o <<b>>
    BY <1>6 DEF Typed, ControlTyped, Call
  <2>2. stack[w] \in Seq(Back(callers)) /\ Len(stack[w]) > 0
    BY <1>4, EmptySeq DEF Typed, ControlTyped
  <2>3. stack'[w] # <<>> /\ stack'[w][1] = stack[w][1]
    <3> DEFINE s == stack[w]
               T == Back(callers) \cup {b}
    <3>1. s \in Seq(T) /\ <<b>> \in Seq(T) /\ Len(s) > 0
      BY <2>2
    <3> HIDE DEF s, T
    <3>2. Len(s \o <<b>>) > 0 /\ (s \o <<b>>)[1] = s[1]
      BY <3>1
    <3>3. s \o <<b>> # <<>>
      BY <3>2
    <3>. QED
      BY <2>1, <3>2, <3>3 DEF s
  <2>. QED
    BY <1>4, <2>3 DEF Home
<1>7. ASSUME NEW s, NEW b, CallFind(w, s, <<b>>)
      PROVE  Kept
  BY <1>6, <1>7 DEF CallFind
<1>8. ASSUME NEW s, NEW b, CallPick(w, s, <<b>>)
      PROVE  Kept
  BY <1>6, <1>8 DEF CallPick
<1>9. ASSUME NEW code, NEW node, Return(w, code, node)
      PROVE  Kept
  <2>1. /\ pc'[w] = stack[w][Len(stack[w])] /\ stack'[w] = SubSeq(stack[w], 1, Len(stack[w]) - 1)
    BY <1>9 DEF Typed, ControlTyped, Return
  <2>2. CASE stack[w] = <<c>>
    <3>1. pc'[w] = c /\ stack'[w] = <<>>
      BY <2>1, <2>2, PopOne
    <3>. QED
      BY <1>3, <3>1 DEF Home
  <2>3. ASSUME NEW b \in FindBacks \cup {"mark_dead"} \cup ListLabels, stack[w] = <<c, b>>
        PROVE  Kept
    <3>1. stack'[w] = <<c>>
      BY <2>1, <2>3, PopTwo
    <3>2. stack'[w] # <<>> /\ stack'[w][1] = c
      BY <3>1
    <3>. QED
      BY <1>3, <3>2 DEF Home
  <2>4. ASSUME NEW l \in ListLabels, NEW d \in {"mark_dead"}, stack[w] = <<c, l, d>>
        PROVE  Kept
    <3> DEFINE s == stack[w]
    <3>0. s = <<c, l, d>> /\ stack'[w] = SubSeq(s, 1, Len(s) - 1)
      BY <2>1, <2>4
    <3> HIDE DEF s
    <3>1. stack'[w] = <<c, l>>
      BY <3>0, PopThree
    <3>2. stack'[w] # <<>> /\ stack'[w][1] = c
      BY <3>1
    <3>. QED
      BY <1>3, <3>2 DEF Home
  <2>. QED
    BY <1>2, <2>2, <2>3, <2>4
<1>10. UNCHANGED control => Kept
  BY <1>5 DEF control
<1> HIDE DEF Kept
<1>11. CASE FindRead(w) \/ FindCompress(w)
  BY <1>5, <1>9, <1>10, <1>11 DEF FindRead, FindCompress
<1>12. CASE ClaimDead(w) \/ ClaimFound(w) \/ ClaimOr(w) \/ ClaimCheck(w)
  BY <1>5, <1>7, <1>9, <1>12 DEF ClaimDead, ClaimFound, ClaimOr, ClaimCheck
<1>13. CASE SameB(w) \/ SameA(w) \/ SameRetry(w)
  BY <1>5, <1>7, <1>9, <1>13 DEF SameB, SameA, SameRetry, SameReturn
<1>14. CASE \/ PickA(w) \/ PickNext(w) \/ PickB(w) \/ PickC(w) \/ PickCompare(w) \/ PickWrite(w)
            \/ MarkDead(w) \/ Remove(w) \/ RemoveColor(w)
  BY <1>5, <1>7, <1>9, <1>14 DEF PickA, PickNext, PickB, PickC, PickCompare, PickWrite, MarkDead,
       Remove, RemoveColor, PickReturn, ContinueFromC
<1>15. CASE UniteFindB(w) \/ UniteRoots(w) \/ LockUf(w) \/ LockUfCheck(w) \/ LockUfUndo(w)
  BY <1>5, <1>7, <1>8, <1>9, <1>15 DEF UniteFindB, UniteRoots, LockUf, LockUfCheck, LockUfUndo,
       UniteReturn, UniteRetry
<1>16. CASE LockListA(w) \/ LockListB(w)
  BY <1>5, <1>6, <1>8, <1>9, <1>16 DEF LockListA, LockListB, UniteReturn
<1>17. CASE \/ SwapLists(w) \/ SetParent(w) \/ ReadQw(w) \/ CompareRw(w) \/ AddQw(w) \/ CheckR(w)
            \/ FoundR(w) \/ UnlockListA(w) \/ UnlockListB(w) \/ UnlockUf(w)
  BY <1>5, <1>7, <1>9, <1>17 DEF SwapLists, SetParent, ReadQw, CompareRw, AddQw, CheckR, FoundR,
       UnlockListA, UnlockListB, UnlockUf, UniteReturn
<1>. QED
  BY <1>11, <1>12, <1>13, <1>14, <1>15, <1>16, <1>17 DEF UFStep

SameLabels == {"same_b", "same_a", "same_retry"}
Verdicts == {"same", "different"}

\* What sameset (x, y) knows: the states it has found, of the sets of x and y
SameSets(w, x, y) ==
  LET s == loc[w].same
  IN  /\ Awaits(w, "same_b") => Root[s.a] = Root[x] /\ Root[path[w][1]] = Root[y]
      /\ pc[w] = "same_b" => Root[s.a] = Root[x] /\ Root[ret[w].node] = Root[y]
      /\ pc[w] = "same_a" => Root[s.a] = Root[x] /\ Root[s.b] = Root[y]
      /\ Awaits(w, "same_retry") => Root[path[w][1]] = Root[x] /\ Root[s.b] = Root[y]
      /\ pc[w] = "same_retry" => Root[ret[w].node] = Root[x] /\ Root[s.b] = Root[y]
      /\ ret[w].code = "same" => Root[x] = Root[y]

\* The other functions give no such answer, nor do they call for sameset.
LEMMA NotSame ==
  ASSUME NEW callers, Typed(callers), Outside(callers), NEW w \in Worker, InCall(w, callers), UFStep(w),
         ~FindRead(w), ~FindCompress(w), ~SameB(w), ~SameA(w), ~SameRetry(w)
  PROVE  /\ ret'[w] = ret[w] \/ ret'[w].code \notin Verdicts
         /\ pc'[w] \notin SameLabels /\ ~Awaits(w, "same_b")' /\ ~Awaits(w, "same_retry")'
<1> DEFINE Done == /\ ret'[w] = ret[w] \/ ret'[w].code \notin Verdicts
                   /\ pc'[w] \notin SameLabels /\ ~Awaits(w, "same_b")' /\ ~Awaits(w, "same_retry")'
           Outer == pc[w] \in Labels \ (FindLabels \cup PickLabels)
<1> SUFFICES Done
  OBVIOUS
<1>1. callers \cap SameLabels = {} /\ {"find", "pick_a"} \cap SameLabels = {}
      /\ SameLabels \cap (PickLabels \cup ListLabels) = {} /\ SameLabels \cap FindLabels = {}
      /\ {"same_b", "same_retry"} \subseteq FindBacks
  BY DEF Outside, SameLabels, Labels, PickLabels, ListLabels, FindLabels, FindBacks
<1>2. loc[w].pick.a \in Slot /\ loc[w].unite.a \in Slot /\ loc[w].unite.b \in Slot
      /\ loc[w].unite.up \in Slot /\ ret[w].node \in Slot
  BY LocalsTyped DEF Typed, ControlTyped
<1>3. \A label : Goto(w, label) => ret'[w] = ret[w]
  BY DEF Goto
<1>4. \A label : Resume(w, label) => ret'[w].code \notin Verdicts
  BY DEF Resume, Typed, ControlTyped, NoRet, Verdicts
<1>5. \A label, backs : Call(w, label, backs) => ret'[w].code \notin Verdicts
  BY DEF Call, Typed, ControlTyped, NoRet, Verdicts
<1>6. \A code, node : Return(w, code, node) => ret'[w].code = code
  BY DEF Return, Typed, ControlTyped
<1>7. ASSUME Outer, NEW label \in Labels \ (FindLabels \cup SameLabels), Goto(w, label) \/ Resume(w, label)
      PROVE  Done
  <2>1. pc'[w] = label /\ \A l : ~Awaits(w, l)'
    BY <1>7, Moved
  <2>. QED
    BY <1>3, <1>4, <1>7, <2>1
<1>8. ASSUME Outer, NEW s \in Slot, NEW b \in FindBacks \ SameLabels, CallFind(w, s, <<b>>)
      PROVE  Done
  <2>1. pc'[w] = "find" /\ \A l : Awaits(w, l)' <=> l = b
    BY <1>8, FindCalled
  <2>. QED
    BY <1>1, <1>5, <1>8, <2>1 DEF CallFind, SameLabels
<1>9. ASSUME Outer, NEW l \in ListLabels, Call(w, "pick_a", <<l>>)
      PROVE  Done
  <2>1. pc'[w] = "pick_a" /\ \A k : Awaits(w, k)' <=> k = l
    BY <1>9, AwaitsPush
  <2>. QED
    BY <1>1, <1>5, <1>9, <2>1 DEF SameLabels
<1>10. ASSUME Outer, NEW code \in Codes \ Verdicts, NEW node, Return(w, code, node)
       PROVE  Done
  <2>1. pc'[w] \in callers /\ \A l : ~Awaits(w, l)'
    BY <1>10, Returned
  <2>. QED
    BY <1>1, <1>6, <1>10, <2>1
<1>11. ASSUME pc[w] \in PickLabels, NEW label \in PickLabels, Goto(w, label)
       PROVE  Done
  <2>1. pc'[w] = label /\ stack' = stack
    BY <1>11 DEF Goto, Typed, ControlTyped
  <2>2. pc[w] \notin FindLabels
    BY <1>11, LabelSets
  <2>3. ~Awaits(w, "same_b") /\ ~Awaits(w, "same_retry")
    BY <1>1, <2>2, AwaitsWhere
  <2>. QED
    BY <1>1, <1>3, <1>11, <2>1, <2>3 DEF Awaits
<1>12. ASSUME pc[w] \in PickLabels, NEW s, CallFind(w, s, <<"mark_dead">>)
       PROVE  Done
  <2>1. pc'[w] = "find" /\ \A l : Awaits(w, l)' <=> Awaits(w, l) \/ (l = "mark_dead" /\ \A k : ~Awaits(w, k))
    BY <1>12, AwaitsMark DEF CallFind
  <2>2. pc[w] \notin FindLabels
    BY <1>12, LabelSets
  <2>3. ~Awaits(w, "same_b") /\ ~Awaits(w, "same_retry")
    BY <1>1, <2>2, AwaitsWhere
  <2>. QED
    BY <1>1, <1>5, <1>12, <2>1, <2>3 DEF CallFind
<1>13. ASSUME pc[w] \in PickLabels, NEW code \in Codes \ Verdicts, NEW node, Return(w, code, node)
       PROVE  Done
  <2>1. pc[w] \notin FindLabels /\ pc[w] \in Labels
    BY <1>13, LabelSets
  <2>2. \/ pc'[w] \in callers /\ (\A l : ~Awaits(w, l)')
        \/ pc'[w] \in ListLabels /\ \A l : ~Awaits(w, l)'
    BY <1>13, <2>1, AwaitsReturn
  <2>. QED
    BY <1>1, <1>6, <1>13, <2>2
<1> HIDE DEF Done
<1>14. CASE ClaimDead(w) \/ ClaimFound(w) \/ ClaimOr(w) \/ ClaimCheck(w)
  <2>1. Outer /\ {"claim_found", "claim_or", "claim_check"} \subseteq Labels \ (FindLabels \cup SameLabels)
    BY <1>14 DEF ClaimDead, ClaimFound, ClaimOr, ClaimCheck, Labels, FindLabels, PickLabels, SameLabels
  <2>2. "claim_again" \in FindBacks \ SameLabels
        /\ {"CLAIM_DEAD", "CLAIM_FOUND", "CLAIM_FIRST", "CLAIM_SUCCESS"} \subseteq Codes \ Verdicts
    BY DEF FindBacks, SameLabels, Codes, Verdicts
  <2>. QED
    BY <1>2, <1>7, <1>8, <1>10, <1>14, <2>1, <2>2 DEF ClaimDead, ClaimFound, ClaimOr, ClaimCheck
<1>15. CASE PickA(w) \/ PickNext(w) \/ PickB(w) \/ PickC(w) \/ PickCompare(w) \/ PickWrite(w) \/ MarkDead(w)
  <2>1. pc[w] \in PickLabels
        /\ {"pick_a", "pick_next", "pick_b", "pick_c", "pick_compare", "pick_write"} \subseteq PickLabels
    BY <1>15 DEF PickA, PickNext, PickB, PickC, PickCompare, PickWrite, MarkDead, PickLabels
  <2>2. {"PICK_SUCCESS", "PICK_MARK_DEAD", "PICK_DEAD"} \subseteq Codes \ Verdicts
    BY DEF Codes, Verdicts
  <2>. QED
    BY <1>11, <1>12, <1>13, <1>15, <2>1, <2>2 DEF PickA, PickNext, PickB, PickC, PickCompare, PickWrite,
       MarkDead, PickReturn, ContinueFromC
<1>16. CASE Remove(w) \/ RemoveColor(w)
  <2>1. Outer /\ "remove_color" \in Labels \ (FindLabels \cup SameLabels) /\ "removed" \in Codes \ Verdicts
    BY <1>16 DEF Remove, RemoveColor, Labels, FindLabels, PickLabels, SameLabels, Codes, Verdicts
  <2>. QED
    BY <1>7, <1>10, <1>16, <2>1 DEF Remove, RemoveColor, PickReturn
<1>17. CASE UniteFindB(w) \/ UniteRoots(w) \/ LockUf(w) \/ LockUfCheck(w) \/ LockUfUndo(w)
  <2>1. Outer /\ {"lock_uf", "lock_uf_check", "lock_uf_undo"} \subseteq Labels \ (FindLabels \cup SameLabels)
    BY <1>17 DEF UniteFindB, UniteRoots, LockUf, LockUfCheck, LockUfUndo, Labels, FindLabels, PickLabels, SameLabels
  <2>2. {"unite_a", "unite_b"} \subseteq FindBacks \ SameLabels /\ "united" \in Codes \ Verdicts
        /\ "list_a" \in ListLabels
    BY DEF FindBacks, SameLabels, Codes, Verdicts, ListLabels
  <2>. QED
    BY <1>2, <1>7, <1>8, <1>9, <1>10, <1>17, <2>1, <2>2 DEF UniteFindB, UniteRoots, LockUf, LockUfCheck,
       LockUfUndo, UniteReturn, UniteRetry, CallPick
<1>18. CASE LockListA(w) \/ LockListB(w)
  <2>1. Outer /\ "swap" \in Labels \ (FindLabels \cup SameLabels)
    BY <1>18 DEF LockListA, LockListB, Labels, FindLabels, PickLabels, SameLabels
  <2>2. "united" \in Codes \ Verdicts /\ {"list_a", "list_b"} \subseteq ListLabels
    BY DEF Codes, Verdicts, ListLabels
  <2>. QED
    BY <1>7, <1>9, <1>10, <1>18, <2>1, <2>2 DEF LockListA, LockListB, UniteReturn, CallPick
<1>19. CASE \/ SwapLists(w) \/ SetParent(w) \/ ReadQw(w) \/ CompareRw(w) \/ AddQw(w) \/ CheckR(w)
            \/ FoundR(w) \/ UnlockListA(w) \/ UnlockListB(w) \/ UnlockUf(w)
  <2>1. Outer
    BY <1>19 DEF SwapLists, SetParent, ReadQw, CompareRw, AddQw, CheckR, FoundR, UnlockListA, UnlockListB,
       UnlockUf, Labels, FindLabels, PickLabels
  <2>2. {"set_parent", "read_qw", "compare_rw", "add_qw", "unlock_a", "check_r", "unlock_b", "unlock_uf"}
           \subseteq Labels \ (FindLabels \cup SameLabels)
    BY DEF Labels, FindLabels, SameLabels
  <2>3. "united" \in Codes \ Verdicts /\ "found_r" \in FindBacks \ SameLabels
    BY DEF Codes, Verdicts, FindBacks, SameLabels
  <2>. QED
    BY <1>2, <1>7, <1>8, <1>10, <1>19, <2>1, <2>2, <2>3 DEF SwapLists, SetParent, ReadQw, CompareRw, AddQw,
       CheckR, FoundR, UnlockListA, UnlockListB, UnlockUf, UniteReturn
<1>. QED
  BY <1>14, <1>15, <1>16, <1>17, <1>18, <1>19 DEF UFStep

\* What sameset knows stays true, and its answer "same" is.
LEMMA UFStepSame ==
  ASSUME NEW callers, SetsInv(callers), NEW w \in Worker, UFStep(w),
         NEW x \in Slot, NEW y \in Slot, SameSets(w, x, y)
  PROVE  SameSets(w, x, y)'
<1> DEFINE s == loc[w].same
<1>1. Typed(callers) /\ Outside(callers) /\ InCall(w, callers)
  BY DEF SetsInv, Knows
<1>2. Coarser /\ Typed(callers)' /\ Upward'
  BY UFStepSets DEF SetsInv
<1>3. s.a \in Slot /\ s.b \in Slot /\ ret[w].node \in Slot /\ loc \in [Worker -> Locals] /\ loc[w].same \in Sames
  BY <1>1, LocalsTyped DEF Typed, ControlTyped, LocTyped
<1>4. Root[x] = Root[y] => Root'[x] = Root'[y]
  BY <1>2 DEF Coarser
<1>5. CASE ~FindRead(w) /\ ~FindCompress(w) /\ ~SameB(w) /\ ~SameA(w) /\ ~SameRetry(w)
  <2>1. /\ ret'[w] = ret[w] \/ ret'[w].code # "same"
        /\ pc'[w] \notin SameLabels /\ ~Awaits(w, "same_b")' /\ ~Awaits(w, "same_retry")'
    BY <1>1, <1>5, NotSame DEF Verdicts
  <2>. QED
    BY <1>4, <2>1 DEF SameSets, SameLabels
<1>6. CASE FindRead(w) \/ FindCompress(w)
  <2>1. Root' = Root /\ loc' = loc
    BY <1>2, <1>6, FindOutcome
  <2>2. CASE /\ pc'[w] \in FindLabels /\ stack' = stack /\ path'[w][1] = path[w][1]
             /\ pc[w] = "find" /\ pc'[w] = "compress" => ret'[w].node = Root[path[w][1]]
             /\ pc[w] = "compress" => pc'[w] = "compress" /\ ret'[w] = ret[w]
    <3>1. pc'[w] \notin SameLabels
      BY <2>2 DEF SameLabels, FindLabels
    <3>2. \A l : Awaits(w, l)' <=> Awaits(w, l)
      BY <2>2 DEF Awaits
    <3>3. ret'[w] = ret[w] \/ ret'[w].code # "same"
      <4>1. \A code, node : Return(w, code, node) => ret'[w].code = code
        BY <1>1 DEF Return, Typed, ControlTyped
      <4>. QED
        BY <1>1, <1>6, <4>1 DEF FindRead, FindCompress, Typed, ControlTyped, control
    <3>. QED
      BY <2>1, <2>2, <3>1, <3>2, <3>3 DEF SameSets, SameLabels
  <2>3. ASSUME NEW node \in Slot, Return(w, "find", node), Root[node] = Root[path[w][1]]
        PROVE  SameSets(w, x, y)'
    <3> DEFINE code == "find"
    <3>1. Return(w, code, node) /\ pc[w] \in FindLabels /\ pc[w] \in Labels
      BY <1>6, <2>3 DEF FindRead, FindCompress, FindLabels, Labels
    <3> HIDE DEF code
    <3>2. ret'[w] = [code |-> code, node |-> node]
      BY <1>1, <3>1, AwaitsReturn
    <3>3. ret'[w].node = node /\ ret'[w].code # "same"
      BY <3>2 DEF code
    <3>4. \/ pc'[w] \in callers /\ (\A l : ~Awaits(w, l)')
          \/ pc'[w] = "mark_dead" /\ ((\A l : Awaits(w, l)' <=> Awaits(w, l)) \/ (\A l : ~Awaits(w, l)'))
          \/ pc'[w] \in FindBacks /\ Awaits(w, pc'[w]) /\ \A l : ~Awaits(w, l)'
          \/ pc[w] \in PickLabels
      BY <1>1, <3>1, AwaitsReturn
    <3>5. pc[w] \notin PickLabels /\ callers \cap SameLabels = {} /\ "mark_dead" \notin SameLabels
          /\ "same_a" \notin FindBacks
      BY <1>1, <3>1, LabelSets DEF Outside, SameLabels, Labels, PickLabels, FindBacks, FindLabels
    <3>6. CASE pc'[w] \in callers /\ (\A l : ~Awaits(w, l)')
      BY <3>3, <3>5, <3>6 DEF SameSets, SameLabels
    <3>7. CASE pc'[w] = "mark_dead"
      <4>1. InCall(w, callers)' /\ Outside(callers)' /\ pc'[w] \notin FindLabels
        BY <1>1, <3>7, UFStepInCall DEF Outside, FindLabels
      <4>2. {"same_b", "same_retry"} \subseteq FindBacks
        BY DEF FindBacks
      <4>3. (Outside(callers) /\ InCall(w, callers) => \A b \in FindBacks : Awaits(w, b) => pc[w] \in FindLabels)'
        <5>1. ASSUME NEW c, NEW d, stack'[w] = <<>> \/ stack'[w] = <<c>>
              PROVE  \A l : ~Awaits(w, l)'
          BY <5>1 DEF Awaits
        <5>2. ASSUME NEW c, NEW b, stack'[w] = <<c, b>>
              PROVE  \A l : Awaits(w, l)' => l = b
          BY <5>2 DEF Awaits
        <5>3. ASSUME NEW c, NEW l, NEW d, stack'[w] = <<c, l, d>>
              PROVE  \A k : Awaits(w, k)' => k = l
          BY <5>3 DEF Awaits
        <5>. QED
          BY <5>1, <5>2, <5>3, LabelSets DEF InCall
      <4>4. ~Awaits(w, "same_b")' /\ ~Awaits(w, "same_retry")'
        BY <4>1, <4>2, <4>3
      <4>. QED
        BY <3>3, <3>5, <3>7, <4>4 DEF SameSets, SameLabels
    <3>8. CASE pc'[w] \in FindBacks /\ Awaits(w, pc'[w]) /\ \A l : ~Awaits(w, l)'
      BY <2>1, <2>3, <3>3, <3>5, <3>8 DEF SameSets
    <3>. QED
      BY <3>4, <3>5, <3>6, <3>7, <3>8
  <2>. QED
    BY <1>2, <1>6, <2>2, <2>3, FindOutcome
<1>7. CASE SameB(w) \/ SameA(w) \/ SameRetry(w)
  <2>1. Root' = Root
    <3>1. UNCHANGED <<uf, G_Color>>
      BY <1>7 DEF SameB, SameA, SameRetry
    <3>2. \A n \in Slot : uf'[n].parent = uf[n].parent
      BY <3>1
    <3>. QED
      BY <1>1, <1>2, <3>2, RootKept DEF Typed
  <2>2. pc[w] \in Labels \ (FindLabels \cup PickLabels)
    BY <1>7 DEF SameB, SameA, SameRetry, Labels, FindLabels, PickLabels
  <2>3. callers \cap SameLabels = {} /\ "same_a" \in Labels \ FindLabels
    BY <1>1 DEF Outside, SameLabels, Labels, FindLabels
  <2>4. \A code : SameReturn(w, code) => /\ ret'[w].code = code /\ pc'[w] \notin SameLabels
                                         /\ \A l : ~Awaits(w, l)'
    <3>1. ASSUME NEW code, SameReturn(w, code)
          PROVE  ret'[w].code = code /\ pc'[w] \notin SameLabels /\ \A l : ~Awaits(w, l)'
      <4>1. Return(w, code, 0)
        BY <3>1 DEF SameReturn
      <4>2. ret'[w].code = code
        BY <1>1, <4>1 DEF Return, Typed, ControlTyped
      <4>3. pc'[w] \in callers /\ \A l : ~Awaits(w, l)'
        BY <1>1, <2>2, <4>1, Returned
      <4>. QED
        BY <2>3, <4>2, <4>3
    <3>. QED
      BY <3>1
  <2>5. ASSUME NEW n \in Slot, NEW b, CallFind(w, n, <<b>>)
        PROVE  /\ pc'[w] \notin SameLabels /\ path'[w][1] = n /\ ret'[w].code # "same"
               /\ \A l : Awaits(w, l)' <=> l = b
    <3>1. pc'[w] = "find" /\ path'[w][1] = n /\ \A l : Awaits(w, l)' <=> l = b
      BY <1>1, <2>2, <2>5, FindCalled
    <3>2. ret'[w].code # "same"
      BY <1>1, <2>5 DEF CallFind, Call, Typed, ControlTyped, NoRet
    <3>. QED
      BY <3>1, <3>2 DEF SameLabels
  <2>6. ret[w].node \in Slot
    BY <1>3
  <2>7. CASE SameB(w)
    <3>1. CASE s.a = ret[w].node /\ SameReturn(w, "same")
      <4>1. Root[x] = Root[y]
        BY <1>7, <2>7, <3>1 DEF SameB, SameSets
      <4>. QED
        BY <2>1, <2>4, <3>1, <4>1 DEF SameSets, SameLabels
    <3>2. CASE SameReturn(w, "different")
      BY <2>4, <3>2 DEF SameSets, SameLabels
    <3>3. CASE loc' = [loc EXCEPT ![w].same.b = ret[w].node] /\ Resume(w, "same_a")
      <4>1. pc'[w] = "same_a" /\ \A l : ~Awaits(w, l)'
        BY <1>1, <2>2, <2>3, <3>3, Moved
      <4>2. ret'[w].code # "same"
        BY <1>1, <3>3 DEF Resume, Typed, ControlTyped, NoRet
      <4>3. loc'[w].same = [s EXCEPT !.b = ret[w].node]
        BY <1>3, <3>3 DEF Locals
      <4>4. loc'[w].same.a = s.a /\ loc'[w].same.b = ret[w].node
        BY <1>3, <4>3 DEF Sames
      <4>. QED
        BY <2>1, <2>7, <4>1, <4>2, <4>4 DEF SameSets, SameB
    <3>. QED
      BY <2>7, <3>1, <3>2, <3>3 DEF SameB
  <2>8. CASE SameA(w)
    <3>1. CASE SameReturn(w, "different")
      BY <2>4, <3>1 DEF SameSets, SameLabels
    <3>2. CASE CallFind(w, s.a, <<"same_retry">>) /\ UNCHANGED loc
      BY <1>3, <2>1, <2>5, <2>8, <3>2 DEF SameSets, SameA, SameLabels
    <3>. QED
      BY <2>8, <3>1, <3>2 DEF SameA
  <2>9. CASE SameRetry(w)
    <3>1. CASE OneRoot(ret[w].node, s.b) /\ SameReturn(w, "same")
      <4>1. Root[x] = Root[y]
        BY <2>9, <3>1 DEF SameRetry, SameSets, OneRoot
      <4>. QED
        BY <2>1, <2>4, <3>1, <4>1 DEF SameSets, SameLabels
    <3>2. CASE loc' = [loc EXCEPT ![w].same = [a |-> ret[w].node, b |-> 0]] /\ CallFind(w, s.b, <<"same_b">>)
      <4>1. loc'[w].same.a = ret[w].node
        BY <1>3, <3>2 DEF Locals
      <4>. QED
        BY <1>3, <2>1, <2>5, <2>9, <3>2, <4>1 DEF SameSets, SameRetry, SameLabels
    <3>. QED
      BY <2>9, <3>1, <3>2 DEF SameRetry
  <2>. QED
    BY <1>7, <2>7, <2>8, <2>9
<1>. QED
  BY <1>5, <1>6, <1>7

\* A call of sameset (x, y) starts with what it is about.
LEMMA SamesetCalled ==
  ASSUME NEW callers, Typed(callers), Outside(callers), NEW w \in Worker, InCall(w, callers), pc[w] \in callers,
         NEW x \in Slot, NEW y \in Slot, NEW back \in callers, CallSameset(w, x, y, back), Root' = Root
  PROVE  SameSets(w, x, y)' /\ Home(w)' = back
<1>1. back \notin SameLabels /\ {"find"} \cap SameLabels = {}
  BY DEF Outside, SameLabels, Labels
<1>2. stack[w] = <<>>
  <2>1. pc[w] \notin Labels
    BY DEF Outside
  <2>2. pc[w] \notin FindLabels \cup PickLabels
    BY <2>1, LabelSets
  <2>. QED
    BY <2>1, <2>2 DEF InCall
<1>3. CASE x = y
  <2>1. pc'[w] = back /\ stack'[w] = <<>>
    BY <1>2, <1>3 DEF CallSameset, Typed, ControlTyped
  <2>2. \A l : ~Awaits(w, l)'
    BY <2>1 DEF Awaits
  <2>. QED
    BY <1>1, <1>3, <2>1, <2>2 DEF SameSets, SameLabels, Home
<1>4. CASE x # y
  <2>1. loc' = [loc EXCEPT ![w].same.a = x] /\ CallFind(w, y, <<back, "same_b">>)
    BY <1>4 DEF CallSameset
  <2>2. /\ pc'[w] = "find" /\ stack'[w] = stack[w] \o <<back, "same_b">> /\ path'[w] = <<y>>
        /\ ret'[w].code # "same"
    BY <2>1 DEF CallFind, Call, Typed, ControlTyped, NoRet
  <2>3. loc[w] \in Locals /\ loc[w].same \in Sames
    BY LocalsTyped DEF Typed, LocTyped
  <2>4. loc'[w].same = [loc[w].same EXCEPT !.a = x]
    BY <2>1, <2>3 DEF Typed, LocTyped, Locals
  <2>5. loc'[w].same.a = x /\ path'[w][1] = y
    BY <2>2, <2>3, <2>4 DEF Sames
  <2>6. ASSUME NEW b \in {"same_b"}, stack'[w] = stack[w] \o <<back, b>>
        PROVE  stack'[w] # <<>> /\ stack'[w][1] = back /\ \A l : Awaits(w, l)' <=> l = b
    <3>1. stack'[w] = <<back, b>>
      BY <1>2, <2>6, PushBoth
    <3>. QED
      BY <3>1 DEF Awaits
  <2>7. stack'[w] # <<>> /\ stack'[w][1] = back /\ \A l : Awaits(w, l)' <=> l = "same_b"
    BY <2>2, <2>6
  <2>. QED
    BY <1>1, <2>2, <2>5, <2>7 DEF SameSets, SameLabels, Home
<1>. QED
  BY <1>3, <1>4

\* What another worker's sameset knows stays true.
LEMMA OthersSame ==
  ASSUME NEW callers, SetsInv(callers), NEW w \in Worker, Alone(w), Coarser, NEW t \in Worker \ {w},
         NEW x \in Slot, NEW y \in Slot, SameSets(t, x, y)
  PROVE  SameSets(t, x, y)' /\ Home(t)' = Home(t)
<1>1. /\ pc'[t] = pc[t] /\ stack'[t] = stack[t] /\ ret'[t] = ret[t]
      /\ path'[t] = path[t] /\ loc'[t] = loc[t]
  BY DEF Alone, OthersKept
<1>2. \A l : Awaits(t, l)' <=> Awaits(t, l)
  BY <1>1 DEF Awaits
<1>3. /\ loc[t].same.a \in Slot /\ loc[t].same.b \in Slot /\ ret[t].node \in Slot /\ path[t] \in Seq(Slot)
      /\ pc[t] \in FindLabels => path[t] # <<>>
  BY LocalsTyped DEF SetsInv, Typed, ControlTyped, FindLabels
<1>4. {"same_b", "same_retry"} \subseteq FindBacks
  BY DEF FindBacks
<1>5. Awaits(t, "same_b") \/ Awaits(t, "same_retry") => path[t][1] \in Slot
  <2>1. Awaits(t, "same_b") \/ Awaits(t, "same_retry") => pc[t] \in FindLabels
    BY <1>4, AwaitsWhere DEF SetsInv, Knows
  <2>2. path[t] # <<>> => path[t][1] \in Slot
    BY <1>3, EmptySeq
  <2>. QED
    BY <1>3, <2>1, <2>2
<1>6. SameSets(t, x, y)'
  BY <1>1, <1>2, <1>3, <1>5 DEF SameSets, Coarser
<1>. QED
  BY <1>1, <1>6 DEF Home

\* A call of the program returns to the label it names.
LEMMA CallerHome ==
  ASSUME NEW callers, Typed(callers), Outside(callers), NEW w \in Worker, InCall(w, callers), pc[w] \in callers,
         NEW back, NEW s, NEW s2,
         \/ Goto(w, back) \/ Resume(w, back)
         \/ CallFind(w, s, <<back>>) \/ CallClaim(w, s, back)
         \/ CallPick(w, s, <<back>>) \/ CallRemove(w, s, back)
         \/ CallUnite(w, s, s2, back)
  PROVE  Home(w)' = back
<1>1. stack[w] = <<>>
  <2>1. pc[w] \notin Labels
    BY DEF Outside
  <2>2. pc[w] \notin FindLabels \cup PickLabels
    BY <2>1, LabelSets
  <2>. QED
    BY <2>1, <2>2 DEF InCall
<1>2. CASE Goto(w, back) \/ Resume(w, back)
  BY <1>1, <1>2 DEF Goto, Resume, Typed, ControlTyped, Home
<1>3. ASSUME NEW label, Call(w, label, <<back>>)
      PROVE  Home(w)' = back
  <2>1. stack'[w] = stack[w] \o <<back>>
    BY <1>3 DEF Call, Typed, ControlTyped
  <2>2. stack'[w] = <<back>>
    BY <1>1, <2>1, PushOne
  <2>. QED
    BY <2>2 DEF Home
<1>4. ASSUME NEW label, NEW b \in Labels, Call(w, label, <<back, b>>)
      PROVE  Home(w)' = back
  <2>1. stack'[w] = stack[w] \o <<back, b>>
    BY <1>4 DEF Call, Typed, ControlTyped
  <2>2. stack'[w] = <<back, b>>
    BY <1>1, <2>1, PushBoth
  <2>3. stack'[w] # <<>> /\ stack'[w][1] = back
    BY <2>2
  <2>. QED
    BY <2>3 DEF Home
<1>5. {"claim_dead", "unite_a"} \subseteq Labels
  BY DEF Labels
<1>. QED
  BY <1>2, <1>3, <1>4, <1>5 DEF CallFind, CallClaim, CallPick, CallRemove, CallUnite

-----------------------------------------------------------------------------
(* The worker sets: a bit is never left behind *)

\* The bit of n is at a representative, or at a higher slot of the set.
Settled(n, b) == \/ uf[n].parent = 0
                 \/ \E m \in Slot : n < m /\ Root[m] = Root[n] /\ b \in uf[m].workers

\* w is about to take b from n's set to a slot above n, or to see that it need not.
Carries(w, n, b) ==
  LET f == ret[w].node
      u == loc[w].unite
  IN  \/ pc[w] = "claim_check" /\ b \in w_id(w) /\ Root[f] = Root[n] /\ n <= f
      \/ Awaits(w, "claim_again") /\ b \in w_id(w) /\ Root[path[w][1]] = Root[n] /\ n <= path[w][1]
      \/ pc[w] = "claim_again" /\ b \in w_id(w) /\ Root[f] = Root[n] /\ n < f
      \/ pc[w] = "read_qw" /\ b \in uf[u.q].workers /\ Root[u.q] = Root[n] /\ n <= u.q
      \/ pc[w] = "compare_rw" /\ b \in u.qw /\ Root[u.q] = Root[n] /\ n <= u.q
      \/ pc[w] = "add_qw" /\ b \in u.qw /\ Root[u.up] = Root[n] /\ n < u.up
      \/ (pc[w] \in {"check_r", "found_r"} \/ Awaits(w, "found_r"))
           /\ b \in u.qw /\ Root[u.up] = Root[n] /\ n <= u.up

\* What it relies on when it stops
CarryFacts(w) ==
  LET u == loc[w].unite
  IN  /\ pc[w] = "claim_check" => w_id(w) \subseteq uf[ret[w].node].workers
      /\ Awaits(w, "claim_again") => uf[path[w][1]].parent # 0
      /\ pc[w] = "check_r" => u.qw \subseteq uf[u.up].workers
      /\ Awaits(w, "found_r") => path[w][1] = u.up /\ uf[u.up].parent # 0
      /\ pc[w] = "found_r" => u.up < ret[w].node /\ Root[ret[w].node] = Root[u.up]

BitsInv ==
  /\ \A w \in Worker : CarryFacts(w)
  /\ \A n \in Slot : \A b \in uf[n].workers : Settled(n, b) \/ \E w \in Worker : Carries(w, n, b)

\* A fetch_or, entry by entry.
LEMMA WorkersAdded ==
  ASSUME uf \in [Slot -> Entry], NEW f \in Slot, NEW W, uf' = [uf EXCEPT ![f].workers = @ \cup W]
  PROVE  \A s \in Slot : uf'[s].workers = IF s = f THEN uf[s].workers \cup W ELSE uf[s].workers
<1>1. uf[f] \in Entry
  OBVIOUS
<1>2. uf'[f] = [uf[f] EXCEPT !.workers = uf[f].workers \cup W]
  OBVIOUS
<1>3. uf'[f].workers = uf[f].workers \cup W
  BY <1>1, <1>2 DEF Entry
<1>4. \A s \in Slot \ {f} : uf'[s] = uf[s]
  OBVIOUS
<1>. QED
  BY <1>3, <1>4

\* The swap of the two list_next of lines 335-345 writes no other field.
LEMMA SwappedKeeps ==
  ASSUME UfTyped, NEW a \in Slot, NEW b \in Slot
  PROVE  \A s \in Slot : /\ Swapped(a, b)[s].workers = uf[s].workers
                         /\ Swapped(a, b)[s].list_status = uf[s].list_status
<1> DEFINE x == NextOrSelf(b)
           y == NextOrSelf(a)
           one == [uf EXCEPT ![a].list_next = x]
           two == [one EXCEPT ![b].list_next = y]
<1>1. Swapped(a, b) = two
  BY DEF Swapped
<1> HIDE DEF x, y
<1>2. uf \in [Slot -> Entry]
  BY DEF UfTyped
<1>3. \A s \in Slot : one[s].workers = uf[s].workers /\ one[s].list_status = uf[s].list_status
  BY <1>2 DEF Entry
<1>4. \A s \in Slot : two[s] = IF s = b THEN [one[s] EXCEPT !.list_next = y] ELSE one[s]
  BY <1>2
<1>5. \A s \in Slot : DOMAIN one[s] = DOMAIN uf[s]
  BY <1>2
<1>6. \A s \in Slot : DOMAIN uf[s] = {"parent", "workers", "list_next", "uf_status", "list_status"}
  BY <1>2 DEF Entry
<1> HIDE DEF one, two
<1>7. ASSUME NEW s \in Slot
      PROVE  two[s].workers = one[s].workers /\ two[s].list_status = one[s].list_status
  <2>1. PICK e : e = one[s]
    OBVIOUS
  <2>2. two[s] = e \/ two[s] = [e EXCEPT !.list_next = y]
    BY <1>4, <2>1
  <2>3. "workers" \in DOMAIN e /\ "list_status" \in DOMAIN e
    BY <1>5, <1>6, <2>1
  <2>. QED
    BY <2>1, <2>2, <2>3
<1>. QED
  BY <1>1, <1>3, <1>7

\* Only make_claim and unite add bits, and nothing takes them away.
LEMMA WorkersGrow ==
  ASSUME NEW callers, Typed(callers), NEW w \in Worker, UFStep(w)
  PROVE  /\ \A s \in Slot : uf[s].workers \subseteq uf'[s].workers
         /\ ClaimOr(w) \/ AddQw(w) \/ \A s \in Slot : uf'[s].workers = uf[s].workers
         /\ ClaimOr(w) => \A s \in Slot : uf'[s].workers = IF s = ret[w].node THEN uf[s].workers \cup w_id(w)
                                                                            ELSE uf[s].workers
         /\ AddQw(w) => \A s \in Slot : uf'[s].workers = IF s = loc[w].unite.up
                                                         THEN uf[s].workers \cup loc[w].unite.qw
                                                         ELSE uf[s].workers
<1>1. uf \in [Slot -> Entry] /\ ret[w].node \in Slot /\ path[w] \in Seq(Slot) /\ (pc[w] = "compress" => path[w] # <<>>)
  BY DEF Typed, UfTyped, ControlTyped
<1>2. /\ loc[w].unite.q \in Slot /\ loc[w].unite.r \in Slot /\ loc[w].unite.up \in Slot
      /\ loc[w].unite.al \in Slot /\ loc[w].unite.bl \in Slot /\ loc[w].pick.a \in Slot
  BY LocalsTyped DEF Typed
<1>3. CASE ClaimOr(w)
  <2>1. uf' = [uf EXCEPT ![ret[w].node].workers = @ \cup w_id(w)] /\ ~AddQw(w)
    BY <1>3 DEF ClaimOr, AddQw
  <2>2. \A s \in Slot : uf'[s].workers = IF s = ret[w].node THEN uf[s].workers \cup w_id(w) ELSE uf[s].workers
    <3> DEFINE f == ret[w].node
    <3>1. uf' = [uf EXCEPT ![f].workers = @ \cup w_id(w)] /\ f \in Slot
      BY <1>1, <2>1
    <3> HIDE DEF f
    <3>2. \A s \in Slot : uf'[s].workers = IF s = f THEN uf[s].workers \cup w_id(w) ELSE uf[s].workers
      BY <1>1, <3>1, WorkersAdded
    <3>. QED
      BY <3>2 DEF f
  <2>. QED
    BY <1>3, <2>1, <2>2
<1>4. CASE AddQw(w)
  <2>1. uf' = [uf EXCEPT ![loc[w].unite.up].workers = @ \cup loc[w].unite.qw] /\ ~ClaimOr(w)
    BY <1>4 DEF ClaimOr, AddQw
  <2>2. \A s \in Slot : uf'[s].workers = IF s = loc[w].unite.up THEN uf[s].workers \cup loc[w].unite.qw
                                                                 ELSE uf[s].workers
    <3> DEFINE f == loc[w].unite.up
               qw == loc[w].unite.qw
    <3>1. uf' = [uf EXCEPT ![f].workers = @ \cup qw] /\ f \in Slot
      BY <1>2, <2>1
    <3> HIDE DEF f, qw
    <3>2. \A s \in Slot : uf'[s].workers = IF s = f THEN uf[s].workers \cup qw ELSE uf[s].workers
      BY <1>1, <3>1, WorkersAdded
    <3>. QED
      BY <3>2 DEF f, qw
  <2>. QED
    BY <1>4, <2>1, <2>2
<1>5. CASE ~ClaimOr(w) /\ ~AddQw(w)
  <2> DEFINE Same == \A s \in Slot : uf'[s].workers = uf[s].workers
  <2>1. uf' = uf => Same
    OBVIOUS
  <2>2. CASE FindRead(w) \/ FindCompress(w)
    <3>1. FindCompress(w) => path[w][Len(path[w])] \in Slot
      BY <1>1, EmptySeq DEF FindCompress
    <3>2. FindCompress(w) => Same
      BY <1>1, <3>1 DEF FindCompress, Entry
    <3>. QED
      BY <1>5, <2>1, <2>2, <3>2 DEF FindRead
  <2>3. CASE ClaimDead(w) \/ ClaimFound(w) \/ ClaimCheck(w) \/ SameB(w) \/ SameA(w) \/ SameRetry(w)
    BY <1>5, <2>1, <2>3 DEF ClaimDead, ClaimFound, ClaimCheck, SameB, SameA, SameRetry
  <2>4. CASE \/ PickA(w) \/ PickNext(w) \/ PickB(w) \/ PickC(w) \/ PickCompare(w) \/ PickWrite(w)
             \/ MarkDead(w) \/ Remove(w) \/ RemoveColor(w)
    <3>1. PickWrite(w) \/ MarkDead(w) \/ Remove(w) => Same
      BY <1>1, <1>2, <2>1 DEF PickWrite, MarkDead, Remove, Entry
    <3>. QED
      BY <1>5, <2>1, <2>4, <3>1 DEF PickA, PickNext, PickB, PickC, PickCompare, RemoveColor
  <2>5. CASE UniteFindB(w) \/ UniteRoots(w) \/ LockUf(w) \/ LockUfCheck(w) \/ LockUfUndo(w)
    <3>1. LockUf(w) \/ LockUfUndo(w) => Same
      BY <1>1, <1>2, <2>1 DEF LockUf, LockUfUndo, Entry
    <3>. QED
      BY <1>5, <2>1, <2>5, <3>1 DEF UniteFindB, UniteRoots, LockUfCheck
  <2>6. CASE LockListA(w) \/ LockListB(w)
    BY <1>1, <1>2, <1>5, <2>1, <2>6 DEF LockListA, LockListB, Entry
  <2>7. CASE SwapLists(w) \/ SetParent(w)
    <3>1. SwapLists(w) => Same
      BY <1>2, SwappedKeeps DEF SwapLists, Typed
    <3>2. SetParent(w) => Same
      BY <1>1, <1>2 DEF SetParent, Merged, Entry
    <3>. QED
      BY <1>5, <2>7, <3>1, <3>2
  <2>8. CASE ReadQw(w) \/ CompareRw(w) \/ CheckR(w) \/ FoundR(w)
    BY <1>5, <2>1, <2>8 DEF ReadQw, CompareRw, CheckR, FoundR
  <2>9. CASE UnlockListA(w) \/ UnlockListB(w) \/ UnlockUf(w)
    BY <1>1, <1>2, <1>5, <2>9 DEF UnlockListA, UnlockListB, UnlockUf, Unlocked, Entry
  <2>10. Same
    BY <1>5, <2>2, <2>3, <2>4, <2>5, <2>6, <2>7, <2>8, <2>9 DEF UFStep
  <2>. QED
    BY <1>5, <2>10
<1>. QED
  BY <1>3, <1>4, <1>5

\* A settled bit stays settled, unless the slot stops being a representative.
LEMMA SettledKept ==
  ASSUME NEW callers, SetsInv(callers), NEW w \in Worker, UFStep(w), Coarser, Typed(callers)', Upward',
         NEW n \in Slot, NEW b, Settled(n, b), ~(SetParent(w) /\ n = loc[w].unite.q)
  PROVE  Settled(n, b)'
<1>1. uf[n].parent = 0 => uf'[n].parent = 0
  BY ParentsStay
<1>2. \A s \in Slot : uf[s].workers \subseteq uf'[s].workers
  BY WorkersGrow DEF SetsInv
<1>3. ASSUME NEW m \in Slot, n < m, Root[m] = Root[n], b \in uf[m].workers
      PROVE  Settled(n, b)'
  BY <1>2, <1>3 DEF Coarser, Settled
<1>. QED
  BY <1>1, <1>3 DEF Settled

\* What another worker carries it goes on to carry.
LEMMA OthersCarry ==
  ASSUME NEW callers, SetsInv(callers), NEW w \in Worker, NEW x \in Worker \ {w}, Alone(w), Coarser,
         \A s \in Slot : uf[s].workers \subseteq uf'[s].workers,
         \A s \in Slot : uf[s].parent # 0 => uf'[s].parent # 0
  PROVE  /\ CarryFacts(x) => CarryFacts(x)'
         /\ \A n \in Slot : \A b : Carries(x, n, b) => Carries(x, n, b)'
<1>1. /\ pc'[x] = pc[x] /\ stack'[x] = stack[x] /\ ret'[x] = ret[x]
      /\ path'[x] = path[x] /\ loc'[x] = loc[x]
  BY DEF Alone, OthersKept
<1>2. \A l : Awaits(x, l)' <=> Awaits(x, l)
  BY <1>1 DEF Awaits
<1>3. /\ loc[x].unite.q \in Slot /\ loc[x].unite.up \in Slot /\ ret[x].node \in Slot /\ path[x] \in Seq(Slot)
      /\ pc[x] \in FindLabels => path[x] # <<>>
  BY LocalsTyped DEF SetsInv, Typed, ControlTyped, FindLabels
<1>4. Awaits(x, "claim_again") \/ Awaits(x, "found_r") => path[x][1] \in Slot
  <2>1. {"claim_again", "found_r"} \subseteq FindBacks
    BY DEF FindBacks
  <2>2. Awaits(x, "claim_again") \/ Awaits(x, "found_r") => pc[x] \in FindLabels
    BY <2>1, AwaitsWhere DEF SetsInv, Knows
  <2>3. path[x] # <<>> => path[x][1] \in Slot
    BY <1>3, EmptySeq
  <2>. QED
    BY <1>3, <2>2, <2>3
<1>5. CarryFacts(x) => CarryFacts(x)'
  BY <1>1, <1>2, <1>3, <1>4 DEF CarryFacts, Coarser, w_id
<1>6. ASSUME NEW n \in Slot, NEW b, Carries(x, n, b)
      PROVE  Carries(x, n, b)'
  BY <1>1, <1>2, <1>3, <1>4, <1>6 DEF Carries, Coarser, w_id
<1>. QED
  BY <1>5, <1>6

CarryLabels == {"claim_check", "claim_again", "read_qw", "compare_rw", "add_qw", "check_r", "found_r"}

Carrying(w) == pc[w] \in CarryLabels \/ Awaits(w, "claim_again") \/ Awaits(w, "found_r")

\* The other functions carry nothing.
LEMMA NotCarrying ==
  ASSUME NEW callers, Typed(callers), Outside(callers), NEW w \in Worker, InCall(w, callers), UFStep(w),
         ~FindRead(w), ~FindCompress(w), ~ClaimOr(w), ~ClaimCheck(w), ~SetParent(w), ~ReadQw(w),
         ~CompareRw(w), ~AddQw(w), ~CheckR(w), ~FoundR(w)
  PROVE  ~Carrying(w) /\ ~Carrying(w)'
<1> DEFINE Done == ~Carrying(w)'
           Outer == pc[w] \in Labels \ (FindLabels \cup PickLabels)
<1>1. callers \cap CarryLabels = {} /\ {"find", "pick_a"} \cap CarryLabels = {}
      /\ CarryLabels \cap (PickLabels \cup ListLabels) = {} /\ CarryLabels \cap FindLabels = {}
      /\ {"claim_again", "found_r"} \subseteq FindBacks
  BY DEF Outside, CarryLabels, Labels, PickLabels, ListLabels, FindLabels, FindBacks
<1>2. loc[w].same.a \in Slot /\ loc[w].same.b \in Slot
      /\ loc[w].pick.a \in Slot /\ loc[w].unite.a \in Slot /\ loc[w].unite.b \in Slot
  BY LocalsTyped DEF Typed
<1>3. ASSUME Outer, NEW label \in Labels \ (FindLabels \cup CarryLabels), Goto(w, label) \/ Resume(w, label)
      PROVE  Done
  <2>1. pc'[w] = label /\ \A l : ~Awaits(w, l)'
    BY <1>3, Moved
  <2>. QED
    BY <1>3, <2>1 DEF Carrying
<1>4. ASSUME Outer, NEW s \in Slot, NEW b \in FindBacks \ CarryLabels, CallFind(w, s, <<b>>)
      PROVE  Done
  <2>1. pc'[w] = "find" /\ \A l : Awaits(w, l)' <=> l = b
    BY <1>4, FindCalled
  <2>. QED
    BY <1>1, <1>4, <2>1 DEF Carrying, CarryLabels
<1>5. ASSUME Outer, NEW l \in ListLabels, Call(w, "pick_a", <<l>>)
      PROVE  Done
  <2>1. pc'[w] = "pick_a" /\ \A k : Awaits(w, k)' <=> k = l
    BY <1>5, AwaitsPush
  <2>. QED
    BY <1>1, <1>5, <2>1 DEF Carrying, CarryLabels
<1>6. ASSUME Outer, NEW code, NEW node, Return(w, code, node)
      PROVE  Done
  <2>1. pc'[w] \in callers /\ \A l : ~Awaits(w, l)'
    BY <1>6, Returned
  <2>. QED
    BY <1>1, <2>1 DEF Carrying
<1>7. ASSUME pc[w] \in PickLabels
      PROVE  ~Awaits(w, "claim_again") /\ ~Awaits(w, "found_r") /\ pc[w] \notin FindLabels
  <2>1. pc[w] \notin FindLabels
    BY <1>7, LabelSets
  <2>. QED
    BY <1>1, <2>1, AwaitsWhere
<1>8. ASSUME pc[w] \in PickLabels, NEW label \in PickLabels, Goto(w, label)
      PROVE  Done
  <2>1. pc'[w] = label /\ stack' = stack
    BY <1>8 DEF Goto, Typed, ControlTyped
  <2>. QED
    BY <1>1, <1>7, <1>8, <2>1 DEF Awaits, Carrying
<1>9. ASSUME pc[w] \in PickLabels, NEW s, CallFind(w, s, <<"mark_dead">>)
      PROVE  Done
  <2>1. pc'[w] = "find" /\ \A l : Awaits(w, l)' <=> Awaits(w, l) \/ (l = "mark_dead" /\ \A k : ~Awaits(w, k))
    BY <1>9, AwaitsMark DEF CallFind
  <2>. QED
    BY <1>1, <1>7, <1>9, <2>1 DEF Carrying
<1>10. ASSUME pc[w] \in PickLabels, NEW code, NEW node, Return(w, code, node)
       PROVE  Done
  <2>1. pc[w] \notin FindLabels /\ pc[w] \in Labels
    BY <1>10, LabelSets
  <2>2. \/ pc'[w] \in callers /\ (\A l : ~Awaits(w, l)')
        \/ pc'[w] \in ListLabels /\ \A l : ~Awaits(w, l)'
    BY <1>10, <2>1, AwaitsReturn
  <2>. QED
    BY <1>1, <2>2 DEF Carrying
<1>11. ASSUME Outer
       PROVE  \A l : ~Awaits(w, l)
  BY <1>11, AwaitsNone
<1> HIDE DEF Done
<1> SUFFICES ~Carrying(w) /\ Done
  BY DEF Done
<1>12. CASE ClaimDead(w) \/ ClaimFound(w)
  <2>1. Outer /\ {"claim_found", "claim_or"} \subseteq Labels \ (FindLabels \cup CarryLabels)
        /\ pc[w] \notin CarryLabels
    BY <1>12 DEF ClaimDead, ClaimFound, Labels, FindLabels, PickLabels, CarryLabels
  <2>2. Done
    BY <1>3, <1>6, <1>12, <2>1 DEF ClaimDead, ClaimFound
  <2>. QED
    BY <1>11, <2>1, <2>2 DEF Carrying
<1>13. CASE SameB(w) \/ SameA(w) \/ SameRetry(w)
  <2>1. Outer /\ "same_a" \in Labels \ (FindLabels \cup CarryLabels) /\ pc[w] \notin CarryLabels
        /\ {"same_b", "same_retry"} \subseteq FindBacks \ CarryLabels
    BY <1>13 DEF SameB, SameA, SameRetry, Labels, FindLabels, PickLabels, CarryLabels, FindBacks
  <2>2. Done
    BY <1>2, <1>3, <1>4, <1>6, <1>13, <2>1 DEF SameB, SameA, SameRetry, SameReturn
  <2>. QED
    BY <1>11, <2>1, <2>2 DEF Carrying
<1>14. CASE PickA(w) \/ PickNext(w) \/ PickB(w) \/ PickC(w) \/ PickCompare(w) \/ PickWrite(w) \/ MarkDead(w)
  <2>1. pc[w] \in PickLabels
        /\ {"pick_a", "pick_next", "pick_b", "pick_c", "pick_compare", "pick_write"} \subseteq PickLabels
    BY <1>14 DEF PickA, PickNext, PickB, PickC, PickCompare, PickWrite, MarkDead, PickLabels
  <2>2. Done
    BY <1>8, <1>9, <1>10, <1>14, <2>1 DEF PickA, PickNext, PickB, PickC, PickCompare, PickWrite,
       MarkDead, PickReturn, ContinueFromC
  <2>. QED
    BY <1>1, <1>7, <2>1, <2>2 DEF Carrying
<1>15. CASE Remove(w) \/ RemoveColor(w)
  <2>1. Outer /\ "remove_color" \in Labels \ (FindLabels \cup CarryLabels) /\ pc[w] \notin CarryLabels
    BY <1>15 DEF Remove, RemoveColor, Labels, FindLabels, PickLabels, CarryLabels
  <2>2. Done
    BY <1>3, <1>6, <1>15, <2>1 DEF Remove, RemoveColor, PickReturn
  <2>. QED
    BY <1>11, <2>1, <2>2 DEF Carrying
<1>16. CASE UniteFindB(w) \/ UniteRoots(w) \/ LockUf(w) \/ LockUfCheck(w) \/ LockUfUndo(w)
  <2>1. Outer /\ {"lock_uf", "lock_uf_check", "lock_uf_undo"} \subseteq Labels \ (FindLabels \cup CarryLabels)
        /\ pc[w] \notin CarryLabels
    BY <1>16 DEF UniteFindB, UniteRoots, LockUf, LockUfCheck, LockUfUndo, Labels, FindLabels, PickLabels, CarryLabels
  <2>2. {"unite_a", "unite_b"} \subseteq FindBacks \ CarryLabels /\ "list_a" \in ListLabels
    BY DEF FindBacks, CarryLabels, ListLabels
  <2>3. Done
    BY <1>2, <1>3, <1>4, <1>5, <1>6, <1>16, <2>1, <2>2 DEF UniteFindB, UniteRoots, LockUf, LockUfCheck,
       LockUfUndo, UniteReturn, UniteRetry, CallPick
  <2>. QED
    BY <1>11, <2>1, <2>3 DEF Carrying
<1>17. CASE LockListA(w) \/ LockListB(w)
  <2>1. Outer /\ "swap" \in Labels \ (FindLabels \cup CarryLabels) /\ pc[w] \notin CarryLabels
    BY <1>17 DEF LockListA, LockListB, Labels, FindLabels, PickLabels, CarryLabels
  <2>2. {"list_a", "list_b"} \subseteq ListLabels
    BY DEF ListLabels
  <2>3. Done
    BY <1>3, <1>5, <1>6, <1>17, <2>1, <2>2 DEF LockListA, LockListB, UniteReturn, CallPick
  <2>. QED
    BY <1>11, <2>1, <2>3 DEF Carrying
<1>18. CASE SwapLists(w) \/ UnlockListA(w) \/ UnlockListB(w) \/ UnlockUf(w)
  <2>1. Outer /\ pc[w] \notin CarryLabels
        /\ {"set_parent", "unlock_b", "unlock_uf"} \subseteq Labels \ (FindLabels \cup CarryLabels)
    BY <1>18 DEF SwapLists, UnlockListA, UnlockListB, UnlockUf, Labels, FindLabels, PickLabels, CarryLabels
  <2>2. Done
    BY <1>3, <1>6, <1>18, <2>1 DEF SwapLists, UnlockListA, UnlockListB, UnlockUf, UniteReturn
  <2>. QED
    BY <1>11, <2>1, <2>2 DEF Carrying
<1>. QED
  BY <1>12, <1>13, <1>14, <1>15, <1>16, <1>17, <1>18 DEF UFStep

\* Who carries nothing knows nothing.
LEMMA NoCarry ==
  ASSUME NEW w \in Worker
  PROVE  /\ ~Carrying(w) => \A n \in Slot : \A b : ~Carries(w, n, b)
         /\ ~Carrying(w)' => CarryFacts(w)'
BY DEF Carrying, Carries, CarryFacts, CarryLabels

\* What a step of w makes of what w carries: w goes on with it, or it is settled.
Delivered(w) == \A n \in Slot : \A b : Carries(w, n, b) => Carries(w, n, b)' \/ Settled(n, b)'

\* find takes it from make_claim and unite and brings it back.
LEMMA FindCarry ==
  ASSUME NEW callers, SetsInv(callers), NEW w \in Worker, CarryFacts(w), FindRead(w) \/ FindCompress(w),
         Typed(callers)', Upward', \A s \in Slot : uf[s].parent # 0 => uf'[s].parent # 0
  PROVE  CarryFacts(w)' /\ Delivered(w)
<1>1. Typed(callers) /\ Outside(callers) /\ InCall(w, callers)
  BY DEF SetsInv, Knows
<1>2. pc[w] \in FindLabels /\ pc[w] \in Labels /\ pc[w] \notin CarryLabels
  BY DEF FindRead, FindCompress, FindLabels, Labels, CarryLabels
<1>3. Root' = Root /\ loc' = loc /\ path[w][1] \in Slot /\ loc[w].unite.up \in Slot
  BY <1>1, FindOutcome, LocalsTyped DEF Typed
<1>4. {"claim_again", "found_r"} \subseteq FindBacks /\ FindLabels \cap (FindBacks \cup CarryLabels) = {}
      /\ FindBacks \cap CarryLabels = {"claim_again", "found_r"} /\ callers \cap CarryLabels = {}
      /\ "mark_dead" \notin CarryLabels \cup FindLabels
  BY <1>1 DEF FindBacks, CarryLabels, FindLabels, Outside, Labels
<1>5. CASE pc'[w] \in FindLabels /\ stack' = stack /\ path'[w][1] = path[w][1]
  <2>1. \A l : Awaits(w, l)' <=> Awaits(w, l)
    BY <1>5 DEF Awaits
  <2>2. pc'[w] \notin CarryLabels
    BY <1>4, <1>5
  <2>3. CarryFacts(w)'
    BY <1>3, <1>5, <2>1, <2>2 DEF CarryFacts, CarryLabels
  <2>4. Delivered(w)
    BY <1>2, <1>3, <1>5, <2>1 DEF Delivered, Carries, CarryLabels, w_id
  <2>. QED
    BY <2>3, <2>4
<1>6. ASSUME NEW node \in Slot, Return(w, "find", node), Root[node] = Root[path[w][1]],
             path[w][1] <= node, uf[path[w][1]].parent # 0 => path[w][1] < node
      PROVE  CarryFacts(w)' /\ Delivered(w)
  <2> DEFINE Done == CarryFacts(w)' /\ Delivered(w)
             Same == \A l : Awaits(w, l)' <=> Awaits(w, l)
             None == \A l : ~Awaits(w, l)'
  <2> SUFFICES Done
    OBVIOUS
  <2>1. /\ ret'[w].node = node
        /\ \/ pc'[w] \in callers /\ None /\ (\A l : ~Awaits(w, l))
           \/ pc'[w] = "mark_dead" /\ (Same \/ (None /\ Awaits(w, "mark_dead")))
           \/ pc'[w] \in FindBacks /\ Awaits(w, pc'[w]) /\ None
    <3> DEFINE code == "find"
    <3>1. Return(w, code, node)
      BY <1>6
    <3> HIDE DEF code
    <3>2. pc[w] \notin PickLabels
      BY <1>2, LabelSets
    <3>3. ret'[w] = [code |-> code, node |-> node]
      BY <1>1, <1>2, <3>1, AwaitsReturn
    <3>4. \/ pc'[w] \in callers /\ None /\ (\A l : ~Awaits(w, l))
          \/ pc'[w] = "mark_dead" /\ (Same \/ (None /\ Awaits(w, "mark_dead")))
          \/ pc'[w] \in FindBacks /\ Awaits(w, pc'[w]) /\ None
      BY <1>1, <1>2, <3>1, <3>2, AwaitsReturn
    <3>. QED
      BY <3>3, <3>4
  <2>2. InCall(w, callers)'
    BY <1>1, UFStepInCall DEF UFStep
  <2>3. \A k, l : Awaits(w, k) /\ Awaits(w, l) => k = l
    BY <1>1, AwaitsWhere
  <2>4. CASE ~Carrying(w) /\ ~Carrying(w)'
    BY <2>4, NoCarry DEF Delivered
  <2>5. CASE pc'[w] \in callers /\ None /\ (\A l : ~Awaits(w, l))
    <3>1. ~Carrying(w) /\ ~Carrying(w)'
      BY <1>2, <1>4, <2>5 DEF Carrying
    <3>. QED
      BY <2>4, <3>1
  <2>6. CASE pc'[w] = "mark_dead" /\ (Same \/ (None /\ Awaits(w, "mark_dead")))
    <3>1. \A b \in FindBacks : ~Awaits(w, b)'
      BY <1>4, <2>2, <2>6, AwaitsFindNext
    <3>2. ~Awaits(w, "claim_again") /\ ~Awaits(w, "found_r")
      BY <1>4, <2>3, <2>6, <3>1
    <3>3. ~Carrying(w) /\ ~Carrying(w)'
      BY <1>2, <1>4, <2>6, <3>1, <3>2 DEF Carrying
    <3>. QED
      BY <2>4, <3>3
  <2>7. CASE pc'[w] \in FindBacks /\ Awaits(w, pc'[w]) /\ None
    <3>1. CASE pc'[w] \notin {"claim_again", "found_r"}
      <4>1. ~Carrying(w) /\ ~Carrying(w)'
        BY <1>2, <1>4, <2>3, <2>7, <3>1 DEF Carrying
      <4>. QED
        BY <2>4, <4>1
    <3>2. CASE pc'[w] = "claim_again"
      <4>1. Awaits(w, "claim_again") /\ ~Awaits(w, "found_r")
        BY <2>3, <2>7, <3>2
      <4>2. path[w][1] < node
        BY <1>6, <4>1 DEF CarryFacts
      <4>3. CarryFacts(w)'
        BY <2>7, <3>2 DEF CarryFacts
      <4>4. ASSUME NEW n \in Slot, NEW b, Carries(w, n, b)
            PROVE  Carries(w, n, b)'
        <5>1. b \in w_id(w) /\ Root[path[w][1]] = Root[n] /\ n <= path[w][1]
          BY <1>2, <4>1, <4>4 DEF Carries, CarryLabels
        <5>2. n < node
          BY <1>3, <4>2, <5>1, SlotZero
        <5>3. pc'[w] = "claim_again" /\ b \in w_id(w)' /\ Root'[ret'[w].node] = Root'[n] /\ n < ret'[w].node
          BY <1>3, <1>6, <2>1, <3>2, <5>1, <5>2 DEF w_id
        <5>. QED
          BY <5>3 DEF Carries
      <4>. QED
        BY <4>3, <4>4 DEF Delivered
    <3>3. CASE pc'[w] = "found_r"
      <4>1. Awaits(w, "found_r") /\ ~Awaits(w, "claim_again")
        BY <2>3, <2>7, <3>3
      <4>2. path[w][1] < node /\ path[w][1] = loc[w].unite.up
        BY <1>6, <4>1 DEF CarryFacts
      <4>3. CarryFacts(w)'
        BY <1>3, <1>6, <2>1, <2>7, <3>3, <4>2 DEF CarryFacts
      <4>4. Delivered(w)
        BY <1>2, <1>3, <3>3, <4>1 DEF Delivered, Carries, CarryLabels
      <4>. QED
        BY <4>3, <4>4
    <3>. QED
      BY <2>7, <3>1, <3>2, <3>3
  <2> HIDE DEF Done, Same, None
  <2>. QED
    BY <2>1, <2>5, <2>6, <2>7
<1>. QED
  BY <1>5, <1>6, FindOutcome

\* The re-checks of make_claim and unite: a bit at the representative is settled.
LEMMA AtTop ==
  ASSUME NEW f \in Slot, NEW n \in Slot, NEW b, uf[f].parent = 0, b \in uf[f].workers,
         Root[f] = Root[n], n <= f, uf' = uf
  PROVE  Settled(n, b)'
<1>1. Root' = Root
  BY DEF Root
<1>2. n = f \/ n < f
  BY SlotZero
<1>. QED
  BY <1>1, <1>2 DEF Settled

\* What w carries reaches a representative, or w goes on with it.
LEMMA OwnCarry ==
  ASSUME NEW callers, SetsInv(callers), NEW w \in Worker, CarryFacts(w), UFStep(w), Coarser,
         Typed(callers)', Upward'
  PROVE  CarryFacts(w)' /\ Delivered(w)
<1> DEFINE u == loc[w].unite
           f == ret[w].node
<1>1. Typed(callers) /\ Outside(callers) /\ InCall(w, callers) /\ UniteSets(w)
      /\ loc \in [Worker -> Locals]
  BY DEF SetsInv, Knows, Typed, LocTyped
<1>2. u \in Unites /\ u.q \in Slot /\ u.r \in Slot /\ u.a \in Slot /\ u.b \in Slot /\ u.up \in Slot /\ f \in Slot
  BY <1>1, LocalsTyped DEF Typed, ControlTyped
<1>3. \A s \in Slot : uf[s].parent # 0 => uf'[s].parent # 0
  BY ParentsStay
<1>4. UNCHANGED uf => Root' = Root
  BY DEF Root
<1>5. CASE FindRead(w) \/ FindCompress(w)
  BY <1>3, <1>5, FindCarry
<1>6. ASSUME pc[w] \in CarryLabels \cup {"claim_or", "set_parent"}
      PROVE  pc[w] \in Labels \ (FindLabels \cup PickLabels) /\ \A l : ~Awaits(w, l)
  <2>1. pc[w] \in Labels \ (FindLabels \cup PickLabels)
    BY <1>6 DEF CarryLabels, Labels, FindLabels, PickLabels
  <2>. QED
    BY <1>1, <2>1, AwaitsNone
<1>7. ASSUME pc[w] \in CarryLabels \cup {"claim_or", "set_parent"}, NEW label \in CarryLabels \cup {"unlock_a"},
             Goto(w, label) \/ Resume(w, label)
      PROVE  pc'[w] = label /\ \A l : ~Awaits(w, l)'
  <2>1. label \in Labels \ FindLabels
    BY <1>7 DEF CarryLabels, Labels, FindLabels
  <2>. QED
    BY <1>1, <1>6, <1>7, <2>1, Moved
<1>8. CASE ClaimOr(w)
  <2>1. pc[w] \in {"claim_or", "claim_again"} /\ Goto(w, "claim_check") /\ "claim_check" \in CarryLabels
        /\ "claim_again" \in CarryLabels
    BY <1>8 DEF ClaimOr, CarryLabels
  <2>2. pc'[w] = "claim_check" /\ (\A l : ~Awaits(w, l)') /\ ret'[w] = ret[w] /\ \A l : ~Awaits(w, l)
    BY <1>6, <1>7, <2>1 DEF Goto
  <2>3. w_id(w) \subseteq uf'[f].workers
    BY <1>1, <1>2, <1>8, WorkersGrow
  <2>4. CarryFacts(w)'
    BY <2>2, <2>3 DEF CarryFacts, w_id
  <2>5. ASSUME NEW n \in Slot, NEW b, Carries(w, n, b)
        PROVE  Carries(w, n, b)'
    <3>1. b \in w_id(w) /\ Root[f] = Root[n] /\ n < f
      BY <2>1, <2>2, <2>5 DEF Carries
    <3>2. n \in Int /\ f \in Int
      BY <1>2, SlotZero
    <3>3. Root'[f] = Root'[n] /\ n <= f
      BY <1>2, <3>1, <3>2 DEF Coarser
    <3>. QED
      BY <2>2, <3>1, <3>3 DEF Carries, w_id
  <2>. QED
    BY <2>4, <2>5 DEF Delivered
<1>9. CASE ClaimCheck(w)
  <2>1. pc[w] = "claim_check" /\ UNCHANGED uf
    BY <1>9 DEF ClaimCheck
  <2>2. pc[w] \in CarryLabels
    BY <2>1 DEF CarryLabels
  <2>3. \A n \in Slot : \A b : Carries(w, n, b) => b \in w_id(w) /\ Root[f] = Root[n] /\ n <= f
    BY <1>6, <2>1, <2>2 DEF Carries
  <2>4. CASE uf[f].parent # 0 /\ CallFind(w, f, <<"claim_again">>)
    <3>1. "claim_again" \in FindBacks
      BY DEF FindBacks
    <3>2. pc'[w] = "find" /\ path'[w][1] = f /\ \A l : Awaits(w, l)' <=> l = "claim_again"
      BY <1>1, <1>2, <1>6, <2>2, <2>4, FindCalled
    <3>3. CarryFacts(w)'
      BY <2>1, <2>4, <3>2 DEF CarryFacts
    <3>4. Delivered(w)
      BY <1>4, <2>1, <2>3, <3>2 DEF Delivered, Carries, w_id
    <3>. QED
      BY <3>3, <3>4
  <2>5. CASE uf[f].parent = 0 /\ \E code : Return(w, code, 0)
    <3>1. pc'[w] \in callers /\ \A l : ~Awaits(w, l)'
      BY <1>1, <1>6, <2>2, <2>5, Returned
    <3>2. ~Carrying(w)'
      BY <1>1, <3>1 DEF Carrying, CarryLabels, Outside, Labels
    <3>3. Delivered(w)
      BY <1>2, <2>1, <2>3, <2>5, AtTop DEF Delivered, CarryFacts
    <3>. QED
      BY <3>2, <3>3, NoCarry
  <2>. QED
    BY <1>9, <2>4, <2>5 DEF ClaimCheck
<1>10. CASE SetParent(w)
  <2>1. pc[w] = "set_parent" /\ Goto(w, "read_qw") /\ "read_qw" \in CarryLabels /\ pc[w] \notin CarryLabels
    BY <1>10 DEF SetParent, CarryLabels
  <2>2. pc'[w] = "read_qw" /\ \A l : ~Awaits(w, l)'
    BY <1>7, <2>1
  <2>3. CarryFacts(w)'
    BY <2>2 DEF CarryFacts
  <2>4. ~Carrying(w)
    BY <1>6, <2>1 DEF Carrying
  <2>. QED
    BY <2>3, <2>4, NoCarry DEF Delivered
<1>11. CASE ReadQw(w)
  <2>1. pc[w] = "read_qw" /\ Goto(w, "compare_rw") /\ UNCHANGED uf /\ {"read_qw", "compare_rw"} \subseteq CarryLabels
    BY <1>11 DEF ReadQw, CarryLabels
  <2>2. pc'[w] = "compare_rw" /\ (\A l : ~Awaits(w, l)') /\ (\A l : ~Awaits(w, l))
    BY <1>6, <1>7, <2>1
  <2>3. loc'[w].unite = [u EXCEPT !.qw = uf[u.q].workers]
    BY <1>1, <1>11 DEF ReadQw, Locals
  <2>4. loc'[w].unite.qw = uf[u.q].workers /\ loc'[w].unite.q = u.q
    BY <1>2, <2>3 DEF Unites
  <2>5. CarryFacts(w)'
    BY <2>2 DEF CarryFacts
  <2>6. Delivered(w)
    BY <1>4, <2>1, <2>2, <2>4 DEF Delivered, Carries
  <2>. QED
    BY <2>5, <2>6
<1>12. CASE CompareRw(w)
  <2>1. pc[w] = "compare_rw" /\ UNCHANGED uf /\ {"compare_rw", "add_qw"} \subseteq CarryLabels
    BY <1>12 DEF CompareRw, CarryLabels
  <2>2. \A l : ~Awaits(w, l)
    BY <1>6, <2>1
  <2>3. \A n \in Slot : \A b : Carries(w, n, b) => b \in u.qw /\ Root[u.q] = Root[n] /\ n <= u.q
    BY <2>1, <2>2 DEF Carries
  <2>4. u.q < u.r /\ Root[u.q] = Root[u.r]
    <3>1. Region(w) /\ Joined(w)
      BY <2>1 DEF Region, Joined, RegionLabels, JoinedLabels
    <3>. QED
      BY <1>1, <3>1 DEF UniteSets
  <2>5. \A n \in Slot : n <= u.q => n < u.r
    <3>1. u.q \in Int /\ u.r \in Int /\ \A n \in Slot : n \in Int
      BY <1>2, SlotZero
    <3>. QED
      BY <2>4, <3>1
  <2>6. loc'[w].unite = [u EXCEPT !.up = u.r]
    BY <1>1, <1>12 DEF CompareRw, Locals
  <2>7. loc'[w].unite.qw = u.qw /\ loc'[w].unite.up = u.r
    BY <1>2, <2>6 DEF Unites
  <2>8. CASE AddsWorkers(u) /\ Goto(w, "add_qw")
    <3>1. pc'[w] = "add_qw" /\ \A l : ~Awaits(w, l)'
      BY <1>7, <2>1, <2>8
    <3>2. CarryFacts(w)'
      BY <3>1 DEF CarryFacts
    <3>3. Delivered(w)
      BY <1>4, <2>1, <2>3, <2>4, <2>5, <2>7, <3>1 DEF Delivered, Carries
    <3>. QED
      BY <3>2, <3>3
  <2>9. CASE ~AddsWorkers(u) /\ Goto(w, "unlock_a")
    <3>1. pc'[w] = "unlock_a" /\ \A l : ~Awaits(w, l)'
      BY <1>7, <2>1, <2>9
    <3>2. CarryFacts(w)'
      BY <3>1 DEF CarryFacts
    <3>3. u.qw \subseteq uf[u.r].workers
      BY <2>9 DEF AddsWorkers
    <3>4. Delivered(w)
      BY <1>2, <1>4, <2>1, <2>3, <2>4, <2>5, <3>3 DEF Delivered, Settled
    <3>. QED
      BY <3>2, <3>4
  <2>. QED
    BY <1>12, <2>8, <2>9 DEF CompareRw
<1>13. CASE AddQw(w)
  <2>1. pc[w] = "add_qw" /\ Goto(w, "check_r") /\ loc' = loc /\ {"add_qw", "check_r"} \subseteq CarryLabels
    BY <1>13 DEF AddQw, CarryLabels
  <2>2. pc'[w] = "check_r" /\ (\A l : ~Awaits(w, l)') /\ \A l : ~Awaits(w, l)
    BY <1>6, <1>7, <2>1
  <2>3. u.qw \subseteq uf'[u.up].workers
    BY <1>1, <1>2, <1>13, WorkersGrow
  <2>4. CarryFacts(w)'
    BY <2>1, <2>2, <2>3 DEF CarryFacts
  <2>5. ASSUME NEW n \in Slot, NEW b, Carries(w, n, b)
        PROVE  Carries(w, n, b)'
    <3>1. b \in u.qw /\ Root[u.up] = Root[n] /\ n < u.up
      BY <2>1, <2>2, <2>5 DEF Carries
    <3>2. n \in Int /\ u.up \in Int
      BY <1>2, SlotZero
    <3>3. Root'[u.up] = Root'[n] /\ n <= u.up
      BY <1>2, <3>1, <3>2 DEF Coarser
    <3>. QED
      BY <2>1, <2>2, <3>1, <3>3 DEF Carries
  <2>. QED
    BY <2>4, <2>5 DEF Delivered
<1>14. CASE CheckR(w)
  <2>1. pc[w] = "check_r" /\ UNCHANGED <<uf, loc>>
    BY <1>14 DEF CheckR
  <2>2. pc[w] \in CarryLabels
    BY <2>1 DEF CarryLabels
  <2>3. \A n \in Slot : \A b : Carries(w, n, b) => b \in u.qw /\ Root[u.up] = Root[n] /\ n <= u.up
    BY <1>6, <2>1, <2>2 DEF Carries
  <2>4. CASE uf[u.up].parent # 0 /\ CallFind(w, u.up, <<"found_r">>)
    <3>1. "found_r" \in FindBacks
      BY DEF FindBacks
    <3>2. pc'[w] = "find" /\ path'[w][1] = u.up /\ \A l : Awaits(w, l)' <=> l = "found_r"
      BY <1>1, <1>2, <1>6, <2>2, <2>4, <3>1, FindCalled
    <3>3. CarryFacts(w)'
      BY <2>1, <2>4, <3>2 DEF CarryFacts
    <3>4. Delivered(w)
      BY <1>4, <2>1, <2>3, <3>2 DEF Delivered, Carries
    <3>. QED
      BY <3>3, <3>4
  <2>5. CASE uf[u.up].parent = 0 /\ Goto(w, "unlock_a")
    <3>1. pc'[w] = "unlock_a" /\ \A l : ~Awaits(w, l)'
      BY <1>7, <2>2, <2>5
    <3>2. CarryFacts(w)'
      BY <3>1 DEF CarryFacts
    <3>3. Delivered(w)
      BY <1>2, <2>1, <2>3, <2>5, AtTop DEF Delivered, CarryFacts
    <3>. QED
      BY <3>2, <3>3
  <2>. QED
    BY <1>14, <2>4, <2>5 DEF CheckR
<1>15. CASE FoundR(w)
  <2>1. pc[w] = "found_r" /\ Resume(w, "add_qw") /\ UNCHANGED uf /\ {"found_r", "add_qw"} \subseteq CarryLabels
    BY <1>15 DEF FoundR, CarryLabels
  <2>2. pc'[w] = "add_qw" /\ (\A l : ~Awaits(w, l)') /\ \A l : ~Awaits(w, l)
    BY <1>6, <1>7, <2>1
  <2>3. loc'[w].unite = [u EXCEPT !.up = f]
    BY <1>1, <1>15 DEF FoundR, Locals
  <2>4. loc'[w].unite.qw = u.qw /\ loc'[w].unite.up = f
    BY <1>2, <2>3 DEF Unites
  <2>5. u.up < f /\ Root[f] = Root[u.up]
    BY <2>1 DEF CarryFacts
  <2>6. CarryFacts(w)'
    BY <2>2 DEF CarryFacts
  <2>7. ASSUME NEW n \in Slot, NEW b, Carries(w, n, b)
        PROVE  Carries(w, n, b)'
    <3>1. b \in u.qw /\ Root[u.up] = Root[n] /\ n <= u.up
      BY <2>1, <2>2, <2>7 DEF Carries
    <3>2. Root'[f] = Root'[n] /\ n < f
      BY <1>2, <1>4, <2>1, <2>5, <3>1, SlotZero
    <3>. QED
      BY <2>2, <2>4, <3>1, <3>2 DEF Carries
  <2>. QED
    BY <2>6, <2>7 DEF Delivered
<1>16. CASE ~(\/ FindRead(w) \/ FindCompress(w) \/ ClaimOr(w) \/ ClaimCheck(w) \/ SetParent(w)
              \/ ReadQw(w) \/ CompareRw(w) \/ AddQw(w) \/ CheckR(w) \/ FoundR(w))
  <2>1. ~Carrying(w) /\ ~Carrying(w)'
    BY <1>1, <1>16, NotCarrying
  <2>. QED
    BY <2>1, NoCarry DEF Delivered
<1>. QED
  BY <1>5, <1>8, <1>9, <1>10, <1>11, <1>12, <1>13, <1>14, <1>15, <1>16

\* Every step of the union-find keeps the account of the bits.
LEMMA UFStepBits ==
  ASSUME NEW callers, SetsInv(callers), BitsInv, NEW w \in Worker, UFStep(w)
  PROVE  BitsInv'
<1>1. Coarser /\ Typed(callers)' /\ Upward' /\ SetsInv(callers)'
  <2>1. SetsInv(callers)' /\ Coarser
    BY UFStepSets
  <2>. QED
    BY <2>1 DEF SetsInv
<1>2. Typed(callers) /\ Outside(callers) /\ InCall(w, callers) /\ CarryFacts(w) /\ Alone(w)
  BY UFStepAlone DEF SetsInv, Knows, BitsInv
<1>3. \A s \in Slot : uf[s].parent # 0 => uf'[s].parent # 0
  BY <1>1, ParentsStay
<1>4. /\ \A s \in Slot : uf[s].workers \subseteq uf'[s].workers
      /\ ClaimOr(w) \/ AddQw(w) \/ \A s \in Slot : uf'[s].workers = uf[s].workers
      /\ ClaimOr(w) => \A s \in Slot : uf'[s].workers = IF s = ret[w].node THEN uf[s].workers \cup w_id(w)
                                                                         ELSE uf[s].workers
      /\ AddQw(w) => \A s \in Slot : uf'[s].workers = IF s = loc[w].unite.up
                                                      THEN uf[s].workers \cup loc[w].unite.qw
                                                      ELSE uf[s].workers
  BY <1>2, WorkersGrow
<1>5. CarryFacts(w)' /\ Delivered(w)
  BY <1>1, <1>2, OwnCarry
<1>6. \A x \in Worker \ {w} : CarryFacts(x)' /\ \A n \in Slot : \A b : Carries(x, n, b) => Carries(x, n, b)'
  BY <1>1, <1>2, <1>3, <1>4, OthersCarry DEF BitsInv
<1>7. ASSUME NEW n \in Slot, NEW b, b \in uf[n].workers
      PROVE  Settled(n, b)' \/ \E x \in Worker : Carries(x, n, b)'
  <2>1. ASSUME NEW x \in Worker, Carries(x, n, b)
        PROVE  Settled(n, b)' \/ \E y \in Worker : Carries(y, n, b)'
    BY <1>5, <1>6, <2>1 DEF Delivered
  <2>2. CASE Settled(n, b) /\ ~(SetParent(w) /\ n = loc[w].unite.q)
    BY <1>1, <2>2, SettledKept
  <2>3. CASE SetParent(w) /\ n = loc[w].unite.q
    <3>1. Goto(w, "read_qw") /\ loc' = loc
      BY <2>3 DEF SetParent
    <3>2. pc'[w] = "read_qw"
      BY <1>2, <3>1 DEF Goto, Typed, ControlTyped
    <3>3. b \in uf'[loc'[w].unite.q].workers /\ n <= loc'[w].unite.q
      BY <1>4, <1>7, <2>3, <3>1, SlotZero
    <3>4. Carries(w, n, b)'
      BY <2>3, <3>1, <3>2, <3>3 DEF Carries
    <3>. QED
      BY <3>4
  <2>. QED
    BY <1>7, <2>1, <2>2, <2>3 DEF BitsInv
<1>8. ASSUME NEW n \in Slot, NEW b, b \in uf'[n].workers, b \notin uf[n].workers
      PROVE  Carries(w, n, b)'
  <2>1. CASE ClaimOr(w)
    <3>1. n = ret[w].node /\ b \in w_id(w)
      BY <1>4, <1>8, <2>1
    <3>2. Goto(w, "claim_check")
      BY <2>1 DEF ClaimOr
    <3>3. pc'[w] = "claim_check" /\ ret' = ret /\ n <= n
      BY <1>2, <3>2, SlotZero DEF Goto, Typed, ControlTyped
    <3>. QED
      BY <3>1, <3>3 DEF Carries, w_id
  <2>2. CASE AddQw(w)
    <3>1. n = loc[w].unite.up /\ b \in loc[w].unite.qw
      BY <1>4, <1>8, <2>2
    <3>2. Goto(w, "check_r") /\ loc' = loc
      BY <2>2 DEF AddQw
    <3>3. pc'[w] = "check_r" /\ n <= n
      BY <1>2, <3>2, SlotZero DEF Goto, Typed, ControlTyped
    <3>. QED
      BY <3>1, <3>2, <3>3 DEF Carries
  <2>. QED
    BY <1>4, <1>8, <2>1, <2>2
<1>. QED
  BY <1>5, <1>6, <1>7, <1>8 DEF BitsInv

\* The program's own steps leave the bits alone.
LEMMA CallerBits ==
  ASSUME NEW callers, SetsInv(callers), BitsInv, NEW w \in Worker, CallerStep(w, callers), Root' = Root
  PROVE  BitsInv'
<1>1. Typed(callers) /\ Outside(callers) /\ InCall(w, callers) /\ uf' = uf /\ pc[w] \in callers
  BY DEF SetsInv, Knows, CallerStep
<1>2. /\ stack[w] = <<>> /\ Alone(w)
      /\ \/ pc'[w] \in callers /\ stack'[w] = <<>>
         \/ \E c \in callers : pc'[w] \in {"pick_a", "remove"} /\ stack'[w] = <<c>>
         \/ \E c \in callers, b \in {"claim_dead", "same_b", "unite_a"} :
              pc'[w] = "find" /\ (stack'[w] = <<c>> \/ stack'[w] = <<c, b>>)
  BY <1>1, CallerMoves
<1>3. callers \cap CarryLabels = {} /\ {"find", "pick_a", "remove"} \cap CarryLabels = {}
  BY <1>1 DEF Outside, CarryLabels, Labels
<1>4. ~Carrying(w)
  BY <1>1, <1>2, <1>3 DEF Carrying, Awaits
<1>5. ~Carrying(w)'
  <2>1. ASSUME NEW c, stack'[w] = <<>> \/ stack'[w] = <<c>>
        PROVE  \A l : ~Awaits(w, l)'
    BY <2>1 DEF Awaits
  <2>2. ASSUME NEW c, NEW b \in {"claim_dead", "same_b", "unite_a"}, stack'[w] = <<c, b>>
        PROVE  \A l : Awaits(w, l)' <=> l = b
    BY <2>2 DEF Awaits
  <2>3. CASE pc'[w] \in callers /\ stack'[w] = <<>>
    BY <1>3, <2>1, <2>3 DEF Carrying
  <2>4. ASSUME NEW c \in callers, pc'[w] \in {"pick_a", "remove"}, stack'[w] = <<c>>
        PROVE  ~Carrying(w)'
    BY <1>3, <2>1, <2>4 DEF Carrying
  <2>5. ASSUME NEW c \in callers, NEW b \in {"claim_dead", "same_b", "unite_a"}, pc'[w] = "find",
               stack'[w] = <<c>> \/ stack'[w] = <<c, b>>
        PROVE  ~Carrying(w)'
    <3>1. \A l : Awaits(w, l)' => l \in {"claim_dead", "same_b", "unite_a"}
      BY <2>1, <2>2, <2>5
    <3>. QED
      BY <1>3, <2>5, <3>1 DEF Carrying
  <2>. QED
    BY <1>2, <2>3, <2>4, <2>5
<1>6. CarryFacts(w)' /\ \A n \in Slot : \A b : ~Carries(w, n, b)
  BY <1>4, <1>5, NoCarry
<1>7. Coarser
  BY DEF Coarser
<1>8. \A x \in Worker \ {w} : CarryFacts(x)' /\ \A n \in Slot : \A b : Carries(x, n, b) => Carries(x, n, b)'
  BY <1>1, <1>2, <1>7, OthersCarry DEF BitsInv
<1>9. \A n \in Slot : \A b : Settled(n, b) => Settled(n, b)'
  BY <1>1 DEF Settled
<1>. QED
  BY <1>1, <1>6, <1>8, <1>9 DEF BitsInv

\* When nobody carries a bit, every bit is at the representative.
LEMMA BitsArrive ==
  ASSUME NEW callers, SetsInv(callers), BitsInv
  PROVE  BitsAtRoot
<1>1. SUFFICES ASSUME \A t \in Worker : ~Settling(t), NEW n \in Node, NEW b, b \in uf[n].workers
               PROVE  b \in uf[Root[n]].workers
  BY DEF BitsAtRoot
<1>2. ASSUME NEW t \in Worker
      PROVE  \A s \in Slot : \A c : ~Carries(t, s, c)
  <2>1. \A l : Awaits(t, l) => 2 \in 1 .. Len(stack[t]) /\ stack[t][2] = l
    <3>1. Len(stack[t]) \in Nat
      BY DEF SetsInv, Typed, ControlTyped
    <3>. QED
      BY <3>1 DEF Awaits
  <2>2. ~Carrying(t)
    BY <1>1, <2>1 DEF Carrying, CarryLabels, Settling
  <2>. QED
    BY <2>2, NoCarry
<1>3. \A s \in Slot : \A c : c \in uf[s].workers => Settled(s, c)
  BY <1>2 DEF BitsInv
<1> DEFINE T == {m \in Slot : Root[m] = Root[n] /\ b \in uf[m].workers}
<1>4. n \in T /\ T \subseteq Slot
  BY <1>1 DEF Node, Slot
<1>5. PICK m \in T : \A k \in T : k <= m
  BY <1>4, HighestSlot
<1>6. uf[m].parent = 0
  <2>1. ASSUME NEW k \in Slot, m < k, Root[k] = Root[m], b \in uf[k].workers
        PROVE  FALSE
    <3>1. k \in T /\ k \in Int /\ m \in Int
      BY <1>5, <2>1, SlotZero
    <3>. QED
      BY <1>5, <2>1, <3>1
  <2>. QED
    BY <1>3, <1>5, <2>1 DEF Settled
<1>7. Root[m] = m
  BY <1>5, <1>6, RootFacts DEF SetsInv, Typed, Upward
<1>. QED
  BY <1>5, <1>7

\* There are none at first.
LEMMA BitsInit ==
  ASSUME UFInit, NEW callers, pc \in [Worker -> callers], Outside(callers)
  PROVE  BitsInv
<1>1. \A w \in Worker : ~Carrying(w)
  <2>1. callers \cap CarryLabels = {}
    BY DEF Outside, CarryLabels, Labels
  <2>2. \A w \in Worker : stack[w] = <<>>
    BY DEF UFInit
  <2>. QED
    BY <2>1, <2>2 DEF Carrying, Awaits
<1>2. \A n \in Slot : uf[n].workers = {}
  BY DEF UFInit, uf_node
<1>3. \A w \in Worker : CarryFacts(w)
  BY <1>1 DEF Carrying, CarryFacts, CarryLabels
<1>. QED
  BY <1>2, <1>3 DEF BitsInv

\* The bits too.
LEMMA StutterBits ==
  ASSUME BitsInv, UNCHANGED <<uf, pc, stack, ret, path, loc>>
  PROVE  BitsInv'
<1>1. Root' = Root /\ \A w \in Worker : (\A l : Awaits(w, l)' <=> Awaits(w, l))
  BY DEF Awaits, Root
<1>2. \A w \in Worker : CarryFacts(w)'
  BY <1>1 DEF BitsInv, CarryFacts
<1>3. \A n \in Slot : \A b : Settled(n, b) => Settled(n, b)'
  BY <1>1 DEF Settled
<1>4. \A w \in Worker, n \in Slot : \A b : Carries(w, n, b) => Carries(w, n, b)'
  BY <1>1 DEF Carries
<1>. QED
  BY <1>2, <1>3, <1>4 DEF BitsInv

-----------------------------------------------------------------------------
(* sameset: two states of one set are never found to differ *)

\* What sameset also knows when it is asked for two states of one set: find gives it the
\* representative of both, which no state of the set exceeds.
Meets(w) ==
  LET s == loc[w].same
  IN  /\ pc[w] = "same_b" \/ (pc[w] = "compress" /\ Awaits(w, "same_b")) => s.a <= ret[w].node
      /\ pc[w] = "same_a" => s.a < s.b
      /\ ret[w].code # "different"

\* find gives the representative, which no state of the set exceeds.
LEMMA FindMeets ==
  ASSUME NEW callers, SetsInv(callers), NEW w \in Worker, FindRead(w) \/ FindCompress(w),
         NEW x \in Slot, SameSets(w, x, x), Meets(w), Typed(callers)', Upward'
  PROVE  Meets(w)'
<1> DEFINE s == loc[w].same
<1>1. Typed(callers) /\ Outside(callers) /\ InCall(w, callers) /\ UfTyped /\ ParentIncreasing
  BY DEF SetsInv, Knows, Typed, Upward
<1>2. s.a \in Slot /\ s.b \in Slot /\ ret[w].node \in Slot /\ Root' = Root /\ loc' = loc /\ path[w][1] \in Slot
  BY <1>1, LocalsTyped, FindOutcome DEF Typed, ControlTyped
<1>3. pc[w] \in FindLabels /\ pc[w] \in Labels /\ pc[w] \notin SameLabels /\ pc[w] \notin PickLabels
  BY DEF FindRead, FindCompress, FindLabels, Labels, SameLabels, PickLabels
<1>4. Awaits(w, "same_b") => s.a <= Root[path[w][1]]
  <2>1. s.a <= Root[s.a]
    BY <1>1, <1>2, RootFacts
  <2>. QED
    BY <2>1 DEF SameSets
<1>5. CASE /\ pc'[w] \in FindLabels /\ stack' = stack
           /\ pc[w] = "find" /\ pc'[w] = "compress" => ret'[w].node = Root[path[w][1]]
           /\ pc[w] = "compress" => pc'[w] = "compress" /\ ret'[w] = ret[w]
  <2>1. pc'[w] \notin SameLabels
    BY <1>5 DEF SameLabels, FindLabels
  <2>2. \A l : Awaits(w, l)' <=> Awaits(w, l)
    BY <1>5 DEF Awaits
  <2>3. ret'[w] = ret[w] \/ ret'[w].code # "different"
    <3>1. \A code, node : Return(w, code, node) => ret'[w].code = code
      BY <1>1 DEF Return, Typed, ControlTyped
    <3>. QED
      BY <1>1, <3>1 DEF FindRead, FindCompress, Typed, ControlTyped, control
  <2>4. ret'[w].code # "different"
    BY <2>3 DEF Meets
  <2>5. pc[w] = "find" \/ pc[w] = "compress"
    BY <1>3 DEF FindLabels
  <2>. QED
    BY <1>2, <1>4, <1>5, <2>1, <2>2, <2>4, <2>5 DEF Meets, SameLabels
<1>6. ASSUME NEW node \in Slot, Return(w, "find", node),
             pc[w] = "find" => node = Root[path[w][1]], pc[w] = "compress" => node = ret[w].node
      PROVE  Meets(w)'
  <2> DEFINE code == "find"
  <2>1. Return(w, code, node)
    BY <1>6
  <2> HIDE DEF code
  <2>2. ret'[w] = [code |-> code, node |-> node]
    BY <1>1, <1>3, <2>1, AwaitsReturn
  <2>3. ret'[w].node = node /\ ret'[w].code # "different"
    BY <2>2 DEF code
  <2>4. \/ pc'[w] \in callers \cup {"mark_dead"}
        \/ pc'[w] \in FindBacks /\ Awaits(w, pc'[w])
    BY <1>1, <1>3, <2>1, AwaitsReturn
  <2>5. pc'[w] \notin FindLabels /\ pc'[w] # "same_a" /\ (pc'[w] = "same_b" => Awaits(w, "same_b"))
    BY <1>1, <2>4 DEF Outside, Labels, FindLabels, FindBacks
  <2>6. pc[w] = "find" \/ pc[w] = "compress"
    BY <1>3 DEF FindLabels
  <2>7. pc'[w] = "same_b" => s.a <= node
    BY <1>4, <1>6, <2>5, <2>6 DEF Meets
  <2>. QED
    BY <1>2, <2>3, <2>5, <2>7 DEF Meets, FindLabels
<1>. QED
  BY <1>5, <1>6, FindOutcome

\* So it never answers "different".
LEMMA UFStepMeets ==
  ASSUME NEW callers, SetsInv(callers), NEW w \in Worker, UFStep(w),
         NEW x \in Slot, SameSets(w, x, x), Meets(w)
  PROVE  Meets(w)'
<1> DEFINE s == loc[w].same
           node == ret[w].node
           Done == Meets(w)'
<1> SUFFICES Done
  OBVIOUS
<1>1. Typed(callers) /\ Outside(callers) /\ InCall(w, callers) /\ UfTyped /\ ParentIncreasing
  BY DEF SetsInv, Knows, Typed, Upward
<1>2. Typed(callers)' /\ Upward'
  BY UFStepSets DEF SetsInv
<1>3. s.a \in Slot /\ s.b \in Slot /\ node \in Slot /\ loc \in [Worker -> Locals] /\ s \in Sames
  BY <1>1, LocalsTyped DEF Typed, ControlTyped, LocTyped
<1>4. s.a \in Int /\ s.b \in Int /\ node \in Int /\ \A n \in Slot : Root[n] \in Int /\ n \in Int
  BY <1>1, <1>3, SlotZero, RootFacts
<1>5. CASE ~FindRead(w) /\ ~FindCompress(w) /\ ~SameB(w) /\ ~SameA(w) /\ ~SameRetry(w)
  <2>1. /\ ret'[w] = ret[w] \/ ret'[w].code \notin Verdicts
        /\ pc'[w] \notin SameLabels /\ ~Awaits(w, "same_b")' /\ ~Awaits(w, "same_retry")'
    BY <1>1, <1>5, NotSame
  <2>. QED
    BY <2>1 DEF Meets, SameLabels, Verdicts
<1>6. CASE FindRead(w) \/ FindCompress(w)
  BY <1>2, <1>6, FindMeets
<1>7. CASE SameB(w) \/ SameA(w) \/ SameRetry(w)
  <2>1. pc[w] \in Labels \ (FindLabels \cup PickLabels)
    BY <1>7 DEF SameB, SameA, SameRetry, Labels, FindLabels, PickLabels
  <2>2. callers \cap (SameLabels \cup FindLabels) = {} /\ "same_a" \in Labels \ FindLabels
        /\ SameLabels \cap FindLabels = {}
    BY <1>1 DEF Outside, SameLabels, Labels, FindLabels
  <2>3. ASSUME SameReturn(w, "same")
        PROVE  Done
    <3>1. Return(w, "same", 0)
      BY <2>3 DEF SameReturn
    <3>2. ret'[w].code = "same"
      BY <1>1, <3>1 DEF Return, Typed, ControlTyped
    <3>3. pc'[w] \in callers
      BY <1>1, <2>1, <3>1, Returned
    <3>. QED
      BY <2>2, <3>2, <3>3 DEF Meets, SameLabels, FindLabels
  <2>4. ASSUME NEW n \in Slot, NEW b, CallFind(w, n, <<b>>)
        PROVE  Done
    <3>1. pc'[w] = "find"
      BY <1>1, <2>1, <2>4, FindCalled
    <3>2. ret'[w].code # "different"
      BY <1>1, <2>4 DEF CallFind, Call, Typed, ControlTyped, NoRet
    <3>. QED
      BY <3>1, <3>2 DEF Meets
  <2> HIDE DEF Done
  <2>5. CASE SameB(w)
    <3>1. s.a <= node /\ Root[s.a] = Root[node]
      BY <2>5 DEF SameB, SameSets, Meets
    <3>2. ~(node < s.a)
      BY <1>3, <1>4, <3>1
    <3>3. CASE s.a < node /\ loc' = [loc EXCEPT ![w].same.b = node] /\ Resume(w, "same_a")
      <4>1. pc'[w] = "same_a"
        BY <1>1, <2>1, <2>2, <3>3, Moved
      <4>2. ret'[w].code # "different"
        BY <1>1, <3>3 DEF Resume, Typed, ControlTyped, NoRet
      <4>3. loc'[w].same = [s EXCEPT !.b = node]
        BY <1>3, <3>3 DEF Locals
      <4>4. loc'[w].same.a < loc'[w].same.b
        BY <1>3, <3>3, <4>3 DEF Sames
      <4>. QED
        BY <4>1, <4>2, <4>4 DEF Done, Meets
    <3>. QED
      BY <2>3, <2>5, <3>2, <3>3 DEF SameB
  <2>6. CASE SameA(w)
    <3>1. s.a < s.b /\ Root[s.a] = Root[s.b]
      BY <2>6 DEF SameA, SameSets, Meets
    <3>2. uf[s.a].parent # 0
      <4>1. s.b <= Root[s.b] /\ (uf[s.a].parent = 0 => Root[s.a] = s.a)
        BY <1>1, <1>3, RootFacts
      <4>. QED
        BY <1>3, <1>4, <3>1, <4>1
    <3>. QED
      BY <1>3, <2>4, <2>6, <3>2 DEF SameA
  <2>7. CASE SameRetry(w)
    BY <1>3, <2>3, <2>4, <2>7 DEF SameRetry
  <2>. QED
    BY <1>7, <2>5, <2>6, <2>7
<1>. QED
  BY <1>5, <1>6, <1>7

\* A call of sameset starts so.
LEMMA SamesetMeets ==
  ASSUME NEW callers, Typed(callers), Outside(callers), NEW w \in Worker, pc[w] \in callers,
         NEW x, NEW y, NEW back \in callers, CallSameset(w, x, y, back)
  PROVE  Meets(w)'
<1>1. back \notin SameLabels \cup FindLabels
  BY DEF Outside, SameLabels, Labels, FindLabels
<1>2. pc'[w] \in {back, "find"} /\ ret'[w].code # "different"
  BY DEF CallSameset, CallFind, Call, Typed, ControlTyped, NoRet
<1>. QED
  BY <1>1, <1>2 DEF Meets, SameLabels, FindLabels

\* And the others do not disturb it.
LEMMA OthersMeet ==
  ASSUME NEW w \in Worker, Alone(w), NEW t \in Worker \ {w}, Meets(t)
  PROVE  Meets(t)'
BY DEF Alone, OthersKept, Meets, Awaits

-----------------------------------------------------------------------------
(* unite: it goes on until its states are in one set *)

NoTombs == \A n \in Slot : uf[n].list_status # TOMB

\* Then pick_from_list always succeeds with its first state.
Plain(w) ==
  /\ pc[w] \notin (PickLabels \ {"pick_a"}) \cup {"remove", "remove_color"}
  /\ pc[w] \in FindLabels => \A l \in ListLabels \cup {"mark_dead"} : ~Awaits(w, l)
  /\ pc[w] \in ListLabels => ret[w].code = "PICK_SUCCESS"

\* Only remove_from_list makes a state explored.
LEMMA TombsKept ==
  ASSUME NEW callers, Typed(callers), NEW w \in Worker, UFStep(w), NoTombs, pc[w] # "remove"
  PROVE  NoTombs'
<1>1. uf \in [Slot -> Entry] /\ ret[w].node \in Slot /\ path[w] \in Seq(Slot) /\ (pc[w] = "compress" => path[w] # <<>>)
  BY DEF Typed, UfTyped, ControlTyped
<1>2. /\ loc[w].unite.q \in Slot /\ loc[w].unite.r \in Slot /\ loc[w].unite.up \in Slot
      /\ loc[w].unite.al \in Slot /\ loc[w].unite.bl \in Slot /\ loc[w].pick.a \in Slot
  BY LocalsTyped DEF Typed
<1> DEFINE Done == NoTombs'
<1>3. uf' = uf => Done
  BY DEF NoTombs
<1>4. LIVE # TOMB /\ LOCK # TOMB
  BY DEF LIVE, LOCK, TOMB
<1>20. ASSUME NEW s \in Slot, NEW status \in {LIVE, LOCK}, uf' = [uf EXCEPT ![s].list_status = status]
       PROVE  Done
  BY <1>1, <1>4, <1>20 DEF Entry, NoTombs
<1>5. CASE FindRead(w) \/ FindCompress(w)
  <2>1. FindCompress(w) => path[w][Len(path[w])] \in Slot
    BY <1>1, EmptySeq DEF FindCompress
  <2>2. FindCompress(w) => Done
    BY <1>1, <2>1 DEF FindCompress, Entry, NoTombs
  <2>. QED
    BY <1>3, <1>5, <2>2 DEF FindRead
<1>6. CASE ClaimDead(w) \/ ClaimFound(w) \/ ClaimOr(w) \/ ClaimCheck(w) \/ SameB(w) \/ SameA(w) \/ SameRetry(w)
  <2>1. ClaimOr(w) => Done
    BY <1>1 DEF ClaimOr, Entry, NoTombs
  <2>. QED
    BY <1>3, <1>6, <2>1 DEF ClaimDead, ClaimFound, ClaimCheck, SameB, SameA, SameRetry
<1>7. CASE \/ PickA(w) \/ PickNext(w) \/ PickB(w) \/ PickC(w) \/ PickCompare(w) \/ PickWrite(w)
           \/ MarkDead(w) \/ RemoveColor(w)
  <2>1. PickWrite(w) => Done
    BY <1>1, <1>2, SMTT(30) DEF PickWrite, Entry, NoTombs
  <2>2. uf' = [uf EXCEPT ![ret[w].node].uf_status = DEAD] => Done
    BY <1>1 DEF Entry, NoTombs
  <2>3. MarkDead(w) => Done
    BY <1>3, <2>2 DEF MarkDead
  <2>. QED
    BY <1>3, <1>7, <2>1, <2>3 DEF PickA, PickNext, PickB, PickC, PickCompare, RemoveColor
<1>8. CASE UniteFindB(w) \/ UniteRoots(w) \/ LockUf(w) \/ LockUfCheck(w) \/ LockUfUndo(w)
  <2>1. LockUf(w) /\ uf' # uf => \A s \in Slot : uf'[s].list_status = uf[s].list_status
    BY <1>1, <1>2 DEF LockUf, Entry
  <2>2. LockUfUndo(w) /\ uf' # uf => \A s \in Slot : uf'[s].list_status = uf[s].list_status
    BY <1>1, <1>2 DEF LockUfUndo, Entry
  <2>3. LockUf(w) \/ LockUfUndo(w) => Done
    BY <1>3, <2>1, <2>2 DEF NoTombs
  <2>. QED
    BY <1>3, <1>8, <2>3 DEF UniteFindB, UniteRoots, LockUfCheck
<1>9. CASE LockListA(w) \/ LockListB(w)
  BY <1>1, <1>2, <1>3, <1>9, <1>20 DEF LockListA, LockListB
<1>10. CASE SwapLists(w) \/ SetParent(w)
  <2>1. SwapLists(w) => Done
    <3>1. SwapLists(w) => \A s \in Slot : uf'[s].list_status = uf[s].list_status
      BY <1>2, SwappedKeeps DEF SwapLists, Typed
    <3>. QED
      BY <3>1 DEF NoTombs
  <2>2. SetParent(w) => Done
    BY <1>1, <1>2, SMTT(30) DEF SetParent, Merged, Entry, NoTombs
  <2>. QED
    BY <1>10, <2>1, <2>2
<1>11. CASE ReadQw(w) \/ CompareRw(w) \/ AddQw(w) \/ CheckR(w) \/ FoundR(w)
  <2>1. AddQw(w) => Done
    BY <1>1, <1>2, SMTT(30) DEF AddQw, Entry, NoTombs
  <2>. QED
    BY <1>3, <1>11, <2>1 DEF ReadQw, CompareRw, CheckR, FoundR
<1>12. CASE UnlockListA(w) \/ UnlockListB(w) \/ UnlockUf(w)
  <2>1. UnlockListA(w) \/ UnlockListB(w) => Done
    BY <1>2, <1>20 DEF UnlockListA, UnlockListB, Unlocked
  <2>2. UnlockUf(w) => Done
    BY <1>1, <1>2, SMTT(30) DEF UnlockUf, Entry, NoTombs
  <2>. QED
    BY <1>12, <2>1, <2>2
<1>. QED
  BY <1>5, <1>6, <1>7, <1>8, <1>9, <1>10, <1>11, <1>12 DEF UFStep, Remove

\* The steps of the union-find stay within what is plain.
LEMMA UFStepPlain ==
  ASSUME NEW callers, Typed(callers), Outside(callers), NEW w \in Worker, InCall(w, callers), UFStep(w),
         NoTombs, Plain(w)
  PROVE  NoTombs' /\ Plain(w)'
<1> DEFINE Done == Plain(w)'
           Outer == pc[w] \in Labels \ (FindLabels \cup PickLabels)
           Special == FindLabels \cup PickLabels \cup ListLabels \cup {"remove", "remove_color"}
<1>1. pc[w] \notin {"remove", "remove_color", "pick_next", "pick_b", "pick_c", "pick_compare", "pick_write", "mark_dead"}
  BY DEF Plain, PickLabels
<1>2. NoTombs'
  BY <1>1, TombsKept
<1>3. loc[w].same.a \in Slot /\ loc[w].same.b \in Slot /\ ret[w].node \in Slot /\ loc[w].pick.a \in Slot
      /\ loc[w].unite.a \in Slot /\ loc[w].unite.b \in Slot /\ loc[w].unite.up \in Slot
  BY LocalsTyped DEF Typed, ControlTyped
<1>4. /\ callers \cap Special = {}
      /\ FindLabels \cap (PickLabels \cup ListLabels \cup FindBacks \cup {"remove", "remove_color"}) = {}
      /\ ListLabels \cap (PickLabels \cup FindBacks \cup {"remove", "remove_color"}) = {}
      /\ FindBacks \cap (PickLabels \cup {"remove", "remove_color"}) = {}
      /\ "mark_dead" \in PickLabels /\ "pick_a" \in PickLabels
      /\ FindBacks \subseteq Labels \ Special
  BY DEF Outside, Labels, FindLabels, PickLabels, ListLabels, FindBacks
<1>5. ASSUME Outer, NEW label \in Labels \ Special, Goto(w, label) \/ Resume(w, label)
      PROVE  Done
  <2>1. pc'[w] = label
    BY <1>5, Moved
  <2>. QED
    BY <1>5, <2>1 DEF Plain
<1>6. ASSUME Outer, NEW s \in Slot, NEW b \in FindBacks, CallFind(w, s, <<b>>)
      PROVE  Done
  <2>1. pc'[w] = "find" /\ \A l : Awaits(w, l)' <=> l = b
    BY <1>6, FindCalled
  <2>2. b \notin ListLabels \cup {"mark_dead"} /\ "find" \in FindLabels
    BY <1>4, <1>6 DEF FindLabels
  <2>. QED
    BY <1>4, <2>1, <2>2 DEF Plain
<1>7. ASSUME Outer, NEW l \in ListLabels, Call(w, "pick_a", <<l>>)
      PROVE  Done
  <2>1. pc'[w] = "pick_a"
    BY <1>7, AwaitsPush
  <2>. QED
    BY <1>4, <2>1 DEF Plain
<1>8. ASSUME Outer, NEW code, NEW node, Return(w, code, node)
      PROVE  Done
  <2>1. pc'[w] \in callers
    BY <1>8, Returned
  <2>. QED
    BY <1>4, <2>1 DEF Plain
<1> HIDE DEF Done
<1> SUFFICES Done
  BY <1>2 DEF Done
<1>9. CASE FindRead(w) \/ FindCompress(w)
  <2>1. pc[w] \in FindLabels /\ pc[w] \in Labels /\ pc[w] \notin PickLabels
    BY <1>9 DEF FindRead, FindCompress, FindLabels, Labels, PickLabels
  <2>2. CASE pc'[w] \in FindLabels /\ stack' = stack
    <3>1. \A l : Awaits(w, l)' <=> Awaits(w, l)
      BY <2>2 DEF Awaits
    <3>. QED
      BY <1>4, <2>1, <2>2, <3>1 DEF Plain, Done
  <2>3. ASSUME NEW code, NEW node, Return(w, code, node)
        PROVE  Done
    <3>1. pc'[w] \in callers \/ pc'[w] \in FindBacks
          \/ (pc'[w] = "mark_dead" /\ \E l \in ListLabels \cup {"mark_dead"} : Awaits(w, l))
      BY <2>1, <2>3, AwaitsReturn
    <3>2. pc'[w] \in callers \cup FindBacks
      BY <2>1, <3>1 DEF Plain
    <3>. QED
      BY <1>4, <3>2 DEF Plain, Done
  <2>4. UNCHANGED control => pc'[w] \in FindLabels /\ stack' = stack
    BY <2>1 DEF control
  <2>5. pc' = [pc EXCEPT ![w] = "compress"] => pc'[w] \in FindLabels
    BY DEF Typed, ControlTyped, FindLabels
  <2>. QED
    BY <1>9, <2>2, <2>3, <2>4, <2>5 DEF FindRead, FindCompress
<1>10. CASE ClaimDead(w) \/ ClaimFound(w) \/ ClaimOr(w) \/ ClaimCheck(w)
  <2>1. Outer /\ {"claim_found", "claim_or", "claim_check"} \subseteq Labels \ Special /\ "claim_again" \in FindBacks
    BY <1>10 DEF ClaimDead, ClaimFound, ClaimOr, ClaimCheck, Labels, FindLabels, PickLabels, ListLabels, FindBacks
  <2>. QED
    BY <1>3, <1>5, <1>6, <1>8, <1>10, <2>1 DEF ClaimDead, ClaimFound, ClaimOr, ClaimCheck
<1>11. CASE SameB(w) \/ SameA(w) \/ SameRetry(w)
  <2>1. Outer /\ "same_a" \in Labels \ Special /\ {"same_b", "same_retry"} \subseteq FindBacks
    BY <1>11 DEF SameB, SameA, SameRetry, Labels, FindLabels, PickLabels, ListLabels, FindBacks
  <2>. QED
    BY <1>3, <1>5, <1>6, <1>8, <1>11, <2>1 DEF SameB, SameA, SameRetry, SameReturn
<1>12. CASE PickA(w)
  <2>1. pc[w] = "pick_a" /\ PickReturn(w, "PICK_SUCCESS", loc[w].pick.a)
    BY <1>3, <1>12 DEF PickA, Explored, NoTombs
  <2>2. Return(w, "PICK_SUCCESS", loc[w].pick.a) /\ pc[w] \in PickLabels /\ pc[w] \in Labels
    BY <1>4, <2>1 DEF PickReturn, Labels
  <2>3. ret'[w].code = "PICK_SUCCESS"
    BY <2>2 DEF Return, Typed, ControlTyped
  <2>4. pc[w] \notin FindLabels
    BY <1>4, <2>2
  <2>5. pc'[w] \in callers \/ pc'[w] \in ListLabels
    BY <2>2, <2>4, AwaitsReturn
  <2>. QED
    BY <1>4, <2>3, <2>5 DEF Plain, Done
<1>13. CASE UniteFindB(w) \/ UniteRoots(w) \/ LockUf(w) \/ LockUfCheck(w) \/ LockUfUndo(w)
  <2>1. Outer /\ {"lock_uf", "lock_uf_check", "lock_uf_undo"} \subseteq Labels \ Special
        /\ {"unite_a", "unite_b"} \subseteq FindBacks /\ "list_a" \in ListLabels
    BY <1>13 DEF UniteFindB, UniteRoots, LockUf, LockUfCheck, LockUfUndo, Labels, FindLabels, PickLabels,
       ListLabels, FindBacks
  <2>. QED
    BY <1>3, <1>5, <1>6, <1>7, <1>8, <1>13, <2>1 DEF UniteFindB, UniteRoots, LockUf, LockUfCheck,
       LockUfUndo, UniteReturn, UniteRetry, CallPick
<1>14. CASE LockListA(w) \/ LockListB(w)
  <2>1. Outer /\ "swap" \in Labels \ Special /\ {"list_a", "list_b"} \subseteq ListLabels
    BY <1>14 DEF LockListA, LockListB, Labels, FindLabels, PickLabels, ListLabels
  <2>. QED
    BY <1>5, <1>7, <1>8, <1>14, <2>1 DEF LockListA, LockListB, UniteReturn, CallPick
<1>15. CASE \/ SwapLists(w) \/ SetParent(w) \/ ReadQw(w) \/ CompareRw(w) \/ AddQw(w) \/ CheckR(w)
            \/ FoundR(w) \/ UnlockListA(w) \/ UnlockListB(w) \/ UnlockUf(w)
  <2>1. Outer
    BY <1>15 DEF SwapLists, SetParent, ReadQw, CompareRw, AddQw, CheckR, FoundR, UnlockListA, UnlockListB,
       UnlockUf, Labels, FindLabels, PickLabels
  <2>2. {"set_parent", "read_qw", "compare_rw", "add_qw", "unlock_a", "check_r", "unlock_b", "unlock_uf"}
           \subseteq Labels \ Special /\ "found_r" \in FindBacks
    BY DEF Labels, FindLabels, PickLabels, ListLabels, FindBacks
  <2>. QED
    BY <1>3, <1>5, <1>6, <1>8, <1>15, <2>1, <2>2 DEF SwapLists, SetParent, ReadQw, CompareRw, AddQw,
       CheckR, FoundR, UnlockListA, UnlockListB, UnlockUf, UniteReturn
<1>16. ~(\/ PickNext(w) \/ PickB(w) \/ PickC(w) \/ PickCompare(w) \/ PickWrite(w)
         \/ MarkDead(w) \/ Remove(w) \/ RemoveColor(w))
  BY <1>1 DEF PickNext, PickB, PickC, PickCompare, PickWrite, MarkDead, Remove, RemoveColor
<1>. QED
  BY <1>9, <1>10, <1>11, <1>12, <1>13, <1>14, <1>15, <1>16 DEF UFStep

\* unite keeps its two states.
LEMMA UFStepStates ==
  ASSUME NEW callers, Typed(callers), NEW w \in Worker, UFStep(w)
  PROVE  \/ loc'[w].unite.a = loc[w].unite.a /\ loc'[w].unite.b = loc[w].unite.b
         \/ UniteReturn(w) /\ pc[w] \in {"unite_b", "list_a", "list_b", "unlock_uf"}
<1> DEFINE u == loc[w].unite
           v == loc'[w].unite
           Kept == v.a = u.a /\ v.b = u.b
           Done == Kept \/ (UniteReturn(w) /\ pc[w] \in {"unite_b", "list_a", "list_b", "unlock_uf"})
<1> SUFFICES Done
  OBVIOUS
<1>1. loc \in [Worker -> Locals] /\ u \in Unites
  BY LocalsTyped DEF Typed, LocTyped
<1>2. v = u => Done
  OBVIOUS
<1>3. CASE \/ FindRead(w) \/ FindCompress(w)
           \/ ClaimDead(w) \/ ClaimFound(w) \/ ClaimOr(w) \/ ClaimCheck(w)
           \/ SameB(w) \/ SameA(w) \/ SameRetry(w)
  <2>1. v = u
    BY <1>1, <1>3 DEF Locals, FindRead, FindCompress, ClaimDead, ClaimFound, ClaimOr, ClaimCheck, SameB, SameA,
       SameRetry, SameReturn
  <2>. QED
    BY <1>2, <2>1
<1>4. CASE \/ PickA(w) \/ PickNext(w) \/ PickB(w) \/ PickC(w) \/ PickCompare(w) \/ PickWrite(w)
           \/ MarkDead(w) \/ Remove(w) \/ RemoveColor(w)
  <2>1. v = u
    BY <1>1, <1>4 DEF Locals, PickA, PickNext, PickB, PickC, PickCompare, PickWrite, MarkDead,
       Remove, RemoveColor, PickReturn, ContinueFromC
  <2>. QED
    BY <1>2, <2>1
<1>5. UniteRetry(w) => Kept
  <2>1. UniteRetry(w) => v = [u EXCEPT !.q = 0, !.r = 0]
    BY <1>1 DEF UniteRetry, Locals
  <2>. QED
    BY <1>1, <2>1 DEF Unites
<1>6. CASE UniteFindB(w) \/ LockUf(w) \/ LockUfCheck(w) \/ LockUfUndo(w)
  <2>1. UniteFindB(w) => v = [u EXCEPT !.ar = ret[w].node]
    BY <1>1 DEF UniteFindB, Locals
  <2>2. UniteFindB(w) => Kept
    BY <1>1, <2>1 DEF Unites
  <2>3. LockUfCheck(w) => v = u
    BY <1>1 DEF LockUfCheck, Locals, CallPick
  <2>. QED
    BY <1>2, <1>5, <1>6, <2>2, <2>3 DEF LockUf, LockUfUndo
<1>7. CASE UniteRoots(w)
  <2>1. CASE loc' = [loc EXCEPT ![w].unite = Roles(@, loc[w].unite.ar, ret[w].node)]
    <3>1. v = Roles(u, u.ar, ret[w].node)
      BY <1>1, <2>1 DEF Locals
    <3>. QED
      BY <1>1, <3>1 DEF Roles, Unites
  <2>. QED
    BY <1>7, <2>1 DEF UniteRoots
<1>8. CASE LockListA(w)
  <2>1. CASE loc' = [loc EXCEPT ![w] = [@ EXCEPT !.unite.al = ret[w].node, !.pick.a = u.b]]
    <3>1. v = [u EXCEPT !.al = ret[w].node]
      BY <1>1, <2>1 DEF Locals
    <3>. QED
      BY <1>1, <3>1 DEF Unites
  <2>2. CASE CallPick(w, u.a, <<"list_a">>)
    BY <1>1, <2>2 DEF CallPick, Locals
  <2>. QED
    BY <1>8, <2>1, <2>2 DEF LockListA
<1>9. CASE LockListB(w)
  <2>1. CASE loc' = [loc EXCEPT ![w].unite.bl = ret[w].node]
    <3>1. v = [u EXCEPT !.bl = ret[w].node]
      BY <1>1, <2>1 DEF Locals
    <3>. QED
      BY <1>1, <3>1 DEF Unites
  <2>2. CASE CallPick(w, u.b, <<"list_b">>)
    BY <1>1, <2>2 DEF CallPick, Locals
  <2>. QED
    BY <1>9, <2>1, <2>2 DEF LockListB
<1>10. CASE SwapLists(w) \/ SetParent(w) \/ AddQw(w) \/ CheckR(w) \/ UnlockListA(w) \/ UnlockListB(w)
  BY <1>10 DEF SwapLists, SetParent, AddQw, CheckR, UnlockListA, UnlockListB
<1>11. CASE ReadQw(w) \/ CompareRw(w) \/ FoundR(w)
  BY <1>1, <1>11 DEF ReadQw, CompareRw, FoundR, Locals, Unites
<1> HIDE DEF Done
<1>12. CASE UnlockUf(w)
  BY <1>12 DEF UnlockUf, Done
<1>. QED
  BY <1>3, <1>4, <1>6, <1>7, <1>8, <1>9, <1>10, <1>11, <1>12 DEF UFStep

\* Who is in unite is in a call of the program.
LEMMA BusyStackNext ==
  ASSUME NEW callers, Outside(callers), NEW w \in Worker, InCall(w, callers)', Busy(w)'
  PROVE  stack'[w] # <<>>
<1>1. pc'[w] \in callers /\ stack'[w] = <<>> => ~Busy(w)'
  BY DEF Outside, Busy, Region, RegionLabels, Labels, Awaits
<1>2. \A c, b, d : <<c>> # <<>> /\ <<c, b>> # <<>> /\ <<c, b, d>> # <<>>
  OBVIOUS
<1>. QED
  BY <1>1, <1>2 DEF InCall

\* unite (a, b) goes on until a and b are in one set, or a list turns out empty.
LEMMA UniteGoes ==
  ASSUME NEW callers, SetsInv(callers), NEW w \in Worker, UFStep(w), Busy(w)
  PROVE  \/ Busy(w)' /\ loc'[w].unite.a = loc[w].unite.a /\ loc'[w].unite.b = loc[w].unite.b
         \/ /\ pc'[w] \in callers /\ stack'[w] = <<>>
            /\ \/ Root'[loc[w].unite.a] = Root'[loc[w].unite.b]
               \/ pc[w] \in ListLabels /\ Completed(w)
<1> DEFINE u == loc[w].unite
           Joins == /\ pc'[w] \in callers /\ stack'[w] = <<>>
                    /\ \/ Root'[u.a] = Root'[u.b]
                       \/ pc[w] \in ListLabels /\ Completed(w)
           Outer == pc[w] \in Labels \ (FindLabels \cup PickLabels)
<1>1. Typed(callers) /\ Outside(callers) /\ InCall(w, callers) /\ UniteSets(w)
  BY DEF SetsInv, Knows
<1>2. Coarser
  BY UFStepSets
<1>3. u.a \in Slot /\ u.b \in Slot /\ u.up \in Slot /\ ret[w].node \in Slot
  BY <1>1, LocalsTyped DEF Typed, ControlTyped
<1>4. ASSUME Outer, UniteReturn(w)
      PROVE  pc'[w] \in callers /\ stack'[w] = <<>>
  <2>1. Return(w, "united", 0)
    BY <1>4 DEF UniteReturn
  <2>2. PICK c \in callers : stack[w] = <<c>>
    BY <1>1, <1>4, OuterStack
  <2>3. stack'[w] = <<>>
    BY <1>1, <2>1, <2>2, PopOne DEF Return, Typed, ControlTyped
  <2>4. pc'[w] \in callers
    BY <1>1, <1>4, <2>1, Returned
  <2>. QED
    BY <2>3, <2>4
<1>5. ASSUME Outer, NEW label \in RegionLabels, Goto(w, label) \/ Resume(w, label)
      PROVE  Busy(w)'
  <2>1. label \in Labels \ FindLabels
    BY <1>5 DEF RegionLabels, Labels, FindLabels
  <2>2. pc'[w] = label
    BY <1>1, <1>5, <2>1, Moved
  <2>. QED
    BY <1>5, <2>2 DEF Busy, Region
<1>6. ASSUME Outer, NEW s \in Slot, NEW b \in {"unite_a", "unite_b", "found_r"}, CallFind(w, s, <<b>>)
      PROVE  Busy(w)'
  <2>1. \A l : Awaits(w, l)' <=> l = b
    BY <1>1, <1>6, FindCalled
  <2>. QED
    BY <1>6, <2>1 DEF Busy, Region
<1>7. ASSUME Outer, NEW l \in ListLabels, Call(w, "pick_a", <<l>>)
      PROVE  Busy(w)'
  <2>1. \A k : Awaits(w, k)' <=> k = l
    BY <1>1, <1>7, AwaitsPush
  <2>. QED
    BY <1>7, <2>1 DEF Busy, Region
<1>8. (\A l : Awaits(w, l) => Awaits(w, l)') /\ ~Outer => Busy(w)'
  <2>1. RegionLabels \cup {"unite_a", "unite_b"} \subseteq Labels \ (FindLabels \cup PickLabels)
    BY DEF RegionLabels, Labels, FindLabels, PickLabels
  <2>. QED
    BY <2>1 DEF Busy, Region
<1>9. ASSUME ~Outer, pc[w] \in Labels, NEW code, NEW node, Return(w, code, node)
      PROVE  Busy(w)'
  <2>1. RegionLabels \cup {"unite_a", "unite_b"} \subseteq Labels \ (FindLabels \cup PickLabels)
    BY DEF RegionLabels, Labels, FindLabels, PickLabels
  <2>2. PICK l \in ListLabels \cup {"found_r", "unite_a", "unite_b"} : Awaits(w, l)
    BY <1>9, <2>1 DEF Busy, Region
  <2>3. \A k : Awaits(w, k) => k = l
    BY <1>1, <2>2, AwaitsWhere
  <2>4. \/ \A k : Awaits(w, k)' <=> Awaits(w, k)
        \/ Awaits(w, "mark_dead")
        \/ Awaits(w, pc'[w])
    BY <1>1, <1>9, <2>2, AwaitsReturn
  <2>5. l # "mark_dead" /\ l \in RegionLabels \cup {"unite_a", "unite_b"}
    BY DEF ListLabels, RegionLabels
  <2>. QED
    BY <2>2, <2>3, <2>4, <2>5 DEF Busy, Region
<1>10. ASSUME pc[w] \in PickLabels, NEW s, CallFind(w, s, <<"mark_dead">>)
       PROVE  Busy(w)'
  <2>1. \A l : Awaits(w, l)' <=> Awaits(w, l) \/ (l = "mark_dead" /\ \A k : ~Awaits(w, k))
    BY <1>1, <1>10, AwaitsMark DEF CallFind
  <2>. QED
    BY <1>8, <1>10, <2>1
<1>11. UNCHANGED stack => \A l : Awaits(w, l) => Awaits(w, l)'
  BY DEF Awaits
<1>12. ASSUME UniteReturn(w), pc[w] \in {"unite_b", "list_a", "list_b", "unlock_uf"}
       PROVE  Outer /\ ~Busy(w)'
  <2>1. Outer
    BY <1>12 DEF Labels, FindLabels, PickLabels
  <2>2. pc'[w] \in callers /\ stack'[w] = <<>>
    BY <1>4, <1>12, <2>1
  <2>3. Len(stack'[w]) = 0
    BY <2>2
  <2>4. \A l : ~Awaits(w, l)'
    BY <2>3 DEF Awaits
  <2>5. pc'[w] \notin Labels
    BY <1>1, <2>2 DEF Outside
  <2>. QED
    BY <2>1, <2>4, <2>5 DEF Busy, Region, Labels, RegionLabels
<1> DEFINE Done == Busy(w)' \/ Joins
<1>13. SUFFICES Done
  <2>1. \/ u.a = loc'[w].unite.a /\ u.b = loc'[w].unite.b
        \/ UniteReturn(w) /\ pc[w] \in {"unite_b", "list_a", "list_b", "unlock_uf"}
    BY <1>1, UFStepStates
  <2>. QED
    BY <1>12, <2>1
<1>14. Busy(w)' => Done
  OBVIOUS
<1>15. Root[u.a] = Root[u.b] => Root'[u.a] = Root'[u.b]
  BY <1>2, <1>3 DEF Coarser
<1>16. ASSUME UniteReturn(w), pc[w] \in {"unite_b", "list_a", "list_b", "unlock_uf"},
              Root[u.a] = Root[u.b] \/ (pc[w] \in ListLabels /\ Completed(w))
       PROVE  Done
  BY <1>4, <1>12, <1>15, <1>16
<1> HIDE DEF Done
<1>20. CASE FindRead(w) \/ FindCompress(w)
  <2>1. pc[w] \in FindLabels /\ ~Outer /\ pc[w] \in Labels
    BY <1>20 DEF FindRead, FindCompress, FindLabels, Labels
  <2>2. UNCHANGED stack \/ \E node : Return(w, "find", node)
    BY <1>20 DEF FindRead, FindCompress, control
  <2>. QED
    BY <1>8, <1>9, <1>11, <1>14, <2>1, <2>2
<1>21. CASE \/ ClaimDead(w) \/ ClaimFound(w) \/ ClaimOr(w) \/ ClaimCheck(w)
            \/ SameB(w) \/ SameA(w) \/ SameRetry(w) \/ Remove(w) \/ RemoveColor(w)
  <2>1. pc[w] \in {"claim_dead", "claim_found", "claim_or", "claim_again", "claim_check",
                   "same_b", "same_a", "same_retry", "remove", "remove_color"}
    BY <1>21 DEF ClaimDead, ClaimFound, ClaimOr, ClaimCheck, SameB, SameA, SameRetry, Remove, RemoveColor
  <2>2. \A l : ~Awaits(w, l)
    BY <1>1, <2>1, AwaitsNone DEF Labels, FindLabels, PickLabels
  <2>. QED
    BY <2>1, <2>2 DEF Busy, Region, RegionLabels
<1>23. CASE PickA(w) \/ PickNext(w) \/ PickB(w) \/ PickC(w) \/ PickCompare(w) \/ PickWrite(w) \/ MarkDead(w)
  <2>1. pc[w] \in PickLabels /\ ~Outer /\ pc[w] \in Labels
    BY <1>23 DEF PickA, PickNext, PickB, PickC, PickCompare, PickWrite, MarkDead, PickLabels, Labels
  <2>2. \/ UNCHANGED stack
        \/ \E code, node : Return(w, code, node)
        \/ \E s : CallFind(w, s, <<"mark_dead">>)
    BY <1>23 DEF PickA, PickNext, PickB, PickC, PickCompare, PickWrite, MarkDead, PickReturn, ContinueFromC, Goto
  <2>. QED
    BY <1>8, <1>9, <1>10, <1>11, <1>14, <2>1, <2>2
<1>24. CASE UniteFindB(w)
  <2>1. CallFind(w, u.b, <<"unite_b">>) /\ Outer
    BY <1>24 DEF UniteFindB, Labels, FindLabels, PickLabels
  <2>. QED
    BY <1>3, <1>6, <1>14, <2>1
<1>25. UniteRetry(w) /\ Outer => Done
  BY <1>3, <1>6, <1>14 DEF UniteRetry
<1>26. CASE UniteRoots(w)
  <2>1. pc[w] = "unite_b" /\ Outer
    BY <1>26 DEF UniteRoots, Labels, FindLabels, PickLabels
  <2>2. Resume(w, "lock_uf") => Done
    BY <1>5, <1>14, <2>1 DEF RegionLabels
  <2>3. u.ar = ret[w].node => Root[u.a] = Root[u.b]
    BY <1>1, <2>1 DEF UniteSets
  <2>. QED
    BY <1>16, <1>26, <2>1, <2>2, <2>3 DEF UniteRoots
<1>27. CASE LockUf(w) \/ LockUfUndo(w)
  <2>1. Outer
    BY <1>27 DEF LockUf, LockUfUndo, Labels, FindLabels, PickLabels
  <2>2. Goto(w, "lock_uf_check") => Done
    BY <1>5, <1>14, <2>1 DEF RegionLabels
  <2>. QED
    BY <1>25, <1>27, <2>1, <2>2 DEF LockUf, LockUfUndo
<1>28. CASE LockUfCheck(w)
  <2>1. Outer
    BY <1>28 DEF LockUfCheck, Labels, FindLabels, PickLabels
  <2>2. Goto(w, "lock_uf_undo") => Done
    BY <1>5, <1>14, <2>1 DEF RegionLabels
  <2>3. CallPick(w, u.a, <<"list_a">>) => Done
    BY <1>7, <1>14, <2>1 DEF CallPick, ListLabels
  <2>. QED
    BY <1>28, <2>2, <2>3 DEF LockUfCheck
<1>29. CASE LockListA(w) \/ LockListB(w)
  <2>1. Outer /\ pc[w] \in ListLabels
    BY <1>29 DEF LockListA, LockListB, Labels, FindLabels, PickLabels, ListLabels
  <2>2. \A l \in ListLabels : Call(w, "pick_a", <<l>>) => Done
    BY <1>7, <1>14, <2>1
  <2>3. Resume(w, "swap") => Done
    BY <1>5, <1>14, <2>1 DEF RegionLabels
  <2>4. UniteReturn(w) /\ Completed(w) => Done
    BY <1>16, <2>1 DEF ListLabels
  <2>. QED
    BY <1>29, <2>2, <2>3, <2>4 DEF LockListA, LockListB, CallPick, ListLabels
<1>30. CASE \/ SwapLists(w) \/ SetParent(w) \/ ReadQw(w) \/ CompareRw(w) \/ AddQw(w) \/ FoundR(w)
            \/ UnlockListA(w) \/ UnlockListB(w)
  <2>1. Outer
    BY <1>30 DEF SwapLists, SetParent, ReadQw, CompareRw, AddQw, FoundR, UnlockListA, UnlockListB,
       Labels, FindLabels, PickLabels
  <2>2. \E label \in RegionLabels : Goto(w, label) \/ Resume(w, label)
    BY <1>30 DEF SwapLists, SetParent, ReadQw, CompareRw, AddQw, FoundR, UnlockListA, UnlockListB,
       RegionLabels
  <2>. QED
    BY <1>5, <1>14, <2>1, <2>2
<1>31. CASE CheckR(w)
  <2>1. Outer
    BY <1>31 DEF CheckR, Labels, FindLabels, PickLabels
  <2>2. Goto(w, "unlock_a") => Done
    BY <1>5, <1>14, <2>1 DEF RegionLabels
  <2>3. CallFind(w, u.up, <<"found_r">>) => Done
    BY <1>3, <1>6, <1>14, <2>1
  <2>. QED
    BY <1>31, <2>2, <2>3 DEF CheckR
<1>32. CASE UnlockUf(w)
  <2>1. pc[w] = "unlock_uf" /\ UniteReturn(w)
    BY <1>32 DEF UnlockUf
  <2>2. Root[u.a] = Root[u.b]
    BY <1>1, <2>1 DEF UniteSets, Joined, JoinedLabels
  <2>. QED
    BY <1>16, <2>1, <2>2
<1>. QED
  BY <1>20, <1>21, <1>23, <1>24, <1>26, <1>27, <1>28, <1>29, <1>30, <1>31, <1>32 DEF UFStep

(***************************************************************************)
(* The cyclic list of each set while workers pick from it, remove from it  *)
(* and splice two of them.                                                 *)
(***************************************************************************)

-----------------------------------------------------------------------------
(* Cycles: s is the successor of each slot on its cycle, c names the cycle  *)

\* A set with a slot n of a cycle that s does not leave has the whole cycle.
Passes(s, c) ==
  \A S \in SUBSET Slot : \A n \in S :
    (\A k \in S : c[k] = c[n] => s[k] \in S) => \A m \in Slot : c[m] = c[n] => m \in S

Cycles(s, c) ==
  /\ s \in [Slot -> Slot] /\ c \in [Slot -> Slot]
  /\ \A n \in Slot : c[s[n]] = c[n]
  /\ Passes(s, c)

Spliced(s, a, b) == [s EXCEPT ![a] = s[b], ![b] = s[a]]
Renamed(c, q, x) == [n \in Slot |-> IF c[n] = q THEN x ELSE c[n]]

\* A set of slots that s does not leave has the whole cycle of each of its
\* members.
LEMMA PassesInside ==
  ASSUME NEW s, NEW c, Passes(s, c), NEW S \in SUBSET Slot, NEW n \in S,
         \A k \in S : c[k] = c[n] => s[k] \in S,
         NEW m \in Slot, c[m] = c[n]
  PROVE  m \in S
BY DEF Passes

\* Exchanging the successors of slots of two cycles makes one cycle of them.
LEMMA CyclesSpliced ==
  ASSUME NEW s, NEW c, Cycles(s, c), NEW a \in Slot, NEW b \in Slot, c[a] # c[b],
         NEW q, NEW x \in Slot, (c[a] = q /\ c[b] = x) \/ (c[a] = x /\ c[b] = q)
  PROVE  Cycles(Spliced(s, a, b), Renamed(c, q, x))
<1> DEFINE d == Spliced(s, a, b)
           e == Renamed(c, q, x)
<1>1. /\ d \in [Slot -> Slot] /\ d[a] = s[b] /\ d[b] = s[a]
      /\ \A k \in Slot \ {a, b} : d[k] = s[k]
  BY DEF Spliced, Cycles
<1>2. e \in [Slot -> Slot] /\ \A k \in Slot : e[k] = IF c[k] = q THEN x ELSE c[k]
  BY DEF Renamed, Cycles
<1>3. \A k \in Slot : s[k] \in Slot /\ c[s[k]] = c[k]
  BY DEF Cycles
<1> HIDE DEF d, e
<1>4. \A k \in Slot : e[d[k]] = e[k]
  <2> TAKE k \in Slot
  <2>1. CASE k = a \/ k = b
    BY <1>1, <1>2, <1>3, <2>1
  <2>2. CASE k \notin {a, b}
    BY <1>1, <1>2, <1>3, <2>2
  <2>. QED
    BY <2>1, <2>2
<1>5. ASSUME NEW S \in SUBSET Slot, NEW n \in S, \A k \in S : e[k] = e[n] => d[k] \in S,
             NEW m \in Slot, e[m] = e[n]
      PROVE  m \in S
  <2>1. CASE c[n] # c[a] /\ c[n] # c[b]
    <3>1. \A k \in S : c[k] = c[n] => s[k] \in S
      BY <1>1, <1>2, <1>5, <2>1
    <3>2. c[m] = c[n]
      BY <1>2, <1>5, <2>1
    <3>. QED
      BY <3>1, <3>2, PassesInside DEF Cycles
  <2>2. ASSUME NEW g \in {a, b}, NEW h \in {a, b}, g # h, c[n] = c[g]
        PROVE  m \in S
    <3>0. \A k \in S : c[k] = c[g] \/ c[k] = c[h] => d[k] \in S
      BY <1>2, <1>5, <2>2
    <3>1. g \in S
      <4>1. CASE \A k \in S : c[k] = c[n] => s[k] \in S
        BY <2>2, <4>1, PassesInside DEF Cycles
      <4>2. CASE ~ \A k \in S : c[k] = c[n] => s[k] \in S
        BY <1>1, <2>2, <3>0, <4>2
      <4>. QED
        BY <4>1, <4>2
    <3>2. s[h] \in S /\ c[s[h]] = c[h]
      BY <1>1, <1>3, <2>2, <3>0, <3>1
    <3>3. h \in S
      <4>1. CASE \A k \in S : c[k] = c[s[h]] => s[k] \in S
        BY <3>2, <4>1, PassesInside DEF Cycles
      <4>2. CASE ~ \A k \in S : c[k] = c[s[h]] => s[k] \in S
        BY <1>1, <2>2, <3>0, <3>2, <4>2
      <4>. QED
        BY <4>1, <4>2
    <3>4. s[g] \in S
      BY <1>1, <2>2, <3>0, <3>3
    <3>5. \A k \in S : c[k] = c[g] \/ c[k] = c[h] => s[k] \in S
      BY <1>1, <2>2, <3>0, <3>2, <3>4
    <3>6. c[m] = c[g] \/ c[m] = c[h]
      BY <1>2, <1>5, <2>2
    <3>7. c[m] = c[g] => m \in S
      BY <3>1, <3>5, PassesInside DEF Cycles
    <3>8. c[m] = c[h] => m \in S
      BY <3>3, <3>5, PassesInside DEF Cycles
    <3>. QED
      BY <3>6, <3>7, <3>8
  <2>. QED
    BY <2>1, <2>2
<1>6. Passes(d, e)
  BY <1>5 DEF Passes
<1>. QED
  BY <1>1, <1>2, <1>4, <1>6 DEF Cycles, d, e

-----------------------------------------------------------------------------
(* Where a worker is on the lists *)

\* In pick_from_list, find called by it included; on a list at all.
Picking(w) == pc[w] \in PickLabels \/ \E l \in ListLabels \cup {"mark_dead"} : Awaits(w, l)
OnList(w)  == Picking(w) \/ pc[w] \in {"remove", "remove_color", "list_a", "list_b", "swap", "set_parent"}

\* Functions that run alone: what follows a move, a call of find, or a return.
LEMMA AloneOff ==
  ASSUME NEW callers, Typed(callers), Outside(callers), NEW w \in Worker, InCall(w, callers),
         pc[w] \in Labels \ (FindLabels \cup PickLabels)
  PROVE  /\ \A label \in Labels \ (FindLabels \cup PickLabels \cup {"remove", "remove_color", "list_a", "list_b", "swap", "set_parent"}) :
              Goto(w, label) \/ Resume(w, label) => ~OnList(w)'
         /\ \A s \in Slot, b \in FindBacks : CallFind(w, s, <<b>>) => ~OnList(w)'
         /\ \A code, node : Return(w, code, node) => ~OnList(w)'
<1> DEFINE off == Labels \ (FindLabels \cup PickLabels \cup {"remove", "remove_color", "list_a", "list_b", "swap", "set_parent"})
<1>1. ASSUME NEW label \in off, Goto(w, label) \/ Resume(w, label)
      PROVE  ~OnList(w)'
  <2>1. pc'[w] = label /\ \A l : ~Awaits(w, l)'
    BY <1>1, Moved
  <2>. QED
    BY <2>1 DEF OnList, Picking
<1>2. ASSUME NEW s \in Slot, NEW b \in FindBacks, CallFind(w, s, <<b>>)
      PROVE  ~OnList(w)'
  <2>1. pc'[w] = "find" /\ \A l : Awaits(w, l)' <=> l = b
    BY <1>2, FindCalled
  <2>2. b \notin ListLabels \cup {"mark_dead"}
    BY DEF FindBacks, ListLabels
  <2>. QED
    BY <2>1, <2>2 DEF OnList, Picking, PickLabels
<1>3. ASSUME NEW code, NEW node, Return(w, code, node)
      PROVE  ~OnList(w)'
  <2>1. pc'[w] \in callers /\ \A l : ~Awaits(w, l)'
    BY <1>3, Returned
  <2>. QED
    BY <2>1 DEF OnList, Picking, Outside, Labels, PickLabels
<1>. QED
  BY <1>1, <1>2, <1>3

\* The steps that have nothing to do with the lists, and those that end it.
LEMMA Elsewhere ==
  ASSUME NEW callers, SetsInv(callers), NEW w \in Worker,
         \/ (FindRead(w) \/ FindCompress(w)) /\ ~Picking(w)
         \/ ClaimDead(w) \/ ClaimFound(w) \/ ClaimOr(w) \/ ClaimCheck(w)
         \/ SameB(w) \/ SameA(w) \/ SameRetry(w) \/ RemoveColor(w)
         \/ UniteFindB(w) \/ UniteRoots(w) \/ LockUf(w) \/ LockUfUndo(w) \/ SetParent(w)
         \/ ReadQw(w) \/ CompareRw(w) \/ AddQw(w) \/ CheckR(w) \/ FoundR(w)
         \/ UnlockListA(w) \/ UnlockListB(w) \/ UnlockUf(w)
  PROVE  ~OnList(w)'
<1> DEFINE Done == ~OnList(w)'
           Outer == pc[w] \in Labels \ (FindLabels \cup PickLabels)
<1> SUFFICES Done
  OBVIOUS
<1>1. Typed(callers) /\ Outside(callers) /\ InCall(w, callers)
  BY DEF SetsInv, Knows
<1>2. /\ ret[w].node \in Slot /\ loc[w].same.a \in Slot /\ loc[w].same.b \in Slot
      /\ loc[w].unite.a \in Slot /\ loc[w].unite.b \in Slot /\ loc[w].unite.up \in Slot
  BY <1>1, LocalsTyped DEF Typed, ControlTyped
<1>3. \A label \in {"claim_found", "claim_or", "claim_check", "same_a", "lock_uf", "lock_uf_check",
                    "lock_uf_undo", "read_qw", "compare_rw", "add_qw", "check_r", "unlock_a",
                    "unlock_b", "unlock_uf"} : Outer /\ (Goto(w, label) \/ Resume(w, label)) => Done
  <2>1. {"claim_found", "claim_or", "claim_check", "same_a", "lock_uf", "lock_uf_check",
         "lock_uf_undo", "read_qw", "compare_rw", "add_qw", "check_r", "unlock_a", "unlock_b", "unlock_uf"}
          \subseteq Labels \ (FindLabels \cup PickLabels \cup {"remove", "remove_color", "list_a", "list_b", "swap", "set_parent"})
    BY DEF Labels, FindLabels, PickLabels
  <2>. QED
    BY <1>1, <2>1, AloneOff
<1>4. \A s \in Slot, b \in FindBacks : Outer /\ CallFind(w, s, <<b>>) => Done
  BY <1>1, AloneOff
<1>5. \A code, node : Outer /\ Return(w, code, node) => Done
  BY <1>1, AloneOff
<1>6. Outer /\ UniteRetry(w) => Done
  BY <1>2, <1>4 DEF UniteRetry, FindBacks
<1>7. Outer /\ UniteReturn(w) => Done
  BY <1>5 DEF UniteReturn
<1> HIDE DEF Done
<1>8. CASE ClaimDead(w) \/ ClaimFound(w) \/ ClaimOr(w) \/ ClaimCheck(w)
  <2>1. Outer /\ "claim_again" \in FindBacks
    BY <1>8 DEF ClaimDead, ClaimFound, ClaimOr, ClaimCheck, Labels, FindLabels, PickLabels, FindBacks
  <2>. QED
    BY <1>2, <1>3, <1>4, <1>5, <1>8, <2>1 DEF ClaimDead, ClaimFound, ClaimOr, ClaimCheck
<1>9. CASE SameB(w) \/ SameA(w) \/ SameRetry(w)
  <2>1. Outer /\ {"same_b", "same_retry"} \subseteq FindBacks
    BY <1>9 DEF SameB, SameA, SameRetry, Labels, FindLabels, PickLabels, FindBacks
  <2>. QED
    BY <1>2, <1>3, <1>4, <1>5, <1>9, <2>1 DEF SameB, SameA, SameRetry, SameReturn
<1>10. CASE RemoveColor(w) \/ UniteFindB(w) \/ UniteRoots(w) \/ LockUf(w) \/ LockUfUndo(w) \/ SetParent(w)
  <2>1. Outer /\ "unite_b" \in FindBacks
    BY <1>10 DEF RemoveColor, UniteFindB, UniteRoots, LockUf, LockUfUndo, SetParent, Labels, FindLabels, PickLabels, FindBacks
  <2>. QED
    BY <1>2, <1>3, <1>4, <1>5, <1>6, <1>7, <1>10, <2>1 DEF RemoveColor, PickReturn, UniteFindB, UniteRoots, LockUf,
       LockUfUndo, SetParent
<1>11. CASE \/ ReadQw(w) \/ CompareRw(w) \/ AddQw(w) \/ CheckR(w) \/ FoundR(w)
            \/ UnlockListA(w) \/ UnlockListB(w) \/ UnlockUf(w)
  <2>1. Outer /\ "found_r" \in FindBacks
    BY <1>11 DEF ReadQw, CompareRw, AddQw, CheckR, FoundR, UnlockListA, UnlockListB, UnlockUf,
       Labels, FindLabels, PickLabels, FindBacks
  <2>. QED
    BY <1>2, <1>3, <1>4, <1>7, <1>11, <2>1 DEF ReadQw, CompareRw, AddQw, CheckR, FoundR,
       UnlockListA, UnlockListB, UnlockUf
<1>12. CASE (FindRead(w) \/ FindCompress(w)) /\ ~Picking(w)
  <2>1. pc[w] \in FindLabels /\ pc[w] \in Labels \ PickLabels
    BY <1>12 DEF FindRead, FindCompress, FindLabels, Labels, PickLabels
  <2>2. Typed(callers)' /\ Upward'
    BY <1>12, UFStepSets DEF UFStep, SetsInv
  <2>3. CASE pc'[w] \in FindLabels /\ stack' = stack
    BY <1>12, <2>1, <2>3 DEF Done, OnList, Picking, Awaits, FindLabels, PickLabels
  <2>4. ASSUME NEW node \in Slot, Return(w, "find", node)
        PROVE  Done
    <3> DEFINE code == "find"
    <3>1. Return(w, code, node)
      BY <2>4
    <3> HIDE DEF code
    <3>2. \/ pc'[w] \in callers /\ \A l : ~Awaits(w, l)'
          \/ pc'[w] \in FindBacks /\ \A l : ~Awaits(w, l)'
      BY <1>1, <1>12, <2>1, <3>1, AwaitsReturn DEF Picking
    <3>3. pc'[w] \notin PickLabels \cup {"remove", "remove_color", "list_a", "list_b", "swap", "set_parent"}
      BY <1>1, <3>2 DEF Outside, FindBacks, Labels, PickLabels
    <3>. QED
      BY <3>2, <3>3 DEF Done, OnList, Picking
  <2>. QED
    BY <1>12, <2>2, <2>3, <2>4, FindOutcome
<1>. QED
  BY <1>8, <1>9, <1>10, <1>11, <1>12

\* What pick_from_list does next: go on, have mark_dead find the representative, or return.
LEMMA PickMoves ==
  ASSUME NEW callers, SetsInv(callers), NEW w \in Worker, pc[w] \in PickLabels
  PROVE  /\ \A label : Goto(w, label) =>
              /\ pc'[w] = label /\ ret'[w] = ret[w]
              /\ \A l : Awaits(w, l)' <=> Awaits(w, l)
         /\ CallFind(w, loc[w].pick.a, <<"mark_dead">>) =>
              /\ pc'[w] = "find" /\ path'[w][1] = loc[w].pick.a /\ Len(path'[w]) = 1
              /\ \A l \in ListLabels : Awaits(w, l)' <=> Awaits(w, l)
         /\ \A code, node : Return(w, code, node) =>
              /\ ret'[w].code = code /\ ret'[w].node = node
              /\ \A l : ~Awaits(w, l)'
              /\ \/ pc'[w] \in callers /\ \A l : ~Awaits(w, l)
                 \/ pc'[w] \in ListLabels /\ Awaits(w, pc'[w])
<1>1. Typed(callers) /\ Outside(callers) /\ InCall(w, callers) /\ pc[w] \in Labels
  BY LabelSets DEF SetsInv, Knows
<1>2. pc[w] \notin FindLabels
  BY LabelSets
<1>3. ASSUME NEW label, Goto(w, label)
      PROVE  pc'[w] = label /\ ret'[w] = ret[w] /\ \A l : Awaits(w, l)' <=> Awaits(w, l)
  BY <1>1, <1>3 DEF Goto, Awaits, Typed, ControlTyped
<1>4. ASSUME CallFind(w, loc[w].pick.a, <<"mark_dead">>)
      PROVE  /\ pc'[w] = "find" /\ path'[w][1] = loc[w].pick.a /\ Len(path'[w]) = 1
             /\ \A l \in ListLabels : Awaits(w, l)' <=> Awaits(w, l)
  <2>1. Call(w, "find", <<"mark_dead">>) /\ path' = [path EXCEPT ![w] = <<loc[w].pick.a>>]
    BY <1>4 DEF CallFind
  <2>2. pc'[w] = "find" /\ \A l : Awaits(w, l)' <=> Awaits(w, l) \/ (l = "mark_dead" /\ \A k : ~Awaits(w, k))
    BY <1>1, <2>1, AwaitsMark
  <2>3. path'[w] = <<loc[w].pick.a>>
    BY <1>1, <2>1 DEF Typed, ControlTyped
  <2>4. "mark_dead" \notin ListLabels
    BY DEF ListLabels
  <2>5. path'[w][1] = loc[w].pick.a /\ Len(path'[w]) = 1
    BY <2>3
  <2>. QED
    BY <2>2, <2>4, <2>5
<1>5. ASSUME NEW code, NEW node, Return(w, code, node)
      PROVE  /\ ret'[w].code = code /\ ret'[w].node = node
             /\ \A l : ~Awaits(w, l)'
             /\ \/ pc'[w] \in callers /\ \A l : ~Awaits(w, l)
                \/ pc'[w] \in ListLabels /\ Awaits(w, pc'[w])
  <2>1. ret'[w] = [code |-> code, node |-> node]
    BY <1>1, <1>5, AwaitsReturn
  <2>2. /\ \A l : ~Awaits(w, l)'
        /\ \/ pc'[w] \in callers /\ \A l : ~Awaits(w, l)
           \/ pc'[w] \in ListLabels /\ Awaits(w, pc'[w])
    BY <1>1, <1>2, <1>5, AwaitsReturn
  <2>. QED
    BY <2>1, <2>2
<1>. QED
  BY <1>3, <1>4, <1>5

\* The entries keep their successor and their list status except where the lists are
\* shortened, spliced, left and locked.
LEMMA UFStepNexts ==
  ASSUME NEW callers, Typed(callers), NEW w \in Worker, UFStep(w)
  PROVE  /\ PickWrite(w) \/ SwapLists(w) \/ \A s \in Slot : uf'[s].list_next = uf[s].list_next
         /\ \/ Remove(w) \/ LockListA(w) \/ LockListB(w) \/ UnlockListA(w) \/ UnlockListB(w)
            \/ \A s \in Slot : uf'[s].list_status = uf[s].list_status
<1>1. uf \in [Slot -> Entry] /\ ret[w].node \in Slot
  BY DEF Typed, UfTyped, ControlTyped
<1>2. /\ loc[w].unite.q \in Slot /\ loc[w].unite.r \in Slot /\ loc[w].unite.up \in Slot
      /\ loc[w].unite.al \in Slot /\ loc[w].unite.bl \in Slot
      /\ loc[w].pick.a \in Slot /\ loc[w].pick.b \in Slot /\ loc[w].pick.c \in Slot
  BY LocalsTyped DEF Typed
<1> DEFINE Next1 == \A s \in Slot : uf'[s].list_next = uf[s].list_next
           Stat1 == \A s \in Slot : uf'[s].list_status = uf[s].list_status
<1>3. uf' = uf => Next1 /\ Stat1
  OBVIOUS
<1>4. CASE FindRead(w) \/ FindCompress(w)
  <2>1. CASE FindRead(w)
    BY <1>3, <2>1 DEF FindRead
  <2>2. CASE FindCompress(w)
    <3>1. path[w][Len(path[w])] \in Slot
      BY <2>2, EmptySeq DEF Typed, ControlTyped, FindCompress
    <3>. QED
      BY <1>1, <2>2, <3>1 DEF Entry, FindCompress
  <2>. QED
    BY <1>4, <2>1, <2>2
<1>5. CASE ClaimDead(w) \/ ClaimFound(w) \/ ClaimOr(w) \/ ClaimCheck(w)
  <2>1. CASE ClaimOr(w)
    BY <1>1, <2>1 DEF Entry, ClaimOr
  <2>. QED
    BY <1>3, <1>5, <2>1 DEF ClaimDead, ClaimFound, ClaimCheck
<1>6. CASE SameB(w) \/ SameA(w) \/ SameRetry(w)
  BY <1>3, <1>6 DEF SameB, SameA, SameRetry
<1>7. CASE PickA(w) \/ PickNext(w) \/ PickB(w) \/ PickC(w) \/ PickCompare(w) \/ PickWrite(w)
  <2>1. CASE PickWrite(w)
    BY <1>1, <1>2, <2>1 DEF Entry, PickWrite
  <2>. QED
    BY <1>3, <1>7, <2>1 DEF PickA, PickNext, PickB, PickC, PickCompare
<1>8. CASE MarkDead(w) \/ Remove(w) \/ RemoveColor(w)
  <2>1. CASE MarkDead(w)
    BY <1>1, <2>1 DEF Entry, MarkDead
  <2>2. CASE Remove(w)
    BY <1>1, <1>2, <2>2 DEF Entry, Remove
  <2>. QED
    BY <1>3, <1>8, <2>1, <2>2 DEF RemoveColor
<1>9. CASE UniteFindB(w) \/ UniteRoots(w) \/ LockUf(w) \/ LockUfCheck(w) \/ LockUfUndo(w)
  <2>1. CASE LockUf(w) \/ LockUfUndo(w)
    BY <1>1, <1>2, <2>1 DEF Entry, LockUf, LockUfUndo
  <2>. QED
    BY <1>3, <1>9, <2>1 DEF UniteFindB, UniteRoots, LockUfCheck
<1>10. CASE LockListA(w) \/ LockListB(w)
  BY <1>1, <1>2, <1>10 DEF Entry, LockListA, LockListB
<1>11. CASE SwapLists(w)
  <2> DEFINE u == loc[w].unite
             x == NextOrSelf(u.bl)
             y == NextOrSelf(u.al)
  <2>1. uf' = [uf EXCEPT ![u.al].list_next = x, ![u.bl].list_next = y]
    BY <1>11 DEF SwapLists, Swapped
  <2> HIDE DEF u, x, y
  <2>. QED
    BY <1>1, <1>11, <2>1 DEF Entry
<1>12. CASE SetParent(w) \/ ReadQw(w) \/ CompareRw(w) \/ AddQw(w) \/ CheckR(w) \/ FoundR(w)
  <2>1. CASE SetParent(w)
    BY <1>1, <1>2, <2>1 DEF Entry, SetParent, Merged
  <2>2. CASE AddQw(w)
    BY <1>1, <1>2, <2>2 DEF Entry, AddQw
  <2>. QED
    BY <1>3, <1>12, <2>1, <2>2 DEF ReadQw, CompareRw, CheckR, FoundR
<1>13. CASE UnlockListA(w) \/ UnlockListB(w) \/ UnlockUf(w)
  <2>1. CASE UnlockListA(w) \/ UnlockListB(w)
    BY <1>1, <1>2, <2>1 DEF Entry, UnlockListA, UnlockListB, Unlocked
  <2>2. CASE UnlockUf(w)
    BY <1>1, <1>2, <2>2 DEF Entry, UnlockUf
  <2>. QED
    BY <1>13, <2>1, <2>2
<1>. QED
  BY <1>4, <1>5, <1>6, <1>7, <1>8, <1>9, <1>10, <1>11, <1>12, <1>13 DEF UFStep

-----------------------------------------------------------------------------
(* Where the lists lead: inside one set *)

Pending(w)  == pc[w] = "set_parent"
Crossing(n) == \E w \in Worker : Pending(w) /\ n \in {loc[w].unite.al, loc[w].unite.bl}

PickBLabels == {"pick_b", "pick_c", "pick_compare", "pick_write"}
PickCLabels == {"pick_compare", "pick_write"}

\* unite works on nodes, and holds entries of the sets of its states.
UniteHome(w) ==
  LET u == loc[w].unite
  IN  /\ Busy(w) => u.a # 0 /\ u.b # 0
      /\ u.al # 0 => Root[u.al] = Root[u.a]
      /\ u.bl # 0 => Root[u.bl] = Root[u.b]

\* pick_from_list stays in the set of its state, and goes on only past explored states;
\* unite splices the two entries it has picked.
PickHome(w) ==
  LET p == loc[w].pick
      u == loc[w].unite
  IN  /\ Picking(w) \/ pc[w] \in {"remove", "remove_color"} => p.a # 0
      /\ Picking(w) /\ pc[w] # "pick_a" => Explored(p.a)
      /\ pc[w] \in PickBLabels => p.b # 0 /\ p.b # p.a /\ Root[p.b] = Root[p.a]
      /\ pc[w] \in PickBLabels \ {"pick_b"} => Explored(p.b)
      /\ pc[w] \in PickCLabels => p.c # 0 /\ Root[p.c] = Root[p.a]
      /\ Awaits(w, "list_a") => Root[p.a] = Root[u.a]
      /\ Awaits(w, "list_b") => Root[p.a] = Root[u.b]
      /\ pc[w] = "list_a" /\ ret[w].code = "PICK_SUCCESS" => ret[w].node # 0 /\ Root[ret[w].node] = Root[u.a]
      /\ pc[w] = "list_b" /\ ret[w].code = "PICK_SUCCESS" => ret[w].node # 0 /\ Root[ret[w].node] = Root[u.b]
      /\ pc[w] = "list_b" \/ Awaits(w, "list_b") \/ pc[w] \in {"swap", "set_parent"} => u.al # 0
      /\ pc[w] \in {"swap", "set_parent"} => u.bl # 0
      /\ Pending(w) => Root[NextOrSelf(u.al)] = Root[u.bl] /\ Root[NextOrSelf(u.bl)] = Root[u.al]

ListsHome ==
  /\ ~Explored(0)
  /\ \A n \in Slot : Crossing(n) \/ Root[NextOrSelf(n)] = Root[n]

HomeInv == ListsHome /\ \A w \in Worker : UniteHome(w) /\ PickHome(w)

\* A worker is in unite only if it was or its caller called it.
LEMMA UFStepBusy ==
  ASSUME NEW callers, SetsInv(callers), NEW w \in Worker, UFStep(w), Busy(w)'
  PROVE  Busy(w)
<1> DEFINE Outer == pc[w] \in Labels \ (FindLabels \cup PickLabels)
           Idle == ~Busy(w)'
<1>1. Typed(callers) /\ Outside(callers) /\ InCall(w, callers) /\ Typed(callers)' /\ Upward'
  BY UFStepSets DEF SetsInv, Knows
<1>2. ret[w].node \in Slot /\ loc[w].same.a \in Slot /\ loc[w].same.b \in Slot
  BY <1>1, LocalsTyped DEF Typed, ControlTyped
<1>3. \A code, node : Outer /\ Return(w, code, node) => Idle
  BY <1>1, Returned
<1>4. ASSUME NEW label \in {"claim_found", "claim_or", "claim_check", "same_a", "remove_color"},
             Outer, Goto(w, label) \/ Resume(w, label)
      PROVE  Idle
  <2>1. label \in Labels \ FindLabels /\ label \notin RegionLabels /\ label \notin {"unite_a", "unite_b"}
    BY <1>4 DEF Labels, FindLabels, RegionLabels
  <2>. QED
    BY <1>1, <1>4, <2>1, Moved DEF Busy, Region
<1>5. ASSUME NEW s \in Slot, NEW b \in {"claim_again", "same_b", "same_retry"}, Outer, CallFind(w, s, <<b>>)
      PROVE  Idle
  <2>1. "find" \notin RegionLabels /\ b \notin ListLabels \cup {"found_r", "unite_a", "unite_b"}
    BY <1>5 DEF RegionLabels, ListLabels
  <2>. QED
    BY <1>1, <1>5, <2>1, FindCalled DEF Busy, Region
<1>6. ~(ClaimDead(w) \/ ClaimFound(w) \/ ClaimOr(w) \/ ClaimCheck(w)) 
  <2> HIDE DEF Idle
  <2>1. SUFFICES ASSUME ClaimDead(w) \/ ClaimFound(w) \/ ClaimOr(w) \/ ClaimCheck(w) PROVE Idle
    BY DEF Idle
  <2>2. Outer
    BY <2>1 DEF ClaimDead, ClaimFound, ClaimOr, ClaimCheck, Labels, FindLabels, PickLabels
  <2>. QED
    BY <1>2, <1>3, <1>4, <1>5, <2>1, <2>2 DEF ClaimDead, ClaimFound, ClaimOr, ClaimCheck
<1>7. ~(SameB(w) \/ SameA(w) \/ SameRetry(w))
  <2> HIDE DEF Idle
  <2>1. SUFFICES ASSUME SameB(w) \/ SameA(w) \/ SameRetry(w) PROVE Idle
    BY DEF Idle
  <2>2. Outer
    BY <2>1 DEF SameB, SameA, SameRetry, Labels, FindLabels, PickLabels
  <2>. QED
    BY <1>2, <1>3, <1>4, <1>5, <2>1, <2>2 DEF SameB, SameA, SameRetry, SameReturn
<1>8. ~(Remove(w) \/ RemoveColor(w))
  <2> HIDE DEF Idle
  <2>1. SUFFICES ASSUME Remove(w) \/ RemoveColor(w) PROVE Idle
    BY DEF Idle
  <2>2. Outer
    BY <2>1 DEF Remove, RemoveColor, Labels, FindLabels, PickLabels
  <2>. QED
    BY <1>3, <1>4, <2>1, <2>2 DEF Remove, RemoveColor, PickReturn
<1>9. CASE \/ UniteFindB(w) \/ UniteRoots(w) \/ LockUf(w) \/ LockUfCheck(w) \/ LockUfUndo(w)
           \/ LockListA(w) \/ LockListB(w) \/ SwapLists(w) \/ SetParent(w)
           \/ ReadQw(w) \/ CompareRw(w) \/ AddQw(w) \/ CheckR(w) \/ FoundR(w)
           \/ UnlockListA(w) \/ UnlockListB(w) \/ UnlockUf(w)
  <2>1. pc[w] \in RegionLabels \cup {"unite_a", "unite_b"}
    BY <1>9 DEF UniteFindB, UniteRoots, LockUf, LockUfCheck, LockUfUndo, LockListA, LockListB, SwapLists,
       SetParent, ReadQw, CompareRw, AddQw, CheckR, FoundR, UnlockListA, UnlockListB, UnlockUf, RegionLabels
  <2>. QED
    BY <2>1 DEF Busy, Region
<1>10. CASE PickA(w) \/ PickNext(w) \/ PickB(w) \/ PickC(w) \/ PickCompare(w) \/ PickWrite(w) \/ MarkDead(w)
  <2>1. pc[w] \in PickLabels
    BY <1>10 DEF PickA, PickNext, PickB, PickC, PickCompare, PickWrite, MarkDead, PickLabels
  <2>2. {"pick_a", "pick_next", "pick_b", "pick_c", "pick_compare", "pick_write", "find"} \cap (RegionLabels \cup {"unite_a", "unite_b"}) = {}
        /\ ListLabels \subseteq RegionLabels
    BY DEF RegionLabels, ListLabels
  <2>3. \A label \in {"pick_a", "pick_next", "pick_b", "pick_c", "pick_compare", "pick_write"} : Goto(w, label) => Busy(w)
    <3> TAKE label \in {"pick_a", "pick_next", "pick_b", "pick_c", "pick_compare", "pick_write"}
    <3>1. Goto(w, label) => pc'[w] = label /\ \A l : Awaits(w, l)' <=> Awaits(w, l)
      BY <2>1, PickMoves
    <3>. QED
      BY <2>2, <3>1 DEF Busy, Region
  <2>4. CallFind(w, loc[w].pick.a, <<"mark_dead">>) => Busy(w)
    <3>1. ASSUME CallFind(w, loc[w].pick.a, <<"mark_dead">>)
          PROVE  pc'[w] = "find" /\ \A l : Awaits(w, l)' <=> Awaits(w, l) \/ (l = "mark_dead" /\ \A k : ~Awaits(w, k))
      BY <1>1, <2>1, <3>1, AwaitsMark DEF CallFind
    <3>2. "mark_dead" \notin ListLabels \cup {"found_r", "unite_a", "unite_b"}
      BY DEF ListLabels
    <3>. QED
      BY <2>2, <3>1, <3>2 DEF Busy, Region
  <2>5. \A code, node : Return(w, code, node) => Busy(w)
    <3> TAKE code, node
    <3>1. Return(w, code, node) =>
            /\ \A l : ~Awaits(w, l)'
            /\ pc'[w] \in callers \/ (pc'[w] \in ListLabels /\ Awaits(w, pc'[w]))
      BY <2>1, PickMoves
    <3>2. callers \cap (RegionLabels \cup {"unite_a", "unite_b"}) = {}
      BY <1>1 DEF Outside, Labels, RegionLabels
    <3>. QED
      BY <2>2, <3>1, <3>2 DEF Busy, Region
  <2>. QED
    BY <1>10, <2>3, <2>4, <2>5 DEF PickA, PickNext, PickB, PickC, PickCompare, PickWrite, MarkDead,
       PickReturn, ContinueFromC
<1>11. CASE FindRead(w) \/ FindCompress(w)
  <2>1. pc[w] \in FindLabels /\ pc[w] \in Labels
    BY <1>11 DEF FindRead, FindCompress, FindLabels, Labels
  <2>2. CASE pc'[w] \in FindLabels /\ stack' = stack
    <3>1. pc'[w] \notin RegionLabels \cup {"unite_a", "unite_b"}
      BY <2>2 DEF FindLabels, RegionLabels
    <3>. QED
      BY <2>2, <3>1 DEF Busy, Region, Awaits
  <2>3. ASSUME NEW node \in Slot, Return(w, "find", node)
        PROVE  Busy(w)
    <3> DEFINE code == "find"
    <3>1. Return(w, code, node)
      BY <2>3
    <3> HIDE DEF code
    <3>2. \/ pc'[w] \in callers /\ \A l : ~Awaits(w, l)'
          \/ pc'[w] = "mark_dead" /\ \A l \in ListLabels : Awaits(w, l)' => Awaits(w, l)
          \/ pc'[w] \in FindBacks /\ Awaits(w, pc'[w]) /\ \A l : ~Awaits(w, l)'
      BY <1>1, <2>1, <3>1, LabelSets, AwaitsReturn
    <3>3. callers \cap (RegionLabels \cup {"unite_a", "unite_b"}) = {}
      BY <1>1 DEF Outside, Labels, RegionLabels
    <3>4. CASE pc'[w] \in callers /\ \A l : ~Awaits(w, l)'
      BY <3>3, <3>4 DEF Busy, Region
    <3>5. CASE pc'[w] = "mark_dead" /\ \A l \in ListLabels : Awaits(w, l)' => Awaits(w, l)
      <4>1. {"unite_a", "unite_b", "found_r"} \subseteq FindBacks /\ "mark_dead" \notin FindLabels \cup RegionLabels \cup {"unite_a", "unite_b"}
        BY DEF FindBacks, FindLabels, RegionLabels
      <4>2. InCall(w, callers)'
        BY <1>1, UFStepInCall
      <4>3. \A b \in FindBacks : ~Awaits(w, b)'
        BY <3>5, <4>1, <4>2, AwaitsFindNext
      <4>. QED
        BY <3>5, <4>1, <4>3 DEF Busy, Region
    <3>6. CASE pc'[w] \in FindBacks /\ Awaits(w, pc'[w]) /\ \A l : ~Awaits(w, l)'
      <4>1. pc'[w] \in RegionLabels => pc'[w] = "found_r"
        BY <3>6 DEF FindBacks, RegionLabels
      <4>. QED
        BY <3>6, <4>1 DEF Busy, Region
    <3>. QED
      BY <3>2, <3>4, <3>5, <3>6
  <2>. QED
    BY <1>1, <1>11, <2>2, <2>3, FindOutcome
<1>. QED
  BY <1>6, <1>7, <1>8, <1>9, <1>10, <1>11 DEF UFStep

\* An explored state stays so.
LEMMA ExploredKept ==
  ASSUME NEW callers, SetsInv(callers), HomeInv, NEW w \in Worker, UFStep(w)
  PROVE  (\A n \in Slot : Explored(n) => Explored(n)') /\ ~Explored(0)'
<1>1. Slot = Node \cup {0}
  BY UFConstants DEF Slot, Node
<1>2. \A n \in Node : Explored(n) => Explored(n)'
  BY UFStepKeeps DEF SetsInv, NothingUndone, Explored
<1>3. ~Explored(0)'
  <2>1. Typed(callers) /\ uf \in [Slot -> Entry] /\ 0 \in Slot
    BY SlotZero DEF SetsInv, Typed, UfTyped
  <2>2. LIVE # TOMB /\ LOCK # TOMB
    BY DEF LIVE, LOCK, TOMB
  <2>3. loc[w].unite.al \in Slot /\ loc[w].unite.bl \in Slot /\ loc[w].pick.a \in Slot /\ ret[w].node \in Slot
    BY <2>1, LocalsTyped DEF Typed, ControlTyped
  <2>4. CASE \A s \in Slot : uf'[s].list_status = uf[s].list_status
    BY <2>1, <2>4 DEF HomeInv, ListsHome, Explored
  <2>5. CASE Remove(w)
    <3>1. loc[w].pick.a # 0
      BY <2>5 DEF HomeInv, PickHome, Remove
    <3>. QED
      BY <2>1, <2>3, <2>5, <3>1 DEF HomeInv, ListsHome, Explored, Remove, Entry
  <2>6. CASE LockListA(w) \/ LockListB(w)
    BY <2>1, <2>2, <2>3, <2>6 DEF HomeInv, ListsHome, Explored, LockListA, LockListB, Entry
  <2>7. CASE UnlockListA(w) \/ UnlockListB(w)
    BY <2>1, <2>2, <2>3, <2>7 DEF HomeInv, ListsHome, Explored, UnlockListA, UnlockListB, Unlocked, Entry
  <2>. QED
    BY <2>1, <2>4, <2>5, <2>6, <2>7, UFStepNexts
<1>. QED
  BY <1>1, <1>2, <1>3 DEF HomeInv, ListsHome

\* The entries a worker holds locked.
LEMMA UFStepHeld ==
  ASSUME NEW callers, Typed(callers), NEW w \in Worker, UFStep(w)
  PROVE  LET u == loc[w].unite
             v == loc'[w].unite
         IN  \/ v.al = u.al /\ v.bl = u.bl
             \/ v.al = 0 /\ v.bl = 0
             \/ LockListA(w) /\ Locks(w, ret[w].node) /\ v.al = ret[w].node /\ v.bl = u.bl
             \/ LockListB(w) /\ Locks(w, ret[w].node) /\ v.al = u.al /\ v.bl = ret[w].node
<1> DEFINE u == loc[w].unite
           v == loc'[w].unite
           Kept == v.al = u.al /\ v.bl = u.bl
           Done == \/ Kept \/ (v.al = 0 /\ v.bl = 0)
                   \/ LockListA(w) /\ Locks(w, ret[w].node) /\ v.al = ret[w].node /\ v.bl = u.bl
                   \/ LockListB(w) /\ Locks(w, ret[w].node) /\ v.al = u.al /\ v.bl = ret[w].node
<1> SUFFICES Done
  OBVIOUS
<1>1. loc \in [Worker -> Locals] /\ u \in Unites
  BY LocalsTyped DEF Typed, LocTyped
<1>2. UniteReturn(w) => Done
  BY <1>1 DEF UniteReturn, NoUnite, Locals
<1>3. UniteRetry(w) => Kept
  <2>1. UniteRetry(w) => v = [u EXCEPT !.q = 0, !.r = 0]
    BY <1>1 DEF UniteRetry, Locals
  <2>. QED
    BY <1>1, <2>1 DEF Unites
<1>4. CASE Quiet(w)
  BY <1>4 DEF Quiet, UniteKept
<1>5. CASE FindRead(w) \/ FindCompress(w) \/ MarkDead(w) \/ Remove(w)
  <2>1. v = u
    BY <1>1, <1>5 DEF Locals, FindRead, FindCompress, MarkDead, Remove, PickReturn
  <2>. QED
    BY <2>1
<1>6. CASE UniteRoots(w)
  <2>1. CASE loc' = [loc EXCEPT ![w].unite = Roles(@, loc[w].unite.ar, ret[w].node)]
    <3>1. v = Roles(u, u.ar, ret[w].node)
      BY <1>1, <2>1 DEF Locals
    <3>. QED
      BY <1>1, <3>1 DEF Roles, Unites
  <2>. QED
    BY <1>2, <1>6, <2>1 DEF UniteRoots
<1>7. CASE LockUf(w) \/ LockUfUndo(w)
  BY <1>3, <1>7 DEF LockUf, LockUfUndo
<1>8. CASE LockListA(w)
  <2>1. CASE Locks(w, ret[w].node) /\ loc' = [loc EXCEPT ![w] = [@ EXCEPT !.unite.al = ret[w].node, !.pick.a = u.b]]
    <3>1. v = [u EXCEPT !.al = ret[w].node]
      BY <1>1, <2>1 DEF Locals
    <3>. QED
      BY <1>1, <1>8, <2>1, <3>1 DEF Unites
  <2>2. CASE CallPick(w, u.a, <<"list_a">>)
    <3>1. v = u
      BY <1>1, <2>2 DEF CallPick, Locals
    <3>. QED
      BY <3>1
  <2>. QED
    BY <1>2, <1>8, <2>1, <2>2 DEF LockListA
<1>9. CASE LockListB(w)
  <2>1. CASE Locks(w, ret[w].node) /\ loc' = [loc EXCEPT ![w].unite.bl = ret[w].node]
    <3>1. v = [u EXCEPT !.bl = ret[w].node]
      BY <1>1, <2>1 DEF Locals
    <3>. QED
      BY <1>1, <1>9, <2>1, <3>1 DEF Unites
  <2>2. CASE CallPick(w, u.b, <<"list_b">>)
    <3>1. v = u
      BY <1>1, <2>2 DEF CallPick, Locals
    <3>. QED
      BY <3>1
  <2>. QED
    BY <1>2, <1>9, <2>1, <2>2 DEF LockListB
<1>10. CASE SetParent(w) \/ UnlockListA(w) \/ UnlockListB(w)
  BY <1>10 DEF SetParent, UnlockListA, UnlockListB
<1> HIDE DEF Done
<1>11. CASE UnlockUf(w)
  BY <1>2, <1>11 DEF UnlockUf
<1>. QED
  BY <1>4, <1>5, <1>6, <1>7, <1>8, <1>9, <1>10, <1>11, ClaimQuiet, SameQuiet, PickQuiet, UniteQuiet DEF UFStep

\* A return from unite, from where unite may return.
LEMMA UniteReturned ==
  ASSUME NEW callers, SetsInv(callers), NEW w \in Worker, UniteReturn(w),
         pc[w] \in Labels \ (FindLabels \cup PickLabels)
  PROVE  ~Busy(w)' /\ loc'[w].unite = NoUnite /\ ~OnList(w)'
<1>1. Typed(callers) /\ Outside(callers) /\ InCall(w, callers)
  BY DEF SetsInv, Knows
<1>2. ~Busy(w)' /\ ~OnList(w)'
  BY <1>1, Returned, AloneOff DEF UniteReturn
<1>3. loc'[w].unite = NoUnite
  BY <1>1 DEF UniteReturn, Typed, LocTyped, Locals
<1>. QED
  BY <1>2, <1>3

\* What unite knows of its states and of the entries it holds, but for the union.
LEMMA OwnUnite ==
  ASSUME NEW callers, SetsInv(callers), HomeInv, NEW w \in Worker, UFStep(w)
  PROVE  LET v == loc'[w].unite
         IN  /\ Busy(w)' => v.a # 0 /\ v.b # 0
             /\ v.al # 0 => Root'[v.al] = Root'[v.a]
             /\ v.bl # 0 => Root'[v.bl] = Root'[v.b]
<1> DEFINE u == loc[w].unite
           v == loc'[w].unite
           Done == /\ Busy(w)' => v.a # 0 /\ v.b # 0
                   /\ v.al # 0 => Root'[v.al] = Root'[v.a]
                   /\ v.bl # 0 => Root'[v.bl] = Root'[v.b]
<1> SUFFICES Done
  OBVIOUS
<1>1. Typed(callers) /\ u.a \in Slot /\ u.b \in Slot /\ u.al \in Slot /\ u.bl \in Slot /\ ret[w].node \in Slot
  BY LocalsTyped DEF SetsInv, Typed, ControlTyped
<1>2. Coarser /\ UniteHome(w) /\ PickHome(w)
  BY UFStepSets DEF HomeInv
<1>3. CASE UniteReturn(w) /\ pc[w] \in {"unite_b", "list_a", "list_b", "unlock_uf"}
  <2>1. pc[w] \in Labels \ (FindLabels \cup PickLabels)
    BY <1>3 DEF Labels, FindLabels, PickLabels
  <2>2. ~Busy(w)' /\ v = NoUnite
    BY <1>3, <2>1, UniteReturned
  <2>. QED
    BY <2>2 DEF NoUnite
<1>4. CASE v.a = u.a /\ v.b = u.b
  <2>1. Busy(w)' => v.a # 0 /\ v.b # 0
    BY <1>2, <1>4, UFStepBusy DEF UniteHome
  <2>2. LockListA(w) /\ Locks(w, ret[w].node) => Root[ret[w].node] = Root[u.a]
    BY <1>2 DEF LockListA, Locks, PickHome
  <2>3. LockListB(w) /\ Locks(w, ret[w].node) => Root[ret[w].node] = Root[u.b]
    BY <1>2 DEF LockListB, Locks, PickHome
  <2>4. v.al # 0 => v.al \in Slot /\ Root[v.al] = Root[u.a]
    BY <1>1, <1>2, <2>2, UFStepHeld DEF UniteHome
  <2>5. v.bl # 0 => v.bl \in Slot /\ Root[v.bl] = Root[u.b]
    BY <1>1, <1>2, <2>3, UFStepHeld DEF UniteHome
  <2>. QED
    BY <1>1, <1>2, <1>4, <2>1, <2>4, <2>5 DEF Coarser
<1>. QED
  BY <1>1, <1>3, <1>4, UFStepStates

\* Nothing is claimed of the pick of a worker that is outside the list code.
LEMMA OffHome ==
  ASSUME NEW w \in Worker, ~OnList(w)'
  PROVE  PickHome(w)'
<1>1. PickBLabels \subseteq PickLabels /\ PickCLabels \subseteq PickLabels /\ {"list_a", "list_b"} = ListLabels
  BY DEF PickBLabels, PickCLabels, PickLabels, ListLabels
<1>2. /\ pc'[w] \notin PickLabels \cup {"remove", "remove_color", "list_a", "list_b", "swap", "set_parent"}
      /\ \A l \in ListLabels \cup {"mark_dead"} : ~Awaits(w, l)'
  BY DEF OnList, Picking
<1>. QED
  BY <1>1, <1>2 DEF PickHome, Picking, Pending

\* The list of an explored state leads on inside its set.
LEMMA ExploredHome ==
  ASSUME NEW callers, SetsInv(callers), HomeInv, NEW n \in Slot, Explored(n)
  PROVE  ~Crossing(n) /\ Root[NextOrSelf(n)] = Root[n]
<1>1. \A w \in Worker : Pending(w) /\ n \in {loc[w].unite.al, loc[w].unite.bl} => n = 0 \/ n \in HoldsList(w)
  BY DEF Pending, HoldsList
<1>2. \A w \in Worker : n \in HoldsList(w) => uf[n].list_status = LOCK
  BY DEF SetsInv, Locked
<1>3. ~Crossing(n)
  BY <1>1, <1>2 DEF HomeInv, ListsHome, Crossing, Explored, LOCK, TOMB
<1>. QED
  BY <1>3 DEF HomeInv, ListsHome

\* A move inside pick_from_list.
LEMMA PickOn ==
  ASSUME NEW callers, SetsInv(callers), HomeInv, NEW w \in Worker, UFStep(w), pc[w] \in PickLabels,
         NEW label \in PickLabels, Goto(w, label), loc'[w].unite = loc[w].unite,
         NEW a \in Slot, a = loc'[w].pick.a, a # 0, Root[a] = Root[loc[w].pick.a],
         label # "pick_a" => Explored(a),
         NEW b \in Slot, b = loc'[w].pick.b, label \in PickBLabels => b # 0 /\ b # a /\ Root[b] = Root[a],
         label \in PickBLabels \ {"pick_b"} => Explored(b),
         NEW c \in Slot, c = loc'[w].pick.c, label \in PickCLabels => c # 0 /\ Root[c] = Root[a]
  PROVE  PickHome(w)'
<1>1. loc[w].pick.a \in Slot /\ loc[w].unite.a \in Slot /\ loc[w].unite.b \in Slot
  BY LocalsTyped DEF SetsInv, Typed
<1>2. Coarser /\ (\A n \in Slot : Explored(n) => Explored(n)') /\ PickHome(w)
  BY UFStepSets, ExploredKept DEF HomeInv
<1>3. pc'[w] = label /\ \A l : Awaits(w, l)' <=> Awaits(w, l)
  BY PickMoves
<1>4. label \notin {"remove", "remove_color", "list_a", "list_b", "swap", "set_parent"}
  BY DEF PickLabels
<1>. QED
  BY <1>1, <1>2, <1>3, <1>4 DEF PickHome, Pending, Coarser

\* A return from pick_from_list.
LEMMA PickBack ==
  ASSUME NEW callers, SetsInv(callers), HomeInv, NEW w \in Worker, UFStep(w), pc[w] \in PickLabels,
         NEW code, NEW node \in Slot, Return(w, code, node), loc'[w].unite = loc[w].unite,
         code = "PICK_SUCCESS" => node # 0 /\ Root[node] = Root[loc[w].pick.a]
  PROVE  PickHome(w)'
<1>1. /\ Outside(callers) /\ loc[w].pick.a \in Slot /\ loc[w].unite.a \in Slot /\ loc[w].unite.b \in Slot
  BY LocalsTyped DEF SetsInv, Typed
<1>2. Coarser /\ PickHome(w)
  BY UFStepSets DEF HomeInv
<1>3. /\ ret'[w].code = code /\ ret'[w].node = node
      /\ \A l : ~Awaits(w, l)'
      /\ \/ pc'[w] \in callers
         \/ pc'[w] \in ListLabels /\ Awaits(w, pc'[w])
  BY PickMoves
<1>4. CASE pc'[w] \in callers
  <2>1. pc'[w] \notin PickLabels \cup {"remove", "remove_color", "list_a", "list_b", "swap", "set_parent"}
    BY <1>1, <1>4 DEF Outside, Labels, PickLabels
  <2>. QED
    BY <1>3, <2>1, OffHome DEF OnList, Picking
<1>5. CASE pc'[w] \in ListLabels /\ Awaits(w, pc'[w])
  <2>1. pc'[w] \notin PickLabels \cup PickBLabels \cup PickCLabels \cup {"remove", "remove_color", "swap", "set_parent"}
    BY <1>5 DEF ListLabels, PickLabels, PickBLabels, PickCLabels
  <2>2. ~Picking(w)'
    BY <1>3, <2>1 DEF Picking
  <2>3. pc'[w] = "list_a" => Root[loc[w].pick.a] = Root[loc[w].unite.a]
    BY <1>2, <1>5 DEF PickHome
  <2>4. pc'[w] = "list_b" => Root[loc[w].pick.a] = Root[loc[w].unite.b] /\ loc[w].unite.al # 0
    BY <1>2, <1>5 DEF PickHome
  <2>5. code = "PICK_SUCCESS" => Root'[node] = Root'[loc[w].pick.a]
    BY <1>1, <1>2 DEF Coarser
  <2>6. /\ pc'[w] = "list_a" => Root'[loc[w].pick.a] = Root'[loc[w].unite.a]
        /\ pc'[w] = "list_b" => Root'[loc[w].pick.a] = Root'[loc[w].unite.b]
    BY <1>1, <1>2, <2>3, <2>4 DEF Coarser
  <2>. QED
    BY <1>3, <2>1, <2>2, <2>4, <2>5, <2>6 DEF PickHome, Pending
<1>. QED
  BY <1>3, <1>4, <1>5

\* pick_from_list stays at home, provided that the entry after an explored one is there.
LEMMA OwnPicks ==
  ASSUME NEW callers, SetsInv(callers), HomeInv, NEW w \in Worker,
         \/ PickA(w) \/ PickNext(w) \/ PickB(w) \/ PickC(w) \/ PickCompare(w) \/ PickWrite(w) \/ MarkDead(w),
         pc[w] = "pick_c" => uf[loc[w].pick.b].list_next # 0
  PROVE  PickHome(w)'
<1> DEFINE p == loc[w].pick
           v == loc'[w].pick
<1>1. pc[w] \in PickLabels /\ UFStep(w)
  BY DEF PickA, PickNext, PickB, PickC, PickCompare, PickWrite, MarkDead, PickLabels, UFStep
<1>2. Typed(callers) /\ uf \in [Slot -> Entry] /\ loc \in [Worker -> Locals] /\ p \in Picks /\ ret[w].node \in Slot
      /\ p.a \in Slot /\ p.b \in Slot /\ p.c \in Slot /\ 0 \in Slot
  BY LocalsTyped, SlotZero DEF SetsInv, Typed, UfTyped, LocTyped, ControlTyped
<1>3. loc'[w].unite = loc[w].unite
  BY <1>2 DEF Locals, PickA, PickNext, PickB, PickC, PickCompare, PickWrite, MarkDead, PickReturn, ContinueFromC
<1>4. PickHome(w) /\ Picking(w) /\ p.a # 0
  BY <1>1 DEF HomeInv, PickHome, Picking
<1> DEFINE Done == PickHome(w)'
<1> SUFFICES Done
  OBVIOUS
<1>5. \A node \in Slot : Return(w, "PICK_SUCCESS", node) /\ node # 0 /\ Root[node] = Root[p.a] => Done
  BY <1>1, <1>3, PickBack
<1>6. \A code : code # "PICK_SUCCESS" /\ Return(w, code, 0) => Done
  BY <1>1, <1>2, <1>3, PickBack
<1>7. ASSUME p.c # 0, Root[p.c] = Root[p.a], ContinueFromC(w)
      PROVE  Done
  <2>1. v = [NoPick EXCEPT !.a = p.c] /\ Goto(w, "pick_a") /\ "pick_a" \in PickLabels
    BY <1>2, <1>7 DEF ContinueFromC, Locals, PickLabels
  <2>2. v.a = p.c /\ v.b = 0 /\ v.c = 0
    BY <2>1 DEF NoPick
  <2>3. "pick_a" \notin PickBLabels \cup PickCLabels
    BY DEF PickBLabels, PickCLabels
  <2>. QED
    BY <1>1, <1>2, <1>3, <1>7, <2>1, <2>2, <2>3, PickOn
<1>8. ASSUME NEW label \in PickLabels, Goto(w, label), loc' = loc,
             label # "pick_a" => Explored(p.a),
             label \in PickBLabels => p.b # 0 /\ p.b # p.a /\ Root[p.b] = Root[p.a],
             label \in PickBLabels \ {"pick_b"} => Explored(p.b),
             label \in PickCLabels => p.c # 0 /\ Root[p.c] = Root[p.a]
      PROVE  Done
  BY <1>1, <1>2, <1>3, <1>4, <1>8, PickOn
<1> HIDE DEF Done
<1>9. CASE PickA(w)
  <2>1. "pick_next" \in PickLabels \ (PickBLabels \cup PickCLabels)
    BY DEF PickLabels, PickBLabels, PickCLabels
  <2>2. CASE PickReturn(w, "PICK_SUCCESS", p.a)
    BY <1>2, <1>4, <1>5, <2>2 DEF PickReturn
  <2>3. CASE Explored(p.a) /\ Goto(w, "pick_next") /\ UNCHANGED loc
    BY <1>8, <2>1, <2>3
  <2>. QED
    BY <1>9, <2>2, <2>3 DEF PickA
<1>10. CASE PickNext(w)
  <2> DEFINE b == uf[p.a].list_next
  <2>0. Explored(p.a) /\ b \in Slot
    BY <1>2, <1>4, <1>10 DEF PickHome, PickNext, Entry
  <2>1. CASE b \notin {p.a, 0} /\ loc' = [loc EXCEPT ![w].pick.b = b] /\ Goto(w, "pick_b")
    <3>1. v = [p EXCEPT !.b = b]
      BY <1>2, <2>1 DEF Locals
    <3>2. v.a = p.a /\ v.b = b /\ v.c = p.c
      BY <1>2, <3>1 DEF Picks
    <3>3. NextOrSelf(p.a) = b
      BY <2>1 DEF NextOrSelf
    <3>4. Root[b] = Root[p.a]
      BY <1>2, <2>0, <3>3, ExploredHome
    <3>5. "pick_b" \in PickLabels /\ "pick_b" \notin PickCLabels
      BY DEF PickLabels, PickCLabels
    <3>. QED
      BY <1>1, <1>2, <1>3, <1>4, <2>0, <2>1, <3>2, <3>4, <3>5, PickOn DEF Done
  <2>2. CASE CallFind(w, p.a, <<"mark_dead">>) /\ UNCHANGED loc
    <3>1. pc'[w] = "find" /\ \A l \in ListLabels : Awaits(w, l)' <=> Awaits(w, l)
      BY <1>1, <2>2, PickMoves
    <3>2. Coarser /\ Explored(p.a)'
      BY <1>1, <1>2, <2>0, <2>2, UFStepSets, ExploredKept
    <3>3. "find" \notin PickLabels \cup PickBLabels \cup PickCLabels
            \cup {"remove", "remove_color", "list_a", "list_b", "swap", "set_parent"}
      BY DEF PickLabels, PickBLabels, PickCLabels
    <3>4. loc[w].unite.a \in Slot /\ loc[w].unite.b \in Slot /\ ListLabels = {"list_a", "list_b"}
      BY <1>2, LocalsTyped DEF Typed, ListLabels
    <3>. QED
      BY <1>2, <1>4, <2>2, <3>1, <3>2, <3>3, <3>4 DEF Done, PickHome, Coarser, Pending
  <2>. QED
    BY <1>10, <2>1, <2>2 DEF PickNext
<1>11. CASE PickB(w)
  <2>0. p.b # 0 /\ p.b # p.a /\ Root[p.b] = Root[p.a] /\ Explored(p.a)
    BY <1>4, <1>11 DEF PickHome, PickB, PickBLabels
  <2>1. CASE PickReturn(w, "PICK_SUCCESS", p.b)
    BY <1>2, <1>5, <2>0, <2>1 DEF PickReturn
  <2>2. CASE Explored(p.b) /\ Goto(w, "pick_c") /\ UNCHANGED loc
    <3>1. "pick_c" \in PickLabels \ PickCLabels
      BY DEF PickLabels, PickCLabels
    <3>. QED
      BY <1>8, <2>0, <2>2, <3>1
  <2>. QED
    BY <1>11, <2>1, <2>2 DEF PickB
<1>12. CASE PickC(w)
  <2> DEFINE c == uf[p.b].list_next
  <2>0. p.b # 0 /\ p.b # p.a /\ Root[p.b] = Root[p.a] /\ Explored(p.a) /\ Explored(p.b) /\ c # 0 /\ c \in Slot
    BY <1>2, <1>4, <1>12 DEF PickHome, PickC, PickBLabels, Entry
  <2>1. v = [p EXCEPT !.c = c]
    BY <1>2, <1>12 DEF Locals, PickC
  <2>2. v.a = p.a /\ v.b = p.b /\ v.c = c
    BY <1>2, <2>1 DEF Picks
  <2>3. NextOrSelf(p.b) = c
    BY <2>0 DEF NextOrSelf
  <2>4. Root[c] = Root[p.a]
    BY <1>2, <2>0, <2>3, ExploredHome
  <2>5. "pick_compare" \in PickLabels /\ Goto(w, "pick_compare")
    BY <1>12 DEF PickLabels, PickC
  <2>. QED
    BY <1>1, <1>2, <1>3, <1>4, <2>0, <2>2, <2>4, <2>5, PickOn DEF Done
<1>13. CASE PickCompare(w)
  <2>0. /\ p.b # 0 /\ p.b # p.a /\ Root[p.b] = Root[p.a] /\ Explored(p.a) /\ Explored(p.b)
        /\ p.c # 0 /\ Root[p.c] = Root[p.a]
    BY <1>4, <1>13 DEF PickHome, PickCompare, PickBLabels, PickCLabels
  <2>1. "pick_write" \in PickLabels
    BY DEF PickLabels
  <2>. QED
    BY <1>7, <1>8, <1>13, <2>0, <2>1 DEF PickCompare
<1>14. CASE PickWrite(w)
  <2>0. p.c # 0 /\ Root[p.c] = Root[p.a]
    BY <1>4, <1>14 DEF PickHome, PickWrite, PickCLabels
  <2>. QED
    BY <1>7, <1>14, <2>0 DEF PickWrite
<1>15. CASE MarkDead(w)
  BY <1>6, <1>15 DEF MarkDead, PickReturn
<1>. QED
  BY <1>9, <1>10, <1>11, <1>12, <1>13, <1>14, <1>15

\* find, called by mark_dead, leaves pick_from_list where it is.
LEMMA OwnMarks ==
  ASSUME NEW callers, SetsInv(callers), HomeInv, NEW w \in Worker, FindRead(w) \/ FindCompress(w), Picking(w)
  PROVE  /\ PickHome(w)'
         /\ pc'[w] = "mark_dead" \/ pc'[w] \in FindLabels
         /\ \A l \in ListLabels : Awaits(w, l)' <=> Awaits(w, l)
<1>1. Typed(callers) /\ Outside(callers) /\ InCall(w, callers) /\ Typed(callers)' /\ Upward' /\ UFStep(w)
  BY UFStepSets DEF SetsInv, Knows, UFStep
<1>2. pc[w] \in FindLabels /\ pc[w] \in Labels \ PickLabels
  BY DEF FindRead, FindCompress, FindLabels, Labels, PickLabels
<1>3. PickHome(w) /\ pc[w] # "pick_a"
  BY <1>2 DEF HomeInv, PickLabels
<1>4. Root' = Root /\ loc' = loc
  BY <1>1, FindOutcome
<1>5. loc[w].pick.a \in Slot /\ loc[w].pick.a # 0 /\ Explored(loc[w].pick.a) /\ Explored(loc[w].pick.a)'
  <2>1. loc[w].pick.a \in Slot /\ loc[w].pick.a # 0 /\ Explored(loc[w].pick.a)
    BY <1>1, <1>3, LocalsTyped DEF Typed, PickHome
  <2>. QED
    BY <1>1, <1>4, <2>1, ExploredKept
<1>6. /\ pc'[w] = "mark_dead" \/ pc'[w] \in FindLabels
      /\ \A l \in ListLabels : Awaits(w, l)' <=> Awaits(w, l)
  <2>1. CASE pc'[w] \in FindLabels /\ stack' = stack
    BY <2>1 DEF Awaits
  <2>2. ASSUME NEW node \in Slot, Return(w, "find", node)
        PROVE  /\ pc'[w] = "mark_dead"
               /\ \A l \in ListLabels : Awaits(w, l)' <=> Awaits(w, l)
    <3> DEFINE code == "find"
    <3>1. Return(w, code, node)
      BY <2>2
    <3> HIDE DEF code
    <3>2. "mark_dead" \notin ListLabels \cup FindBacks /\ ListLabels \cap FindBacks = {}
      BY DEF ListLabels, FindBacks
    <3>3. \E l \in ListLabels \cup {"mark_dead"} : Awaits(w, l)
      BY <1>2 DEF Picking
    <3>4. \A k, l : Awaits(w, k) /\ Awaits(w, l) => k = l
      BY <1>1, AwaitsWhere
    <3>5. \/ pc'[w] \in callers /\ \A l : ~Awaits(w, l)
          \/ pc'[w] = "mark_dead"
               /\ \/ \A l : Awaits(w, l)' <=> Awaits(w, l)
                  \/ (\A l : ~Awaits(w, l)') /\ Awaits(w, "mark_dead")
          \/ pc'[w] \in FindBacks /\ Awaits(w, pc'[w])
      BY <1>1, <1>2, <3>1, LabelSets, AwaitsReturn
    <3>. QED
      BY <3>2, <3>3, <3>4, <3>5
  <2>. QED
    BY <1>1, <2>1, <2>2, FindOutcome
<1>7. pc'[w] \notin PickBLabels \cup PickCLabels \cup {"remove", "remove_color", "list_a", "list_b", "swap", "set_parent", "pick_a"}
  BY <1>6 DEF FindLabels, PickBLabels, PickCLabels
<1>8. {"list_a", "list_b"} = ListLabels
  BY DEF ListLabels
<1>. QED
  BY <1>3, <1>4, <1>5, <1>6, <1>7, <1>8 DEF PickHome, Pending

\* unite has picked an entry of each list when it splices them.
LEMMA SwapNexts ==
  ASSUME NEW callers, SetsInv(callers), HomeInv, NEW w \in Worker, SwapLists(w),
         NEW a, a = loc[w].unite.al, NEW b, b = loc[w].unite.bl
  PROVE  /\ a \in Node /\ b \in Node /\ a # b /\ uf[a].list_status = LOCK /\ uf[b].list_status = LOCK
         /\ ~Crossing(a) /\ ~Crossing(b)
         /\ uf'[a].list_next # 0 /\ uf'[b].list_next # 0
         /\ \A n \in Slot \ {a, b} : uf'[n].list_next = uf[n].list_next
         /\ NextOrSelf(a) \in Slot /\ NextOrSelf(b) \in Slot
         /\ uf'[a].list_next = NextOrSelf(b) /\ uf'[b].list_next = NextOrSelf(a)
<1>1. Typed(callers) /\ uf \in [Slot -> Entry] /\ a \in Slot /\ b \in Slot /\ pc[w] = "swap"
  BY LocalsTyped DEF SetsInv, Typed, UfTyped, SwapLists
<1>2. a # 0 /\ b # 0
  BY <1>1 DEF HomeInv, PickHome
<1>3. a \in HoldsList(w) /\ b \in HoldsList(w)
  BY <1>1, <1>2 DEF HoldsList
<1>4. a # b /\ uf[a].list_status = LOCK /\ uf[b].list_status = LOCK
  BY <1>2, <1>3 DEF SetsInv, Locked
<1>5. ASSUME NEW x \in Worker, Pending(x), NEW n \in {a, b}
      PROVE  n \notin {loc[x].unite.al, loc[x].unite.bl}
  <2>1. x # w
    BY <1>1, <1>5 DEF Pending
  <2>2. n \notin HoldsList(x) /\ n # 0
    BY <1>2, <1>3, <2>1 DEF SetsInv, Locked
  <2>. QED
    BY <1>5, <2>2 DEF Pending, HoldsList
<1> DEFINE x == NextOrSelf(b)
           y == NextOrSelf(a)
<1>6. x \in Slot /\ y \in Slot /\ x # 0 /\ y # 0
  BY <1>1, <1>2 DEF NextOrSelf, Entry
<1>7. uf' = [uf EXCEPT ![a].list_next = x, ![b].list_next = y]
  BY DEF SwapLists, Swapped
<1> HIDE DEF x, y
<1>8. uf'[a].list_next = x /\ uf'[b].list_next = y
      /\ \A n \in Slot \ {a, b} : uf'[n].list_next = uf[n].list_next
  <2> DEFINE f == [uf EXCEPT ![a].list_next = x]
  <2>1. uf[a] \in Entry /\ uf[b] \in Entry
    BY <1>1
  <2>2. f[a] = [uf[a] EXCEPT !.list_next = x] /\ \A n \in Slot \ {a} : f[n] = uf[n]
    BY <1>1
  <2>3. f \in [Slot -> Entry]
    BY <1>1, <1>6, <2>1, <2>2 DEF Entry
  <2>4. uf' = [f EXCEPT ![b].list_next = y]
    BY <1>7
  <2> HIDE DEF f
  <2>5. uf'[b] = [f[b] EXCEPT !.list_next = y] /\ \A n \in Slot \ {b} : uf'[n] = f[n]
    BY <1>1, <2>3, <2>4
  <2>6. [uf[a] EXCEPT !.list_next = x].list_next = x /\ [f[b] EXCEPT !.list_next = y].list_next = y
    BY <1>1, <2>1, <2>3 DEF Entry
  <2>7. f[a].list_next = x
    BY <2>2, <2>6
  <2>8. \A n \in Slot \ {a, b} : f[n].list_next = uf[n].list_next
    BY <2>2
  <2>9. uf'[b].list_next = y
    BY <2>5, <2>6
  <2>10. uf'[a].list_next = x
    BY <1>1, <1>4, <2>5, <2>7
  <2>. QED
    BY <2>5, <2>8, <2>9, <2>10
<1>9. a \in Node /\ b \in Node
  BY <1>1, <1>2, UFConstants DEF Slot, Node
<1>10. ~Crossing(a) /\ ~Crossing(b)
  BY <1>5 DEF Crossing
<1>11. x = NextOrSelf(b) /\ y = NextOrSelf(a)
  BY DEF x, y
<1>. QED
  BY <1>4, <1>6, <1>8, <1>9, <1>10, <1>11

\* A call of pick_from_list by unite.
LEMMA PickHomeCalled ==
  ASSUME NEW callers, SetsInv(callers), NEW w \in Worker, Coarser,
         pc[w] \in Labels \ (FindLabels \cup PickLabels),
         NEW l \in ListLabels, Call(w, "pick_a", <<l>>),
         NEW s \in Slot, s # 0, s = loc'[w].pick.a,
         loc'[w].unite.a = loc[w].unite.a, loc'[w].unite.b = loc[w].unite.b,
         l = "list_a" => s = loc[w].unite.a,
         l = "list_b" => s = loc[w].unite.b /\ loc'[w].unite.al # 0
  PROVE  PickHome(w)'
<1>1. pc'[w] = "pick_a" /\ \A k : Awaits(w, k)' <=> k = l
  BY AwaitsPush DEF SetsInv, Knows
<1>2. "pick_a" \notin PickBLabels \cup PickCLabels
  BY DEF PickBLabels, PickCLabels
<1>. QED
  BY <1>1, <1>2 DEF PickHome, Pending

\* What a worker knows of its two list states after it removed, locked or
\* spliced.
LEMMA OwnLists ==
  ASSUME NEW callers, SetsInv(callers), HomeInv, NEW w \in Worker,
         Remove(w) \/ LockUfCheck(w) \/ LockListA(w) \/ LockListB(w) \/ SwapLists(w)
  PROVE  PickHome(w)'
<1> DEFINE u == loc[w].unite
           Done == PickHome(w)'
<1> SUFFICES Done
  OBVIOUS
<1>1. pc[w] \in Labels \ (FindLabels \cup PickLabels) /\ UFStep(w)
  BY DEF Remove, LockUfCheck, LockListA, LockListB, SwapLists, Labels, FindLabels, PickLabels, UFStep
<1>2. Typed(callers) /\ Outside(callers) /\ InCall(w, callers) /\ loc \in [Worker -> Locals] /\ u \in Unites
      /\ u.a \in Slot /\ u.b \in Slot /\ u.al \in Slot /\ u.bl \in Slot /\ ret[w].node \in Slot /\ loc[w].pick \in Picks
  BY LocalsTyped DEF SetsInv, Knows, Typed, LocTyped, ControlTyped
<1>3. Coarser /\ PickHome(w) /\ UniteHome(w)
  BY <1>1, UFStepSets DEF HomeInv
<1>4. pc[w] \in RegionLabels => u.a # 0 /\ u.b # 0
  BY <1>3 DEF UniteHome, Busy, Region
<1>5. UniteReturn(w) => Done
  BY <1>1, UniteReturned, OffHome
<1>6. \A label \in Labels \ FindLabels : Goto(w, label) \/ Resume(w, label) => pc'[w] = label /\ \A l : ~Awaits(w, l)'
  BY <1>1, <1>2, Moved
<1>7. ASSUME NEW s, NEW l \in ListLabels, CallPick(w, s, <<l>>), s # 0, s \in Slot,
             l = "list_a" => s = u.a, l = "list_b" => s = u.b /\ u.al # 0
      PROVE  Done
  <2>1. Call(w, "pick_a", <<l>>)
    BY <1>7 DEF CallPick
  <2>2. loc'[w].pick = [NoPick EXCEPT !.a = s] /\ loc'[w].unite = u
    BY <1>2, <1>7 DEF CallPick, Locals
  <2>3. loc'[w].pick.a = s
    BY <2>2 DEF NoPick
  <2>. QED
    BY <1>1, <1>3, <1>7, <2>1, <2>2, <2>3, PickHomeCalled
<1> HIDE DEF Done
<1>8. CASE Remove(w)
  <2>1. CASE Goto(w, "remove_color") /\ UNCHANGED loc
    <3>1. "remove_color" \in Labels \ FindLabels /\ "remove_color" \notin PickLabels \cup PickBLabels \cup PickCLabels
      BY DEF Labels, FindLabels, PickLabels, PickBLabels, PickCLabels
    <3>2. pc'[w] = "remove_color" /\ \A l : ~Awaits(w, l)'
      BY <1>6, <2>1, <3>1
    <3>3. loc[w].pick.a # 0
      BY <1>3, <1>8 DEF PickHome, Remove
    <3>. QED
      BY <2>1, <3>1, <3>2, <3>3 DEF Done, PickHome, Picking, Pending
  <2>2. CASE PickReturn(w, "removed", 0)
    <3>1. ~OnList(w)'
      BY <1>1, <1>2, <2>2, AloneOff DEF PickReturn
    <3>. QED
      BY <3>1, OffHome DEF Done
  <2>. QED
    BY <1>8, <2>1, <2>2 DEF Remove
<1>9. CASE LockUfCheck(w)
  <2>1. pc[w] \in RegionLabels
    BY <1>9 DEF LockUfCheck, RegionLabels
  <2>2. CASE CallPick(w, u.a, <<"list_a">>)
    <3>1. "list_a" \in ListLabels
      BY DEF ListLabels
    <3>. QED
      BY <1>2, <1>4, <1>7, <2>1, <2>2, <3>1
  <2>3. CASE Goto(w, "lock_uf_undo")
    <3>1. "lock_uf_undo" \in Labels \ (FindLabels \cup PickLabels \cup {"remove", "remove_color", "list_a", "list_b", "swap", "set_parent"})
      BY DEF Labels, FindLabels, PickLabels
    <3>2. ~OnList(w)'
      BY <1>1, <1>2, <2>3, <3>1, AloneOff
    <3>. QED
      BY <3>2, OffHome DEF Done
  <2>. QED
    BY <1>9, <2>2, <2>3 DEF LockUfCheck
<1>10. CASE LockListA(w)
  <2>1. pc[w] \in RegionLabels /\ "list_a" \in ListLabels /\ "list_b" \in ListLabels
    BY <1>10 DEF LockListA, RegionLabels, ListLabels
  <2>2. CASE /\ Locks(w, ret[w].node)
             /\ loc' = [loc EXCEPT ![w] = [@ EXCEPT !.unite.al = ret[w].node, !.pick.a = u.b]]
             /\ Call(w, "pick_a", <<"list_b">>)
    <3>1. loc'[w].unite = [u EXCEPT !.al = ret[w].node] /\ loc'[w].pick = [loc[w].pick EXCEPT !.a = u.b]
      BY <1>2, <2>2 DEF Locals
    <3>2. /\ loc'[w].unite.a = u.a /\ loc'[w].unite.b = u.b /\ loc'[w].unite.al = ret[w].node
          /\ loc'[w].pick.a = u.b
      BY <1>2, <3>1 DEF Unites, Picks
    <3>3. ret[w].node # 0
      BY <1>3, <1>10, <2>2 DEF PickHome, LockListA, Locks
    <3>. QED
      BY <1>1, <1>2, <1>3, <1>4, <2>1, <2>2, <3>2, <3>3, PickHomeCalled DEF Done
  <2>3. CASE CallPick(w, u.a, <<"list_a">>)
    BY <1>2, <1>4, <1>7, <2>1, <2>3
  <2>. QED
    BY <1>5, <1>10, <2>2, <2>3 DEF LockListA
<1>11. CASE LockListB(w)
  <2>1. pc[w] \in RegionLabels /\ "list_b" \in ListLabels /\ u.al # 0
    BY <1>3, <1>11 DEF LockListB, RegionLabels, ListLabels, PickHome
  <2>2. CASE Locks(w, ret[w].node) /\ loc' = [loc EXCEPT ![w].unite.bl = ret[w].node] /\ Resume(w, "swap")
    <3>1. loc'[w].unite = [u EXCEPT !.bl = ret[w].node]
      BY <1>2, <2>2 DEF Locals
    <3>2. loc'[w].unite.al = u.al /\ loc'[w].unite.bl = ret[w].node
      BY <1>2, <3>1 DEF Unites
    <3>3. ret[w].node # 0
      BY <1>3, <1>11, <2>2 DEF PickHome, LockListB, Locks
    <3>4. "swap" \in Labels \ FindLabels /\ "swap" \notin PickLabels \cup PickBLabels \cup PickCLabels
      BY DEF Labels, FindLabels, PickLabels, PickBLabels, PickCLabels
    <3>5. pc'[w] = "swap" /\ \A l : ~Awaits(w, l)'
      BY <1>6, <2>2, <3>4
    <3>. QED
      BY <2>1, <3>2, <3>3, <3>4, <3>5 DEF Done, PickHome, Picking, Pending
  <2>3. CASE CallPick(w, u.b, <<"list_b">>)
    <3>1. "list_b" # "list_a"
      OBVIOUS
    <3>. QED
      BY <1>2, <1>4, <1>7, <2>1, <2>3, <3>1
  <2>. QED
    BY <1>5, <1>11, <2>2, <2>3 DEF LockListB
<1>12. CASE SwapLists(w)
  <2>1. pc'[w] = "set_parent" /\ loc' = loc /\ \A l : ~Awaits(w, l)'
    <3>1. "set_parent" \in Labels \ FindLabels
      BY DEF Labels, FindLabels
    <3>. QED
      BY <1>6, <1>12, <3>1 DEF SwapLists
  <2>2. "set_parent" \notin PickLabels \cup PickBLabels \cup PickCLabels
    BY DEF PickLabels, PickBLabels, PickCLabels
  <2>3. PICK a : a = u.al
    OBVIOUS
  <2>4. PICK b : b = u.bl
    OBVIOUS
  <2>5. /\ a \in Slot \ {0} /\ b \in Slot \ {0} /\ ~Crossing(a) /\ ~Crossing(b)
        /\ uf'[a].list_next # 0 /\ uf'[b].list_next # 0
        /\ NextOrSelf(a) \in Slot /\ NextOrSelf(b) \in Slot
        /\ uf'[a].list_next = NextOrSelf(b) /\ uf'[b].list_next = NextOrSelf(a)
    <3>1. Node \subseteq Slot \ {0}
      BY DEF Node, Slot
    <3>. QED
      BY <1>12, <2>3, <2>4, <3>1, SwapNexts
  <2>6. Root[NextOrSelf(a)] = Root[a] /\ Root[NextOrSelf(b)] = Root[b]
    BY <2>5 DEF HomeInv, ListsHome
  <2>7. Root'[uf'[a].list_next] = Root'[b] /\ Root'[uf'[b].list_next] = Root'[a]
    BY <1>3, <2>5, <2>6 DEF Coarser
  <2>8. NextOrSelf(u.al)' = uf'[a].list_next /\ NextOrSelf(u.bl)' = uf'[b].list_next
    BY <2>1, <2>3, <2>4, <2>5 DEF NextOrSelf
  <2>. QED
    BY <2>1, <2>2, <2>3, <2>4, <2>5, <2>7, <2>8 DEF Done, PickHome, Picking, Pending
<1>. QED
  BY <1>8, <1>9, <1>10, <1>11, <1>12

\* The successor of an explored slot is overwritten by its reader.
LEMMA WriteNexts ==
  ASSUME NEW callers, SetsInv(callers), HomeInv, NEW w \in Worker, PickWrite(w),
         NEW p, p = loc[w].pick
  PROVE  /\ p.a \in Slot /\ p.b \in Slot /\ p.c \in Slot /\ p.a # 0 /\ p.b # 0 /\ p.c # 0
         /\ Explored(p.a) /\ Explored(p.b) /\ Root[p.b] = Root[p.a] /\ Root[p.c] = Root[p.a]
         /\ uf'[p.a].list_next = p.c /\ \A n \in Slot \ {p.a} : uf'[n].list_next = uf[n].list_next
<1>1. Typed(callers) /\ uf \in [Slot -> Entry] /\ p.a \in Slot /\ p.b \in Slot /\ p.c \in Slot /\ pc[w] = "pick_write"
  BY LocalsTyped DEF SetsInv, Typed, UfTyped, PickWrite
<1>2. pc[w] \in PickLabels /\ pc[w] \in PickBLabels \ {"pick_b"} /\ pc[w] \in PickCLabels
  BY <1>1 DEF PickLabels, PickBLabels, PickCLabels
<1>3. p.a # 0 /\ p.b # 0 /\ p.c # 0 /\ Explored(p.a) /\ Explored(p.b) /\ Root[p.b] = Root[p.a] /\ Root[p.c] = Root[p.a]
  BY <1>1, <1>2 DEF HomeInv, PickHome, Picking
<1>4. uf' = [uf EXCEPT ![p.a].list_next = p.c]
  BY DEF PickWrite
<1>5. uf'[p.a].list_next = p.c /\ \A n \in Slot \ {p.a} : uf'[n].list_next = uf[n].list_next
  BY <1>1, <1>4 DEF Entry
<1>. QED
  BY <1>1, <1>3, <1>5

\* Nobody else touches the successor of an entry that is held locked.
LEMMA HeldNexts ==
  ASSUME NEW callers, SetsInv(callers), HomeInv, NEW w \in Worker, UFStep(w), NEW x \in Worker \ {w},
         NEW n \in Slot, n \in HoldsList(x)
  PROVE  uf'[n].list_next = uf[n].list_next
<1>1. Typed(callers) /\ uf[n].list_status = LOCK /\ n # 0 /\ n \notin HoldsList(w)
  BY DEF SetsInv, Locked, HoldsList
<1>2. CASE PickWrite(w)
  <2>1. PICK p : p = loc[w].pick
    OBVIOUS
  <2>2. Explored(p.a) /\ \A k \in Slot \ {p.a} : uf'[k].list_next = uf[k].list_next
    BY <1>2, <2>1, WriteNexts
  <2>. QED
    BY <1>1, <2>2 DEF Explored, LOCK, TOMB
<1>3. CASE SwapLists(w)
  <2>1. PICK a : a = loc[w].unite.al
    OBVIOUS
  <2>2. PICK b : b = loc[w].unite.bl
    OBVIOUS
  <2>3. a # n /\ b # n
    BY <1>1, <1>3, <2>1, <2>2 DEF HoldsList, SwapLists
  <2>4. \A k \in Slot \ {a, b} : uf'[k].list_next = uf[k].list_next
    BY <1>3, <2>1, <2>2, SwapNexts
  <2>. QED
    BY <2>3, <2>4
<1>. QED
  BY <1>1, <1>2, <1>3, UFStepNexts

\* What a worker knows of its list states stays true when another worker steps.
LEMMA OthersHome ==
  ASSUME NEW callers, SetsInv(callers), HomeInv, NEW w \in Worker, UFStep(w), NEW x \in Worker \ {w}
  PROVE  UniteHome(x)' /\ PickHome(x)'
<1> DEFINE u == loc[x].unite
           p == loc[x].pick
<1>1. /\ pc'[x] = pc[x] /\ stack'[x] = stack[x] /\ ret'[x] = ret[x] /\ path'[x] = path[x] /\ loc'[x] = loc[x]
      /\ Coarser /\ UniteHome(x) /\ PickHome(x) /\ Typed(callers)
  BY UFStepAlone, UFStepSets DEF HomeInv, Alone, OthersKept, SetsInv, Knows
<1>2. /\ u.a \in Slot /\ u.b \in Slot /\ u.al \in Slot /\ u.bl \in Slot
      /\ p.a \in Slot /\ p.b \in Slot /\ p.c \in Slot /\ ret[x].node \in Slot
      /\ uf \in [Slot -> Entry]
  BY <1>1, LocalsTyped DEF Typed, ControlTyped, UfTyped
<1>3. \A l : Awaits(x, l)' <=> Awaits(x, l)
  BY <1>1 DEF Awaits
<1>4. Busy(x)' <=> Busy(x)
  BY <1>1, <1>3 DEF Busy, Region
<1>5. UniteHome(x)'
  BY <1>1, <1>2, <1>4 DEF UniteHome, Coarser
<1>6. \A n \in Slot : Explored(n) => Explored(n)'
  BY ExploredKept
<1>7. Picking(x)' <=> Picking(x)
  BY <1>1, <1>3 DEF Picking
<1>8. Pending(x) => /\ NextOrSelf(u.al)' = NextOrSelf(u.al) /\ NextOrSelf(u.bl)' = NextOrSelf(u.bl)
                    /\ NextOrSelf(u.al) \in Slot /\ NextOrSelf(u.bl) \in Slot
  <2>1. SUFFICES ASSUME Pending(x) PROVE /\ NextOrSelf(u.al)' = NextOrSelf(u.al) /\ NextOrSelf(u.bl)' = NextOrSelf(u.bl)
                                         /\ NextOrSelf(u.al) \in Slot /\ NextOrSelf(u.bl) \in Slot
    OBVIOUS
  <2>2. u.al # 0 /\ u.bl # 0
    BY <1>1, <2>1 DEF PickHome, Pending
  <2>3. u.al \in HoldsList(x) /\ u.bl \in HoldsList(x)
    BY <2>1, <2>2 DEF HoldsList, Pending
  <2>4. uf'[u.al].list_next = uf[u.al].list_next /\ uf'[u.bl].list_next = uf[u.bl].list_next
    BY <1>2, <2>3, HeldNexts
  <2>5. uf[u.al].list_next \in Slot /\ uf[u.bl].list_next \in Slot
    BY <1>2 DEF Entry
  <2>. QED
    BY <1>1, <1>2, <2>4, <2>5 DEF NextOrSelf
<1>9. PickHome(x)'
  <2>1. Pending(x)' <=> Pending(x)
    BY <1>1 DEF Pending
  <2>2. Pending(x)' => (Root[NextOrSelf(u.al)] = Root[u.bl] /\ Root[NextOrSelf(u.bl)] = Root[u.al])'
    BY <1>1, <1>2, <1>8, <2>1 DEF Coarser, PickHome
  <2>3. \A m \in Slot, n \in Slot : Root[m] = Root[n] => Root'[m] = Root'[n]
    BY <1>1 DEF Coarser
  <2>. QED
    BY <1>1, <1>2, <1>3, <1>6, <1>7, <2>1, <2>2, <2>3 DEF PickHome
<1>. QED
  BY <1>5, <1>9

\* At set_parent the only step is SetParent.
LEMMA PendingSets ==
  ASSUME NEW w \in Worker, UFStep(w), Pending(w)
  PROVE  SetParent(w)
<1>1. CASE FindRead(w) \/ FindCompress(w) \/ ClaimDead(w) \/ ClaimFound(w) \/ ClaimOr(w) \/ ClaimCheck(w)
           \/ SameB(w) \/ SameA(w) \/ SameRetry(w)
  BY <1>1 DEF Pending, FindRead, FindCompress, ClaimDead, ClaimFound, ClaimOr, ClaimCheck, SameB, SameA, SameRetry
<1>2. CASE PickA(w) \/ PickNext(w) \/ PickB(w) \/ PickC(w) \/ PickCompare(w) \/ PickWrite(w)
           \/ MarkDead(w) \/ Remove(w) \/ RemoveColor(w)
  BY <1>2 DEF Pending, PickA, PickNext, PickB, PickC, PickCompare, PickWrite, MarkDead, Remove, RemoveColor
<1>3. CASE UniteFindB(w) \/ UniteRoots(w) \/ LockUf(w) \/ LockUfCheck(w) \/ LockUfUndo(w)
           \/ LockListA(w) \/ LockListB(w) \/ SwapLists(w)
  BY <1>3 DEF Pending, UniteFindB, UniteRoots, LockUf, LockUfCheck, LockUfUndo, LockListA, LockListB, SwapLists
<1>4. CASE ReadQw(w) \/ CompareRw(w) \/ AddQw(w) \/ CheckR(w) \/ FoundR(w)
           \/ UnlockListA(w) \/ UnlockListB(w) \/ UnlockUf(w)
  BY <1>4 DEF Pending, ReadQw, CompareRw, AddQw, CheckR, FoundR, UnlockListA, UnlockListB, UnlockUf
<1>. QED
  BY <1>1, <1>2, <1>3, <1>4 DEF UFStep

\* The lists stay home: a reader writes an entry of the same set, and splicing two
\* lists crosses two sets that are about to be one.
LEMMA UFStepLists ==
  ASSUME NEW callers, SetsInv(callers), HomeInv, NEW w \in Worker, UFStep(w)
  PROVE  ListsHome'
<1>1. Typed(callers) /\ uf \in [Slot -> Entry] /\ Coarser /\ ListsHome
  BY UFStepSets DEF SetsInv, Typed, UfTyped, HomeInv
<1>2. ~Explored(0)'
  BY ExploredKept
<1>3. \A x \in Worker \ {w} : pc'[x] = pc[x] /\ loc'[x] = loc[x]
  BY UFStepAlone DEF Alone, OthersKept, SetsInv, Knows
<1>4. \A n \in Slot : NextOrSelf(n) \in Slot
  BY <1>1 DEF NextOrSelf, Entry
<1> DEFINE Home1(n) == Crossing(n)' \/ (Root[NextOrSelf(n)] = Root[n])'
<1>5. ASSUME NEW n \in Slot, uf'[n].list_next = uf[n].list_next, ~Crossing(n)
      PROVE  Home1(n)
  <2>1. Root[NextOrSelf(n)] = Root[n] /\ NextOrSelf(n)' = NextOrSelf(n)
    BY <1>1, <1>5 DEF ListsHome, NextOrSelf
  <2>. QED
    BY <1>1, <1>4, <2>1 DEF Coarser
<1>6. ASSUME NEW n \in Slot, NEW x \in Worker \ {w}, Pending(x), n \in {loc[x].unite.al, loc[x].unite.bl}
      PROVE  Crossing(n)'
  BY <1>3, <1>6 DEF Crossing, Pending
<1>7. CASE SwapLists(w)
  <2>1. PICK a : a = loc[w].unite.al
    OBVIOUS
  <2>2. PICK b : b = loc[w].unite.bl
    OBVIOUS
  <2>3. \A n \in Slot \ {a, b} : uf'[n].list_next = uf[n].list_next
    BY <1>7, <2>1, <2>2, SwapNexts
  <2>4. pc'[w] = "set_parent" /\ loc' = loc /\ pc[w] = "swap"
    BY <1>1, <1>7 DEF SwapLists, Goto, Typed, ControlTyped
  <2>5. Crossing(a)' /\ Crossing(b)'
    BY <2>1, <2>2, <2>4 DEF Crossing, Pending
  <2>6. \A n \in Slot : Crossing(n) => Crossing(n)'
    BY <1>6, <2>4 DEF Crossing, Pending
  <2>7. \A n \in Slot : Home1(n)
    BY <1>5, <2>3, <2>5, <2>6
  <2>. QED
    BY <1>2, <2>7 DEF ListsHome
<1>8. CASE PickWrite(w)
  <2>1. PICK p : p = loc[w].pick
    OBVIOUS
  <2>2. /\ p.a \in Slot /\ p.c \in Slot /\ p.c # 0 /\ Root[p.c] = Root[p.a]
        /\ uf'[p.a].list_next = p.c /\ \A n \in Slot \ {p.a} : uf'[n].list_next = uf[n].list_next
    BY <1>8, <2>1, WriteNexts
  <2>3. Home1(p.a)
    BY <1>1, <2>2 DEF Coarser, NextOrSelf
  <2>4. \A n \in Slot : Crossing(n) => Crossing(n)'
    BY <1>6, <1>8 DEF Crossing, Pending, PickWrite
  <2>5. \A n \in Slot : Home1(n)
    BY <1>5, <2>2, <2>3, <2>4
  <2>. QED
    BY <1>2, <2>5 DEF ListsHome
<1>9. CASE ~SwapLists(w) /\ ~PickWrite(w)
  <2>1. \A n \in Slot : uf'[n].list_next = uf[n].list_next
    BY <1>1, <1>9, UFStepNexts
  <2>2. CASE SetParent(w)
    <3> DEFINE u == loc[w].unite
    <3>1. /\ pc[w] = "set_parent" /\ loc' = loc /\ pc'[w] = "read_qw"
          /\ u.al \in Slot /\ u.bl \in Slot /\ u.a \in Slot /\ u.b \in Slot
      BY <1>1, <2>2, LocalsTyped DEF SetParent, Goto, Typed, ControlTyped
    <3>2. u.al # 0 /\ u.bl # 0 /\ Root[NextOrSelf(u.al)] = Root[u.bl] /\ Root[NextOrSelf(u.bl)] = Root[u.al]
          /\ Root[u.al] = Root[u.a] /\ Root[u.bl] = Root[u.b]
      BY <3>1 DEF HomeInv, PickHome, UniteHome, Pending
    <3>3. Root'[u.a] = Root'[u.b]
      <4>1. SetsInv(callers)'
        BY UFStepSets
      <4>2. UniteSets(w)'
        BY <4>1 DEF SetsInv, Knows
      <4>3. Joined(w)'
        BY <3>1 DEF Joined, JoinedLabels
      <4>. QED
        BY <3>1, <4>2, <4>3 DEF UniteSets
    <3>4. ASSUME NEW a \in Slot, NEW b \in Slot, {a, b} = {u.al, u.bl}
          PROVE  Home1(a)
      <4>1. Root'[NextOrSelf(a)] = Root'[b] /\ Root'[a] = Root'[b] /\ NextOrSelf(a)' = NextOrSelf(a)
        <5>1. Root[NextOrSelf(a)] = Root[b] /\ {Root[a], Root[b]} = {Root[u.a], Root[u.b]}
          BY <3>2, <3>4
        <5>2. Root'[a] = Root'[b]
          <6>1. (Root[a] = Root[u.a] /\ Root[b] = Root[u.b]) \/ (Root[a] = Root[u.b] /\ Root[b] = Root[u.a])
            BY <5>1
          <6>. QED
            BY <1>1, <3>1, <3>3, <6>1 DEF Coarser
        <5>3. Root'[NextOrSelf(a)] = Root'[b]
          BY <1>1, <1>4, <5>1 DEF Coarser
        <5>. QED
          BY <2>1, <5>2, <5>3 DEF NextOrSelf
      <4>. QED
        BY <4>1
    <3>6. ASSUME NEW n \in Slot, Crossing(n)
          PROVE  Home1(n)
      <4>1. PICK x \in Worker : Pending(x) /\ n \in {loc[x].unite.al, loc[x].unite.bl}
        BY <3>6 DEF Crossing
      <4>2. CASE x = w
        <5>1. \E b \in Slot : {n, b} = {u.al, u.bl}
          BY <3>1, <4>1, <4>2
        <5>. QED
          BY <3>4, <5>1
      <4>3. CASE x # w
        BY <1>6, <4>1, <4>3
      <4>. QED
        BY <4>2, <4>3
    <3>7. \A n \in Slot : Home1(n)
      BY <1>5, <2>1, <3>6
    <3>. QED
      BY <1>2, <3>7 DEF ListsHome
  <2>3. CASE ~SetParent(w)
    <3>1. ~Pending(w)
      BY <1>9, <2>3, PendingSets
    <3>2. \A n \in Slot : Crossing(n) => Crossing(n)'
      BY <1>6, <3>1 DEF Crossing
    <3>3. \A n \in Slot : Home1(n)
      BY <1>5, <2>1, <3>2
    <3>. QED
      BY <1>2, <3>3 DEF ListsHome
  <2>. QED
    BY <2>2, <2>3
<1>. QED
  BY <1>7, <1>8, <1>9

\* Every step keeps the lists at home, provided that pick_from_list finds an entry
\* after an explored one.
LEMMA UFStepHomes ==
  ASSUME NEW callers, SetsInv(callers), HomeInv, NEW w \in Worker, UFStep(w),
         pc[w] = "pick_c" => uf[loc[w].pick.b].list_next # 0
  PROVE  HomeInv'
<1>1. ListsHome' /\ \A x \in Worker \ {w} : UniteHome(x)' /\ PickHome(x)'
  BY UFStepLists, OthersHome
<1>2. UniteHome(w)'
  BY OwnUnite DEF UniteHome
<1>3. PickHome(w)'
  <2>1. CASE \/ PickA(w) \/ PickNext(w) \/ PickB(w) \/ PickC(w) \/ PickCompare(w) \/ PickWrite(w) \/ MarkDead(w)
    BY <2>1, OwnPicks
  <2>2. CASE (FindRead(w) \/ FindCompress(w)) /\ Picking(w)
    BY <2>2, OwnMarks
  <2>3. CASE Remove(w) \/ LockUfCheck(w) \/ LockListA(w) \/ LockListB(w) \/ SwapLists(w)
    BY <2>3, OwnLists
  <2>. QED
    BY <2>1, <2>2, <2>3, Elsewhere, OffHome DEF UFStep
<1>. QED
  BY <1>1, <1>2, <1>3 DEF HomeInv

\* So do the steps of the code that uses this class, if it passes nodes.
PassesNodes(w) ==
  /\ pc'[w] \in {"pick_a", "remove"} => loc'[w].pick.a # 0
  /\ Awaits(w, "unite_a")' => loc'[w].unite.a # 0 /\ loc'[w].unite.b # 0

\* The steps of the callers keep what all workers know of their list states.
LEMMA CallerHomes ==
  ASSUME NEW callers, SetsInv(callers), HomeInv, NEW w \in Worker, CallerStep(w, callers), PassesNodes(w),
         Root' = Root
  PROVE  HomeInv'
<1>1. Typed(callers) /\ Outside(callers) /\ InCall(w, callers) /\ uf' = uf /\ pc[w] \in callers
  BY DEF SetsInv, Knows, CallerStep
<1>2. /\ stack[w] = <<>> /\ Alone(w)
      /\ \/ pc'[w] \in callers /\ stack'[w] = <<>>
         \/ \E c \in callers : pc'[w] \in {"pick_a", "remove"} /\ stack'[w] = <<c>>
         \/ \E c \in callers, b \in {"claim_dead", "same_b", "unite_a"} :
              pc'[w] = "find" /\ (stack'[w] = <<c>> \/ stack'[w] = <<c, b>>)
  BY <1>1, CallerMoves
<1>3. callers \cap (RegionLabels \cup PickLabels \cup FindLabels
                      \cup {"unite_a", "unite_b", "remove", "remove_color"}) = {}
  BY <1>1 DEF Outside, Labels, RegionLabels, PickLabels, FindLabels
<1>4. /\ pc'[w] \in callers \cup {"pick_a", "remove", "find"}
      /\ \A l \in ListLabels \cup {"mark_dead", "found_r", "unite_b"} : ~Awaits(w, l)'
  <2>1. ASSUME NEW c, stack'[w] = <<>> \/ stack'[w] = <<c>>
        PROVE  \A l : ~Awaits(w, l)'
    BY <2>1 DEF Awaits
  <2>2. ASSUME NEW c, NEW b \in {"claim_dead", "same_b", "unite_a"}, stack'[w] = <<c, b>>
        PROVE  \A l \in ListLabels \cup {"mark_dead", "found_r", "unite_b"} : ~Awaits(w, l)'
    <3>1. stack'[w][2] = b
      BY <2>2
    <3>. QED
      BY <3>1 DEF Awaits, ListLabels
  <2>. QED
    BY <1>2, <2>1, <2>2
<1>5. ~Busy(w)
  <2>1. \A l : ~Awaits(w, l)
    BY <1>2 DEF Awaits
  <2>. QED
    BY <1>1, <1>3, <2>1 DEF Busy, Region
<1>6. PickHome(w)'
  <2>1. {"pick_a", "remove", "find"} \cap (PickBLabels \cup PickCLabels \cup {"list_a", "list_b", "swap", "set_parent"}) = {}
        /\ callers \cap (PickBLabels \cup PickCLabels \cup {"list_a", "list_b", "swap", "set_parent"}) = {}
    BY <1>3 DEF PickBLabels, PickCLabels, PickLabels, RegionLabels
  <2>2. Picking(w)' => pc'[w] = "pick_a"
    BY <1>3, <1>4 DEF Picking, PickLabels
  <2>3. pc'[w] \in {"remove", "remove_color"} => pc'[w] = "remove"
    BY <1>3, <1>4
  <2>. QED
    BY <1>4, <2>1, <2>2, <2>3 DEF PickHome, PassesNodes, Pending, ListLabels
<1>7. UniteHome(w)'
  <2>1. loc'[w].unite = loc[w].unite \/ (loc'[w].unite.al = 0 /\ loc'[w].unite.bl = 0)
    <3>1. ASSUME NEW s, NEW s2, NEW back, CallUnite(w, s, s2, back)
          PROVE  loc'[w].unite.al = 0 /\ loc'[w].unite.bl = 0
      <4>1. loc'[w].unite = [NoUnite EXCEPT !.a = s, !.b = s2]
        BY <1>1, <3>1 DEF CallUnite, Typed, LocTyped, Locals
      <4>. QED
        BY <4>1 DEF NoUnite
    <3>2. \A s : CallPick(w, s, <<>>) => TRUE
      OBVIOUS
    <3>3. ASSUME NEW s, NEW s2, NEW back,
                 \/ CallSameset(w, s, s2, back) \/ CallPick(w, s, <<back>>) \/ CallRemove(w, s, back) \/ UNCHANGED loc
          PROVE  loc'[w].unite = loc[w].unite
      BY <1>1, <3>3 DEF CallSameset, CallPick, CallRemove, Typed, LocTyped, Locals
    <3>. QED
      BY <3>1, <3>3 DEF CallerStep
  <2>2. Busy(w)' => Awaits(w, "unite_a")'
    BY <1>3, <1>4 DEF Busy, Region, RegionLabels, ListLabels
  <2>3. UniteHome(w) /\ Root' = Root
    BY DEF HomeInv
  <2>. QED
    BY <2>1, <2>2, <2>3 DEF UniteHome, PassesNodes
<1>8. ListsHome'
  <2>1. \A x \in Worker : Pending(x)' <=> Pending(x)
    <3>1. pc'[w] # "set_parent" /\ pc[w] # "set_parent"
      <4>1. "set_parent" \in RegionLabels /\ "set_parent" \notin {"pick_a", "remove", "find"}
        BY DEF RegionLabels
      <4>. QED
        BY <1>1, <1>3, <1>4, <4>1
    <3>. QED
      BY <1>2, <3>1 DEF Alone, OthersKept, Pending
  <2>2. \A n \in Slot : Crossing(n)' <=> Crossing(n)
    <3>1. ~Pending(w)
      BY <1>1, <1>3 DEF Pending, RegionLabels
    <3>. QED
      BY <1>2, <2>1, <3>1 DEF Alone, OthersKept, Crossing
  <2>. QED
    BY <1>1, <2>2 DEF HomeInv, ListsHome, Explored, NextOrSelf
<1>9. ASSUME NEW x \in Worker \ {w}
      PROVE  UniteHome(x)' /\ PickHome(x)'
  <2>1. /\ pc'[x] = pc[x] /\ stack'[x] = stack[x] /\ ret'[x] = ret[x] /\ path'[x] = path[x] /\ loc'[x] = loc[x]
        /\ UniteHome(x) /\ PickHome(x)
    BY <1>2 DEF HomeInv, Alone, OthersKept
  <2>2. \A l : Awaits(x, l)' <=> Awaits(x, l)
    BY <2>1 DEF Awaits
  <2>3. (Busy(x)' <=> Busy(x)) /\ (Picking(x)' <=> Picking(x)) /\ (Pending(x)' <=> Pending(x))
    BY <2>1, <2>2 DEF Busy, Region, Picking, Pending
  <2>4. \A n : (Explored(n)' <=> Explored(n)) /\ NextOrSelf(n)' = NextOrSelf(n)
    BY <1>1 DEF Explored, NextOrSelf
  <2>5. UniteHome(x)'
    BY <2>1, <2>3 DEF UniteHome
  <2>6. NextOrSelf(loc[x].unite.al)' = NextOrSelf(loc[x].unite.al) /\ NextOrSelf(loc[x].unite.bl)' = NextOrSelf(loc[x].unite.bl)
    BY <1>1, <2>1 DEF NextOrSelf
  <2>7. PickHome(x)'
    BY <2>1, <2>2, <2>3, <2>4, <2>6 DEF PickHome
  <2>. QED
    BY <2>5, <2>7
<1>. QED
  BY <1>6, <1>7, <1>8, <1>9 DEF HomeInv

-----------------------------------------------------------------------------
(* The lists as cycles: the successors s that the states had when they were *)
(* explored, and the name c of the cycle each is on.  Readers only shorten  *)
(* the way along s past explored states.                                    *)

\* From n on, s passes explored states of n's cycle until it reaches x.
Skips(s, c, n, x) ==
  /\ c[x] = c[n]
  /\ \E T \in SUBSET Slot : n \in T /\ \A m \in T : Explored(m) /\ (s[m] \in T \/ s[m] = x)

AllExplored(c, n) == \A m \in Slot : c[m] = c[n] => Explored(m)

\* The states of a set are on one cycle, which is named after a representative; while
\* a worker is about to link q to r their sets share it.
Names(c) ==
  \A n \in Slot :
    /\ n <= c[n] /\ c[Root[n]] = c[n]
    /\ uf[n].parent = 0 => c[n] = n \/ \E w \in Worker : Pending(w) /\ n = loc[w].unite.q

Nexts(s, c) ==
  \A n \in Slot :
    /\ IF Explored(n) THEN Skips(s, c, n, NextOrSelf(n)) ELSE s[n] = NextOrSelf(n)
    /\ uf[n].list_next = 0 => s[n] = n

Deads(c) == \A n \in Slot : uf[n].uf_status = DEAD => uf[n].parent = 0 /\ AllExplored(c, n)

\* What a worker has read of a list, and what its unite has spliced
Reads(w, s, c) ==
  LET p == loc[w].pick
      u == loc[w].unite
  IN  /\ pc[w] \in PickBLabels => Skips(s, c, p.a, p.b)
      /\ pc[w] \in PickCLabels => Skips(s, c, p.b, p.c)
      /\ Picking(w) /\ pc[w] \in FindLabels \cup {"mark_dead"} => AllExplored(c, p.a)
      /\ Picking(w) /\ pc[w] \in FindLabels => Root[path[w][1]] = Root[p.a]
      /\ pc[w] = "mark_dead" => Root[ret[w].node] = Root[p.a]
      /\ Picking(w) /\ pc[w] \in {"compress", "mark_dead"} => uf[ret[w].node].parent = 0
      /\ Pending(w) => c[u.q] = c[u.r]

Lists(s, c) ==
  /\ Cycles(s, c) /\ Names(c) /\ Nexts(s, c) /\ Deads(c)
  /\ \A w \in Worker : Reads(w, s, c)

ListInv == \E s, c : Lists(s, c)

\* Skips goes on, and comes round.
LEMMA SkipsOn ==
  ASSUME NEW s, NEW c, NEW n, NEW x, NEW y, Skips(s, c, n, x), Skips(s, c, x, y)
  PROVE  Skips(s, c, n, y)
<1>1. PICK T \in SUBSET Slot : n \in T /\ \A m \in T : Explored(m) /\ (s[m] \in T \/ s[m] = x)
  BY DEF Skips
<1>2. PICK U \in SUBSET Slot : x \in U /\ \A m \in U : Explored(m) /\ (s[m] \in U \/ s[m] = y)
  BY DEF Skips
<1>3. T \cup U \in SUBSET Slot /\ n \in T \cup U
      /\ \A m \in T \cup U : Explored(m) /\ (s[m] \in T \cup U \/ s[m] = y)
  BY <1>1, <1>2
<1>. QED
  BY <1>3 DEF Skips

\* When s leads from n back to n over explored states, the whole cycle of n is
\* explored.
LEMMA SkipsRound ==
  ASSUME NEW s, NEW c, Cycles(s, c), NEW n \in Slot, Skips(s, c, n, n)
  PROVE  AllExplored(c, n)
<1>1. PICK T \in SUBSET Slot : n \in T /\ \A m \in T : Explored(m) /\ (s[m] \in T \/ s[m] = n)
  BY DEF Skips
<1>2. \A k \in T : c[k] = c[n] => s[k] \in T
  BY <1>1
<1>3. \A m \in Slot : c[m] = c[n] => m \in T
  BY <1>1, <1>2, PassesInside DEF Cycles
<1>. QED
  BY <1>1, <1>3 DEF AllExplored

\* One step from an explored state.
LEMMA SkipsOne ==
  ASSUME NEW s, NEW c, Cycles(s, c), NEW n \in Slot, Explored(n)
  PROVE  Skips(s, c, n, s[n])
<1>1. c[s[n]] = c[n] /\ {n} \in SUBSET Slot /\ \A m \in {n} : Explored(m) /\ (s[m] \in {n} \/ s[m] = s[n])
  BY DEF Cycles
<1>. QED
  BY <1>1 DEF Skips

\* A state that is its own successor is alone on its cycle.
LEMMA AloneOnCycle ==
  ASSUME NEW s, NEW c, Cycles(s, c), NEW n \in Slot, s[n] = n, NEW m \in Slot, c[m] = c[n]
  PROVE  m = n
<1> DEFINE S == {n}
<1>1. S \in SUBSET Slot /\ n \in S /\ \A k \in S : c[k] = c[n] => s[k] \in S
  OBVIOUS
<1>2. m \in S
  BY <1>1, PassesInside DEF Cycles
<1>. QED
  BY <1>2

\* Nothing that is said of explored states is lost.
LEMMA SkipsKept ==
  ASSUME \A n \in Slot : Explored(n) => Explored(n)', NEW s, NEW c, NEW n, NEW x
  PROVE  /\ Skips(s, c, n, x) => Skips(s, c, n, x)'
         /\ AllExplored(c, n) => AllExplored(c, n)'
<1>1. ASSUME Skips(s, c, n, x)
      PROVE  Skips(s, c, n, x)'
  <2>1. PICK T \in SUBSET Slot : n \in T /\ \A m \in T : Explored(m) /\ (s[m] \in T \/ s[m] = x)
    BY <1>1 DEF Skips
  <2>2. \A m \in T : Explored(m)' /\ (s[m] \in T \/ s[m] = x)
    BY <2>1
  <2>. QED
    BY <1>1, <2>1, <2>2 DEF Skips
<1>. QED
  BY <1>1 DEF AllExplored

\* Splicing two lists at entries that are not explored neither.
LEMMA SkipsSpliced ==
  ASSUME \A n \in Slot : Explored(n) => Explored(n)', NEW s, NEW c, Cycles(s, c),
         NEW a \in Slot, NEW b \in Slot, ~Explored(a), ~Explored(b), NEW q, NEW r,
         NEW n \in Slot, NEW x \in Slot, Skips(s, c, n, x)
  PROVE  Skips(Spliced(s, a, b), Renamed(c, q, r), n, x)'
<1> DEFINE d == Spliced(s, a, b)
           e == Renamed(c, q, r)
<1>1. PICK T \in SUBSET Slot : n \in T /\ \A m \in T : Explored(m) /\ (s[m] \in T \/ s[m] = x)
  BY DEF Skips
<1>2. e[n] = e[x]
  BY DEF Skips, Renamed
<1>3. \A m \in T : d[m] = s[m]
  BY <1>1 DEF Spliced, Cycles
<1> HIDE DEF d, e
<1>4. n \in T /\ \A m \in T : Explored(m)' /\ (d[m] \in T \/ d[m] = x)
  BY <1>1, <1>3
<1>. QED
  BY <1>2, <1>4 DEF Skips, d, e

\* Two cycles with an unexplored state each: splicing them touches no cycle that
\* is all explored.
LEMMA AllSpliced ==
  ASSUME \A n \in Slot : Explored(n) => Explored(n)', NEW c, NEW a \in Slot, NEW b \in Slot, ~Explored(a), ~Explored(b),
         NEW q, NEW r, {c[a], c[b]} = {q, r}, NEW n \in Slot, AllExplored(c, n)
  PROVE  AllExplored(Renamed(c, q, r), n)'
<1>1. c[n] \notin {q, r}
  BY DEF AllExplored
<1>2. \A m \in Slot : Renamed(c, q, r)[m] = Renamed(c, q, r)[n] => c[m] = c[n]
  BY <1>1 DEF Renamed
<1>. QED
  BY <1>2 DEF AllExplored

-----------------------------------------------------------------------------
(* The steps other than splicing keep the cycles as they are. *)

\* States are explored by remove_from_list.
LEMMA ExploredFrom ==
  ASSUME NEW callers, SetsInv(callers), HomeInv, NEW w \in Worker, UFStep(w), NEW n \in Slot, Explored(n)'
  PROVE  Explored(n) \/ (Remove(w) /\ n = loc[w].pick.a)
<1>1. Typed(callers) /\ uf \in [Slot -> Entry]
  BY DEF SetsInv, Typed, UfTyped
<1>2. LIVE # TOMB /\ LOCK # TOMB
  BY DEF LIVE, LOCK, TOMB
<1>3. loc[w].unite.al \in Slot /\ loc[w].unite.bl \in Slot /\ loc[w].pick.a \in Slot /\ ret[w].node \in Slot
  BY <1>1, LocalsTyped DEF Typed, ControlTyped
<1>4. CASE \A s \in Slot : uf'[s].list_status = uf[s].list_status
  BY <1>4 DEF Explored
<1>5. CASE Remove(w)
  BY <1>1, <1>3, <1>5 DEF Explored, Remove, Entry
<1>6. CASE LockListA(w) \/ LockListB(w)
  BY <1>1, <1>2, <1>3, <1>6 DEF Explored, LockListA, LockListB, Entry
<1>7. CASE UnlockListA(w) \/ UnlockListB(w)
  BY <1>1, <1>2, <1>3, <1>7 DEF Explored, UnlockListA, UnlockListB, Unlocked, Entry
<1>. QED
  BY <1>1, <1>4, <1>5, <1>6, <1>7, UFStepNexts

\* What is pending stays so until it is done.
LEMMA PendingStays ==
  ASSUME NEW callers, SetsInv(callers), NEW w \in Worker, UFStep(w), ~SetParent(w), NEW x \in Worker, Pending(x)
  PROVE  x # w /\ Pending(x)' /\ loc'[x] = loc[x]
<1>1. x # w
  BY PendingSets
<1>. QED
  BY <1>1, UFStepAlone DEF Alone, OthersKept, SetsInv, Knows, Pending

\* Only linking makes representatives of two sets one.
LEMMA RootsKept ==
  ASSUME NEW callers, SetsInv(callers), NEW w \in Worker, UFStep(w), ~SetParent(w)
  PROVE  Root' = Root /\ \A n \in Slot : uf'[n].parent = 0 <=> uf[n].parent = 0
<1>1. Typed(callers) /\ Upward /\ Typed(callers)' /\ Upward' /\ PathOne(w) /\ UfTyped /\ UfTyped'
  BY UFStepSets DEF SetsInv, Knows, Typed
<1>2. CASE FindCompress(w)
  BY <1>1, <1>2, CompressKept
<1>3. CASE ~FindCompress(w)
  BY <1>1, <1>3, UFStepEntries, RootKept
<1>. QED
  BY <1>2, <1>3

\* A pending union is of the cycle of its two entries.
LEMMA PendingCycle ==
  ASSUME NEW callers, SetsInv(callers), HomeInv, NEW s, NEW c, Lists(s, c), NEW x \in Worker, Pending(x)
  PROVE  LET u == loc[x].unite
         IN  /\ c[u.al] = c[u.q] /\ c[u.bl] = c[u.q] /\ c[u.q] = c[u.r]
             /\ ~Explored(u.al) /\ ~Explored(u.bl) /\ u.al \in Slot /\ u.bl \in Slot
             /\ u.q \in Slot /\ u.r \in Slot /\ u.q < u.r /\ uf[u.q].parent = 0 /\ Root[u.q] = u.q
<1> DEFINE u == loc[x].unite
<1>1. /\ u.al \in Slot /\ u.bl \in Slot /\ u.q \in Slot /\ u.r \in Slot /\ u.a \in Slot /\ u.b \in Slot
      /\ UfTyped /\ ParentIncreasing
  BY LocalsTyped DEF SetsInv, Typed, Upward
<1>2. u.al # 0 /\ u.bl # 0 /\ Root[u.al] = Root[u.a] /\ Root[u.bl] = Root[u.b]
  BY DEF HomeInv, PickHome, UniteHome, Pending
<1>3. /\ u.q < u.r
      /\ (Root[u.q] = Root[u.a] /\ Root[u.r] = Root[u.b]) \/ (Root[u.q] = Root[u.b] /\ Root[u.r] = Root[u.a])
  BY DEF SetsInv, Knows, UniteSets, Region, RegionLabels, Pending
<1>4. uf[u.q].parent = 0
  BY DEF SetsInv, Knows, QRoot, Linking, LinkLabels, Pending
<1>5. c[u.q] = c[u.r]
  BY DEF Lists, Reads
<1>6. \A n \in Slot : c[Root[n]] = c[n]
  BY DEF Lists, Names
<1>7. c[u.al] = c[u.q] /\ c[u.bl] = c[u.q]
  <2>1. c[u.al] = c[u.a] /\ c[u.bl] = c[u.b]
    BY <1>1, <1>2, <1>6
  <2>2. {c[u.a], c[u.b]} = {c[u.q], c[u.r]}
    BY <1>1, <1>3, <1>6
  <2>. QED
    BY <1>5, <2>1, <2>2
<1>8. ~Explored(u.al) /\ ~Explored(u.bl)
  <2>1. u.al \in HoldsList(x) /\ u.bl \in HoldsList(x)
    BY <1>2 DEF HoldsList, Pending
  <2>. QED
    BY <2>1 DEF SetsInv, Locked, Explored, LOCK, TOMB
<1>9. Root[u.q] = u.q
  BY <1>1, <1>4, RootFacts
<1>. QED
  BY <1>1, <1>3, <1>4, <1>5, <1>7, <1>8, <1>9

\* No step of the union-find changes which sets the names stand for, but the
\* splice, which renames both.
LEMMA NamesKept ==
  ASSUME NEW callers, SetsInv(callers), HomeInv, NEW s, NEW c, Lists(s, c), NEW w \in Worker, UFStep(w)
  PROVE  Names(c)'
<1>1. Names(c)
  BY DEF Lists
<1>2. CASE ~SetParent(w)
  <2>1. Root' = Root /\ \A n \in Slot : uf'[n].parent = 0 <=> uf[n].parent = 0
    BY <1>2, RootsKept
  <2>2. \A x \in Worker : Pending(x) => Pending(x)' /\ loc'[x] = loc[x]
    BY <1>2, PendingStays
  <2>. QED
    BY <1>1, <2>1, <2>2 DEF Names
<1>3. CASE SetParent(w)
  <2> DEFINE u == loc[w].unite
  <2>0. Pending(w)
    BY <1>3 DEF SetParent, Pending
  <2>1. c[u.q] = c[u.r] /\ u.q \in Slot /\ u.r \in Slot /\ Root[u.q] = u.q /\ uf[u.q].parent = 0 /\ u.q < u.r
    BY <2>0, PendingCycle
  <2>2. /\ \A n \in Slot : uf'[n].parent = IF n = u.q THEN u.r ELSE uf[n].parent
        /\ \A n \in Slot : Root'[n] = IF Root[n] = u.q THEN Root[u.r] ELSE Root[n]
    BY <1>3, LinkKept, UFStepSets DEF SetsInv, Knows
  <2>3. u.r # 0
    <3>1. \A m, n \in Slot : m < n => n # 0
      BY UFConstants DEF Slot
    <3>. QED
      BY <2>1, <3>1
  <2>4. \A x \in Worker \ {w} : Pending(x) => Pending(x)' /\ loc'[x] = loc[x]
    BY UFStepAlone DEF Alone, OthersKept, SetsInv, Knows, Pending
  <2>5. \A n \in Slot : c[Root'[n]] = c[n]
    <3> TAKE n \in Slot
    <3>1. c[Root[n]] = c[n] /\ c[Root[u.r]] = c[u.r]
      BY <1>1, <2>1 DEF Names
    <3>. QED
      BY <2>1, <2>2, <3>1
  <2>6. ASSUME NEW n \in Slot, uf'[n].parent = 0
        PROVE  c[n] = n \/ \E x \in Worker : Pending(x)' /\ n = loc'[x].unite.q
    <3>1. n # u.q /\ uf[n].parent = 0
      BY <2>2, <2>3, <2>6
    <3>2. c[n] = n \/ \E x \in Worker : Pending(x) /\ n = loc[x].unite.q
      BY <1>1, <3>1 DEF Names
    <3>. QED
      BY <2>4, <3>1, <3>2
  <2>. QED
    BY <1>1, <2>5, <2>6 DEF Names
<1>. QED
  BY <1>2, <1>3

\* No step but the splice changes where the stored next pointers lead on the
\* cycles.
LEMMA NextsKept ==
  ASSUME NEW callers, SetsInv(callers), HomeInv, NEW s, NEW c, Lists(s, c), NEW w \in Worker, UFStep(w), ~SwapLists(w)
  PROVE  Nexts(s, c)'
<1>1. Nexts(s, c) /\ Typed(callers) /\ uf \in [Slot -> Entry] /\ Cycles(s, c)
  BY DEF Lists, SetsInv, Typed, UfTyped
<1>2. \A n \in Slot : Explored(n) => Explored(n)'
  BY ExploredKept
<1> DEFINE Right(n) == /\ IF Explored(n)' THEN Skips(s, c, n, NextOrSelf(n))' ELSE s[n] = NextOrSelf(n)'
                       /\ uf'[n].list_next = 0 => s[n] = n
<1>3. ASSUME NEW n \in Slot, uf'[n].list_next = uf[n].list_next
      PROVE  Right(n)
  <2>1. NextOrSelf(n)' = NextOrSelf(n)
    BY <1>3 DEF NextOrSelf
  <2>2. PICK x : x = NextOrSelf(n)
    OBVIOUS
  <2>3. uf'[n].list_next = 0 => s[n] = n
    BY <1>1, <1>3 DEF Nexts
  <2>4. CASE ~Explored(n)
    <3>1. s[n] = x
      BY <1>1, <2>2, <2>4 DEF Nexts
    <3>2. Explored(n)' => Skips(s, c, n, s[n])'
      <4>1. Explored(n)' => c[s[n]] = c[n] /\ {n} \in SUBSET Slot /\ \A m \in {n} : Explored(m)' /\ (s[m] \in {n} \/ s[m] = s[n])
        BY <1>1 DEF Cycles
      <4>. QED
        BY <4>1 DEF Skips
    <3>. QED
      BY <2>1, <2>2, <2>3, <3>1, <3>2
  <2>5. CASE Explored(n)
    <3>1. Skips(s, c, n, x) /\ Explored(n)'
      BY <1>1, <1>2, <2>2, <2>5 DEF Nexts
    <3>2. Skips(s, c, n, x)'
      BY <1>2, <3>1, SkipsKept
    <3>. QED
      BY <2>1, <2>2, <2>3, <3>1, <3>2
  <2>. QED
    BY <2>4, <2>5
<1>4. CASE PickWrite(w)
  <2>1. PICK p : p = loc[w].pick
    OBVIOUS
  <2>2. /\ p.a \in Slot /\ p.b \in Slot /\ p.c \in Slot /\ p.c # 0 /\ Explored(p.a)
        /\ uf'[p.a].list_next = p.c /\ \A n \in Slot \ {p.a} : uf'[n].list_next = uf[n].list_next
    BY <1>4, <2>1, WriteNexts
  <2>3. Skips(s, c, p.a, p.b) /\ Skips(s, c, p.b, p.c)
    <3>1. pc[w] \in PickBLabels /\ pc[w] \in PickCLabels
      BY <1>4 DEF PickWrite, PickBLabels, PickCLabels
    <3>. QED
      BY <2>1, <3>1 DEF Lists, Reads
  <2>4. PICK a, x : a = p.a /\ x = p.c
    OBVIOUS
  <2>5. Skips(s, c, a, x)'
    <3>1. Skips(s, c, a, x)
      BY <2>3, <2>4, SkipsOn
    <3>. QED
      BY <1>2, <3>1, SkipsKept
  <2>6. NextOrSelf(a)' = x /\ a \in Slot
    BY <2>2, <2>4 DEF NextOrSelf
  <2>7. Right(a)
    BY <1>2, <2>2, <2>4, <2>5, <2>6
  <2>8. \A n \in Slot : Right(n)
    BY <1>3, <2>2, <2>4, <2>7
  <2>. QED
    BY <2>8 DEF Nexts
<1>5. CASE ~PickWrite(w)
  <2>1. \A n \in Slot : uf'[n].list_next = uf[n].list_next
    BY <1>1, <1>5, UFStepNexts
  <2>2. \A n \in Slot : Right(n)
    BY <1>3, <2>1
  <2>. QED
    BY <2>2 DEF Nexts
<1>. QED
  BY <1>4, <1>5

\* Whoever is marked dead is a root whose list is all explored.
LEMMA DeadsKept ==
  ASSUME NEW callers, SetsInv(callers), HomeInv, NEW s, NEW c, Lists(s, c), NEW w \in Worker, UFStep(w)
  PROVE  \A n \in Slot : uf'[n].uf_status = DEAD => uf'[n].parent = 0 /\ AllExplored(c, n)
<1>1. Typed(callers) /\ uf \in [Slot -> Entry] /\ Deads(c) /\ Reads(w, s, c) /\ Names(c) /\ loc[w].unite.q \in Slot
      /\ ret[w].node \in Slot /\ loc[w].pick.a \in Slot /\ LOCK # DEAD /\ LIVE # DEAD
  BY LocalsTyped DEF Lists, SetsInv, Typed, UfTyped, ControlTyped, LIVE, LOCK, DEAD
<1>2. ASSUME NEW n \in Slot, uf'[n].uf_status = DEAD
      PROVE  uf[n].parent = 0 /\ AllExplored(c, n)
  <2>1. CASE uf[n].uf_status = DEAD
    BY <1>1, <2>1 DEF Deads
  <2>2. CASE MarkDead(w)
    <3> DEFINE f == ret[w].node
    <3>1. pc[w] = "mark_dead" /\ Picking(w)
      BY <2>2 DEF MarkDead, Picking, PickLabels
    <3>2. AllExplored(c, loc[w].pick.a) /\ Root[f] = Root[loc[w].pick.a] /\ uf[f].parent = 0
      BY <1>1, <3>1 DEF Reads
    <3>3. c[f] = c[loc[w].pick.a]
      BY <1>1, <3>2 DEF Names
    <3>4. AllExplored(c, f)
      BY <3>2, <3>3 DEF AllExplored
    <3>5. n = f \/ uf[n].uf_status = DEAD
      BY <1>1, <1>2, <2>2 DEF MarkDead, Entry
    <3>. QED
      BY <2>1, <3>2, <3>4, <3>5
  <2>3. CASE LockUf(w) \/ LockUfUndo(w) \/ UnlockUf(w)
    <3>1. uf[n].uf_status = DEAD
      BY <1>1, <1>2, <2>3 DEF LockUf, LockUfUndo, UnlockUf, Entry
    <3>. QED
      BY <2>1, <3>1
  <2>. QED
    BY <1>1, <1>2, <2>1, <2>2, <2>3, UFStepEntries
<1>3. ASSUME NEW n \in Slot, uf'[n].uf_status = DEAD
      PROVE  uf'[n].parent = 0
  <2>1. CASE ~SetParent(w)
    BY <1>2, <1>3, <2>1, RootsKept
  <2>2. CASE SetParent(w)
    <3>1. Pending(w)
      BY <2>2 DEF SetParent, Pending
    <3>2. PICK q \in Slot : q = loc[w].unite.q
      BY <1>1
    <3>3. ~Explored(loc[w].unite.al) /\ c[loc[w].unite.al] = c[q] /\ loc[w].unite.al \in Slot
      BY <3>1, <3>2, PendingCycle
    <3>4. n # q
      <4>1. AllExplored(c, n)
        BY <1>2, <1>3
      <4>. QED
        BY <3>3, <4>1 DEF AllExplored
    <3>5. uf'[n].parent = uf[n].parent
      BY <2>2, <3>2, <3>4, LinkKept, UFStepSets DEF SetsInv, Knows
    <3>. QED
      BY <1>2, <1>3, <3>5
  <2>. QED
    BY <2>1, <2>2
<1>. QED
  BY <1>2, <1>3

\* A representative all of whose set is explored stays one.
LEMMA ExploredRoot ==
  ASSUME NEW callers, SetsInv(callers), HomeInv, NEW s, NEW c, Lists(s, c), NEW w \in Worker, UFStep(w),
         NEW f \in Slot, uf[f].parent = 0, AllExplored(c, f)
  PROVE  uf'[f].parent = 0
<1>1. CASE ~SetParent(w)
  BY <1>1, RootsKept
<1>2. CASE SetParent(w)
  <2>1. Pending(w)
    BY <1>2 DEF SetParent, Pending
  <2>2. PICK q : q = loc[w].unite.q
    OBVIOUS
  <2>3. ~Explored(loc[w].unite.al) /\ c[loc[w].unite.al] = c[q] /\ loc[w].unite.al \in Slot
    BY <2>1, <2>2, PendingCycle
  <2>4. f # q
    BY <2>3 DEF AllExplored
  <2>. QED
    BY <1>2, <2>2, <2>4, LinkKept, UFStepSets DEF SetsInv, Knows
<1>. QED
  BY <1>1, <1>2

\* The representative that find computes for mark_dead.
LEMMA MarkedRoot ==
  ASSUME NEW callers, SetsInv(callers), NEW s, NEW c, Lists(s, c), NEW w \in Worker,
         Picking(w), pc[w] \in {"compress", "mark_dead"}
  PROVE  /\ ret[w].node \in Slot /\ uf[ret[w].node].parent = 0 /\ AllExplored(c, ret[w].node)
         /\ Root[ret[w].node] = Root[loc[w].pick.a]
<1>1. Reads(w, s, c) /\ Names(c) /\ ret[w].node \in Slot /\ loc[w].pick.a \in Slot
  BY LocalsTyped DEF Lists, SetsInv, Typed, ControlTyped
<1>2. Root[ret[w].node] = Root[loc[w].pick.a]
  <2>1. CASE pc[w] = "compress"
    <3>1. pc[w] \in FindLabels
      BY <2>1 DEF FindLabels
    <3>. QED
      BY <1>1, <2>1, <3>1 DEF Reads, SetsInv, Knows, PathOne
  <2>. QED
    BY <1>1, <2>1 DEF Reads
<1>3. AllExplored(c, loc[w].pick.a) /\ uf[ret[w].node].parent = 0
  BY <1>1 DEF Reads, FindLabels
<1>4. c[ret[w].node] = c[loc[w].pick.a]
  BY <1>1, <1>2 DEF Names
<1>. QED
  BY <1>1, <1>2, <1>3, <1>4 DEF AllExplored

\* What a reader of a list has seen stays true when another worker steps.
LEMMA OthersRead ==
  ASSUME NEW callers, SetsInv(callers), HomeInv, NEW s, NEW c, Lists(s, c), NEW w \in Worker, UFStep(w),
         NEW x \in Worker \ {w}
  PROVE  Reads(x, s, c)'
<1> DEFINE u == loc[x].unite
           p == loc[x].pick
<1>1. /\ pc'[x] = pc[x] /\ stack'[x] = stack[x] /\ ret'[x] = ret[x] /\ path'[x] = path[x] /\ loc'[x] = loc[x]
      /\ Coarser /\ Reads(x, s, c) /\ Typed(callers)
  BY UFStepAlone, UFStepSets DEF Lists, Alone, OthersKept, SetsInv, Knows
<1>2. p.a \in Slot /\ ret[x].node \in Slot
  BY <1>1, LocalsTyped DEF Typed, ControlTyped
<1>3. (Picking(x)' <=> Picking(x)) /\ (Pending(x)' <=> Pending(x))
  BY <1>1 DEF Picking, Pending, Awaits
<1>4. \A n \in Slot : Explored(n) => Explored(n)'
  BY ExploredKept
<1>5. \A n, y : Skips(s, c, n, y) => Skips(s, c, n, y)'
  BY <1>4, SkipsKept
<1>6. \A n : AllExplored(c, n) => AllExplored(c, n)'
  BY <1>4, SkipsKept
<1>7. PICK a, b, d : a = p.a /\ b = p.b /\ d = p.c
  OBVIOUS
<1>8. pc[x] \in PickBLabels => Skips(s, c, p.a, p.b)'
  BY <1>1, <1>5, <1>7 DEF Reads
<1>9. pc[x] \in PickCLabels => Skips(s, c, p.b, p.c)'
  BY <1>1, <1>5, <1>7 DEF Reads
<1>10. Picking(x) /\ pc[x] \in FindLabels \cup {"mark_dead"} => AllExplored(c, p.a)'
  BY <1>1, <1>6, <1>7 DEF Reads
<1>11. Picking(x) /\ pc[x] \in FindLabels => path[x][1] \in Slot
  <2>1. pc[x] \in FindLabels => path[x] # <<>> /\ path[x] \in Seq(Slot)
    BY <1>1 DEF Typed, ControlTyped, FindLabels
  <2>. QED
    BY <2>1, EmptySeq
<1>12. Picking(x) /\ pc[x] \in {"compress", "mark_dead"} => uf'[ret[x].node].parent = 0
  BY MarkedRoot, ExploredRoot
<1>. QED
  BY <1>1, <1>2, <1>3, <1>8, <1>9, <1>10, <1>11, <1>12 DEF Reads, Coarser

\* An explored entry that is not alone on its list has a next one.
LEMMA NextThere ==
  ASSUME NEW callers, SetsInv(callers), HomeInv, NEW s, NEW c, Lists(s, c), NEW w \in Worker, pc[w] = "pick_c"
  PROVE  uf[loc[w].pick.b].list_next # 0
<1> DEFINE p == loc[w].pick
<1>1. p.a \in Slot /\ p.b \in Slot
  BY LocalsTyped DEF SetsInv, Typed
<1>2. p.b # p.a /\ Skips(s, c, p.a, p.b)
  BY DEF PickBLabels, Lists, Reads, HomeInv, PickHome
<1>3. c[p.a] = c[p.b]
  BY <1>2 DEF Skips
<1>4. s[p.b] # p.b
  BY <1>1, <1>2, <1>3, AloneOnCycle DEF Lists
<1>. QED
  BY <1>1, <1>4 DEF Lists, Nexts

\* Nothing is claimed of a worker that reads no list.
LEMMA ReadsOff ==
  ASSUME NEW w \in Worker, ~OnList(w)', NEW s, NEW c
  PROVE  Reads(w, s, c)'
<1>1. PickBLabels \subseteq PickLabels /\ PickCLabels \subseteq PickLabels
  BY DEF PickBLabels, PickCLabels, PickLabels
<1>2. pc'[w] \notin PickLabels \cup {"set_parent"} /\ ~Picking(w)' /\ "mark_dead" \in PickLabels
  BY DEF OnList, Picking, PickLabels
<1>. QED
  BY <1>1, <1>2 DEF Reads, Pending

\* What a reader of a list has seen after its own step.
LEMMA OwnReads ==
  ASSUME NEW callers, SetsInv(callers), HomeInv, NEW s, NEW c, Lists(s, c), NEW w \in Worker,
         \/ PickA(w) \/ PickNext(w) \/ PickB(w) \/ PickC(w) \/ PickCompare(w) \/ PickWrite(w) \/ MarkDead(w)
  PROVE  Reads(w, s, c)'
<1> DEFINE p == loc[w].pick
           v == loc'[w].pick
           Done == Reads(w, s, c)'
<1> SUFFICES Done
  OBVIOUS
<1>1. pc[w] \in PickLabels /\ UFStep(w) /\ Outside(callers)
  BY DEF PickA, PickNext, PickB, PickC, PickCompare, PickWrite, MarkDead, PickLabels, UFStep, SetsInv
<1>2. Typed(callers) /\ uf \in [Slot -> Entry] /\ loc \in [Worker -> Locals] /\ p \in Picks
      /\ p.a \in Slot /\ p.b \in Slot /\ p.c \in Slot /\ 0 \in Slot
  BY LocalsTyped, SlotZero DEF SetsInv, Typed, UfTyped, LocTyped
<1>3. Reads(w, s, c) /\ Nexts(s, c) /\ Cycles(s, c) /\ PickHome(w) /\ Picking(w)
  BY <1>1 DEF Lists, HomeInv, Picking
<1>4. \A n, y : Skips(s, c, n, y) => Skips(s, c, n, y)'
  <2>1. \A n \in Slot : Explored(n) => Explored(n)'
    BY <1>1, ExploredKept
  <2>. QED
    BY <2>1, SkipsKept
<1>5. \A n : AllExplored(c, n) => AllExplored(c, n)'
  <2>1. \A n \in Slot : Explored(n) => Explored(n)'
    BY <1>1, ExploredKept
  <2>. QED
    BY <2>1, SkipsKept
<1>6. \A code, node : Return(w, code, node) => Done
  <2> TAKE code, node
  <2>1. Return(w, code, node) => (\A l : ~Awaits(w, l)') /\ pc'[w] \in callers \cup ListLabels
    BY <1>1, PickMoves
  <2>2. (callers \cup ListLabels) \cap (PickLabels \cup PickBLabels \cup PickCLabels \cup {"set_parent", "mark_dead"}) = {}
    BY <1>1 DEF Outside, Labels, ListLabels, PickLabels, PickBLabels, PickCLabels
  <2>. QED
    BY <2>1, <2>2 DEF Reads, Picking, Pending
<1>7. \A label \in {"pick_a", "pick_next"} : Goto(w, label) => Done
  <2> TAKE label \in {"pick_a", "pick_next"}
  <2>1. Goto(w, label) => pc'[w] = label
    BY <1>1, PickMoves
  <2>2. label \notin PickBLabels \cup PickCLabels \cup FindLabels \cup {"mark_dead", "set_parent", "compress"}
    BY DEF PickBLabels, PickCLabels, FindLabels
  <2>. QED
    BY <2>1, <2>2 DEF Reads, Pending
<1>8. ASSUME NEW label \in {"pick_b", "pick_c", "pick_compare", "pick_write"}, Goto(w, label),
             NEW a, NEW b, NEW d, a = v.a, b = v.b, d = v.c, Skips(s, c, a, b),
             label \in PickCLabels => Skips(s, c, b, d)
      PROVE  Done
  <2>1. pc'[w] = label
    BY <1>1, <1>8, PickMoves
  <2>2. label \notin FindLabels \cup {"mark_dead", "set_parent", "compress"}
    BY DEF FindLabels
  <2>3. Skips(s, c, a, b)' /\ (label \in PickCLabels => Skips(s, c, b, d)')
    BY <1>4, <1>8
  <2>. QED
    BY <1>8, <2>1, <2>2, <2>3 DEF Reads, Pending
<1> HIDE DEF Done
<1>9. CASE PickA(w)
  BY <1>6, <1>7, <1>9 DEF PickA, PickReturn
<1>10. CASE PickNext(w)
  <2> DEFINE b == uf[p.a].list_next
  <2>0. Explored(p.a) /\ b \in Slot /\ Skips(s, c, p.a, NextOrSelf(p.a))
    <3>1. Explored(p.a) /\ b \in Slot
      BY <1>2, <1>3, <1>10 DEF PickHome, PickNext, Entry
    <3>. QED
      BY <1>2, <1>3, <3>1 DEF Nexts
  <2>1. CASE b \notin {p.a, 0} /\ loc' = [loc EXCEPT ![w].pick.b = b] /\ Goto(w, "pick_b")
    <3>1. v = [p EXCEPT !.b = b]
      BY <1>2, <2>1 DEF Locals
    <3>2. v.a = p.a /\ v.b = b /\ v.c = p.c
      BY <1>2, <3>1 DEF Picks
    <3>3. NextOrSelf(p.a) = b
      BY <2>1 DEF NextOrSelf
    <3>4. "pick_b" \notin PickCLabels
      BY DEF PickCLabels
    <3>. QED
      BY <1>8, <2>0, <2>1, <3>2, <3>3, <3>4
  <2>2. CASE b \in {p.a, 0} /\ CallFind(w, p.a, <<"mark_dead">>) /\ UNCHANGED loc
    <3>1. pc'[w] = "find" /\ path'[w][1] = p.a
      BY <1>1, <2>2, PickMoves
    <3>2. NextOrSelf(p.a) = p.a
      BY <2>2 DEF NextOrSelf
    <3>3. AllExplored(c, p.a)
      BY <1>2, <1>3, <2>0, <3>2, SkipsRound
    <3>4. AllExplored(c, p.a)'
      <4>1. PICK a : a = p.a
        OBVIOUS
      <4>2. AllExplored(c, a)'
        BY <1>5, <3>3, <4>1
      <4>. QED
        BY <2>2, <4>1, <4>2
    <3>5. "find" \notin PickBLabels \cup PickCLabels
      BY DEF PickBLabels, PickCLabels
    <3>. QED
      BY <2>2, <3>1, <3>4, <3>5 DEF Done, Reads, Pending
  <2>. QED
    BY <1>10, <2>1, <2>2 DEF PickNext
<1>11. CASE PickB(w)
  <2>1. Skips(s, c, p.a, p.b)
    BY <1>3, <1>11 DEF Reads, PickB, PickBLabels
  <2>2. "pick_c" \notin PickCLabels
    BY DEF PickCLabels
  <2>3. UNCHANGED loc /\ Goto(w, "pick_c") => Done
    BY <1>8, <2>1, <2>2
  <2>. QED
    BY <1>6, <1>11, <2>3 DEF PickB, PickReturn
<1>12. CASE PickC(w)
  <2> DEFINE d == uf[p.b].list_next
  <2>0. d # 0 /\ d \in Slot /\ Explored(p.b) /\ Skips(s, c, p.a, p.b)
    <3>1. pc[w] \in PickBLabels \ {"pick_b"}
      BY <1>12 DEF PickC, PickBLabels
    <3>. QED
      BY <1>2, <1>3, <1>12, <3>1, NextThere DEF PickHome, PickC, Entry, Reads
  <2>1. v = [p EXCEPT !.c = d]
    BY <1>2, <1>12 DEF Locals, PickC
  <2>2. v.a = p.a /\ v.b = p.b /\ v.c = d
    BY <1>2, <2>1 DEF Picks
  <2>3. NextOrSelf(p.b) = d
    BY <2>0 DEF NextOrSelf
  <2>4. Skips(s, c, p.b, d)
    BY <1>2, <1>3, <2>0, <2>3 DEF Nexts
  <2>5. Goto(w, "pick_compare")
    BY <1>12 DEF PickC
  <2>. QED
    BY <1>8, <2>0, <2>2, <2>4, <2>5
<1>13. CASE PickCompare(w)
  <2>1. Skips(s, c, p.a, p.b) /\ Skips(s, c, p.b, p.c)
    BY <1>3, <1>13 DEF Reads, PickCompare, PickBLabels, PickCLabels
  <2>2. UNCHANGED loc /\ Goto(w, "pick_write") => Done
    BY <1>8, <2>1
  <2>3. ContinueFromC(w) => Done
    BY <1>7 DEF ContinueFromC
  <2>. QED
    BY <1>13, <2>2, <2>3 DEF PickCompare
<1>14. CASE PickWrite(w)
  BY <1>7, <1>14 DEF PickWrite, ContinueFromC
<1>15. CASE MarkDead(w)
  BY <1>6, <1>15 DEF MarkDead, PickReturn
<1>. QED
  BY <1>9, <1>10, <1>11, <1>12, <1>13, <1>14, <1>15

\* find, called by mark_dead, comes back with the representative.
LEMMA FindReads ==
  ASSUME NEW callers, SetsInv(callers), HomeInv, NEW s, NEW c, Lists(s, c), NEW w \in Worker,
         FindRead(w) \/ FindCompress(w), Picking(w)
  PROVE  Reads(w, s, c)'
<1>1. Typed(callers) /\ Outside(callers) /\ InCall(w, callers) /\ Typed(callers)' /\ Upward' /\ UFStep(w)
      /\ UfTyped /\ ParentIncreasing
  BY UFStepSets DEF SetsInv, Knows, UFStep, Typed, Upward
<1>2. pc[w] \in FindLabels /\ pc[w] \notin PickLabels
  BY DEF FindRead, FindCompress, FindLabels, PickLabels
<1>3. PICK a \in Slot : a = loc[w].pick.a
  BY <1>1, LocalsTyped DEF Typed
<1>4. PICK i \in Slot : i = path[w][1]
  BY <1>1, FindOutcome
<1>5. Root' = Root /\ loc' = loc /\ \A n \in Slot : uf'[n].parent = 0 <=> uf[n].parent = 0
  BY <1>1, FindOutcome, RootsKept DEF FindRead, FindCompress, SetParent
<1>6. AllExplored(c, a) /\ Root[i] = Root[a]
  BY <1>2, <1>3, <1>4 DEF Lists, Reads
<1>7. AllExplored(c, a)'
  <2>1. \A n \in Slot : Explored(n) => Explored(n)'
    BY <1>1, ExploredKept
  <2>. QED
    BY <1>6, <2>1, SkipsKept
<1>8. pc[w] = "compress" => ret[w].node \in Slot /\ uf[ret[w].node].parent = 0
  BY MarkedRoot
<1>9. Root[i] \in Slot /\ uf[Root[i]].parent = 0 /\ Root[Root[i]] = Root[i]
  <2>1. Root[i] \in Slot /\ uf[Root[i]].parent = 0
    BY <1>1, RootFacts
  <2>. QED
    BY <1>1, <2>1, RootFacts
<1>10. CASE pc'[w] \in FindLabels /\ path'[w][1] = i /\ (pc[w] = "find" /\ pc'[w] = "compress" => ret'[w].node = Root[i])
            /\ (pc[w] = "compress" => pc'[w] = "compress" /\ ret'[w] = ret[w])
  <2>1. pc'[w] = "compress" => uf'[ret'[w].node].parent = 0
    BY <1>2, <1>5, <1>8, <1>9, <1>10 DEF FindLabels
  <2>2. pc'[w] \notin PickBLabels \cup PickCLabels \cup {"mark_dead", "set_parent"}
    BY <1>10 DEF FindLabels, PickBLabels, PickCLabels
  <2>. QED
    BY <1>3, <1>5, <1>6, <1>7, <1>10, <2>1, <2>2 DEF Reads, Pending
<1>11. ASSUME NEW node \in Slot, Return(w, "find", node), Root[node] = Root[i],
              pc[w] = "find" => node = Root[i], pc[w] = "compress" => node = ret[w].node
       PROVE  Reads(w, s, c)'
  <2>1. pc'[w] = "mark_dead"
    <3>1. pc'[w] = "mark_dead" \/ pc'[w] \in FindLabels
      BY OwnMarks
    <3>2. pc'[w] \notin FindLabels
      <4>1. stack[w] \in Seq(Back(callers)) /\ stack[w] # <<>>
        BY <1>1, <1>11 DEF Typed, ControlTyped, Return
      <4>2. stack[w][Len(stack[w])] \in Back(callers)
        BY <4>1, EmptySeq
      <4>. QED
        BY <1>1, <1>11, <4>2 DEF Return, Back, FindLabels, Typed, ControlTyped
    <3>. QED
      BY <3>1, <3>2
  <2>2. ret'[w].node = node
    BY <1>1, <1>11 DEF Return, Typed, ControlTyped
  <2>3. uf'[node].parent = 0
    BY <1>2, <1>5, <1>8, <1>9, <1>11 DEF FindLabels
  <2>4. "mark_dead" \notin PickBLabels \cup PickCLabels \cup FindLabels
    BY DEF FindLabels, PickBLabels, PickCLabels
  <2>. QED
    BY <1>3, <1>5, <1>6, <1>7, <1>11, <2>1, <2>2, <2>3, <2>4 DEF Reads, Pending
<1>. QED
  BY <1>1, <1>4, <1>10, <1>11, FindOutcome

\* Where unite and remove_from_list enter and leave the lists nothing has been read.
LEMMA EnterReads ==
  ASSUME NEW callers, SetsInv(callers), NEW s, NEW c, NEW w \in Worker,
         Remove(w) \/ LockUfCheck(w) \/ LockListA(w) \/ LockListB(w)
  PROVE  Reads(w, s, c)'
<1> DEFINE Done == Reads(w, s, c)'
<1> SUFFICES Done
  OBVIOUS
<1>1. Typed(callers) /\ Outside(callers) /\ InCall(w, callers) /\ pc[w] \in Labels \ (FindLabels \cup PickLabels)
  BY DEF Remove, LockUfCheck, LockListA, LockListB, Labels, FindLabels, PickLabels, SetsInv, Knows
<1>2. \A label \in {"remove_color", "lock_uf_undo", "swap", "pick_a"} :
        pc'[w] = label => Done
  <2> TAKE label \in {"remove_color", "lock_uf_undo", "swap", "pick_a"}
  <2>1. label \notin PickBLabels \cup PickCLabels \cup FindLabels \cup {"mark_dead", "set_parent", "compress"}
    BY DEF PickBLabels, PickCLabels, FindLabels
  <2>. QED
    BY <2>1 DEF Reads, Pending
<1>3. \A code, node : Return(w, code, node) => Done
  BY <1>1, AloneOff, ReadsOff
<1> HIDE DEF Done
<1>4. \A label : Goto(w, label) \/ Resume(w, label) => pc'[w] = label
  BY <1>1 DEF Goto, Resume, Typed, ControlTyped
<1>5. \A l : Call(w, "pick_a", <<l>>) => Done
  BY <1>1, <1>2 DEF Call, Typed, ControlTyped
<1>. QED
  BY <1>2, <1>3, <1>4, <1>5 DEF Remove, LockUfCheck, LockListA, LockListB, PickReturn, CallPick, UniteReturn

\* Splicing makes one cycle of the two.
LEMMA SwapMerges ==
  ASSUME NEW callers, SetsInv(callers), HomeInv, NEW s, NEW c, Lists(s, c), NEW w \in Worker, SwapLists(w)
  PROVE  \E d, e : Lists(d, e)'
<1> DEFINE u == loc[w].unite
<1>1. PICK a, b : a = u.al /\ b = u.bl
  OBVIOUS
<1>2. PICK q, r : q = u.q /\ r = u.r
  OBVIOUS
<1>3. /\ Typed(callers) /\ pc[w] = "swap" /\ UFStep(w) /\ UfTyped /\ ParentIncreasing /\ uf \in [Slot -> Entry]
      /\ Cycles(s, c) /\ Names(c) /\ Nexts(s, c) /\ Deads(c) /\ HomeInv'
      /\ s \in [Slot -> Slot] /\ c \in [Slot -> Slot]
  BY NextThere, UFStepHomes DEF SetsInv, Lists, Cycles, SwapLists, UFStep, Typed, UfTyped, Upward
<1>4. /\ a \in Slot /\ b \in Slot /\ a # b /\ uf[a].list_status = LOCK /\ uf[b].list_status = LOCK
      /\ uf'[a].list_next # 0 /\ uf'[b].list_next # 0
      /\ \A n \in Slot \ {a, b} : uf'[n].list_next = uf[n].list_next
      /\ uf'[a].list_next = NextOrSelf(b) /\ uf'[b].list_next = NextOrSelf(a) /\ a # 0 /\ b # 0
  <2>1. \A n \in Node : n \in Slot /\ n # 0
    BY DEF Node, Slot
  <2>. QED
    BY <1>1, <2>1, SwapNexts
<1>5. ~Explored(a) /\ ~Explored(b)
  BY <1>4 DEF Explored, LOCK, TOMB
<1>6. \A n \in Slot : Explored(n)' <=> Explored(n)
  <2>1. ~Remove(w)
    BY <1>3 DEF Remove
  <2>. QED
    BY <1>3, <2>1, ExploredKept, ExploredFrom
<1>7. /\ q \in Slot /\ r \in Slot /\ q < r /\ uf[q].parent = 0 /\ Root[q] = q
      /\ (Root[q] = Root[u.a] /\ Root[r] = Root[u.b]) \/ (Root[q] = Root[u.b] /\ Root[r] = Root[u.a])
      /\ Root[a] = Root[u.a] /\ Root[b] = Root[u.b] /\ u.a \in Slot /\ u.b \in Slot
      /\ Holding(w)
  <2>1. q \in Slot /\ r \in Slot /\ u.a \in Slot /\ u.b \in Slot
    BY <1>2, <1>3, LocalsTyped DEF Typed
  <2>2. /\ q < r
        /\ (Root[q] = Root[u.a] /\ Root[r] = Root[u.b]) \/ (Root[q] = Root[u.b] /\ Root[r] = Root[u.a])
    BY <1>2, <1>3 DEF SetsInv, Knows, UniteSets, Region, RegionLabels
  <2>3. uf[q].parent = 0
    BY <1>2, <1>3 DEF SetsInv, Knows, QRoot, Linking, LinkLabels
  <2>4. Root[q] = q
    BY <1>3, <2>1, <2>3, RootFacts
  <2>5. Root[a] = Root[u.a] /\ Root[b] = Root[u.b]
    BY <1>1, <1>4 DEF HomeInv, UniteHome
  <2>6. Holding(w)
    BY <1>2, <1>3, <2>2 DEF Holding
  <2>. QED
    BY <2>1, <2>2, <2>3, <2>4, <2>5, <2>6
<1>8. \A x \in Worker \ {w} : Pending(x) => loc[x].unite.q # q
  <2>1. ASSUME NEW x \in Worker \ {w}, Pending(x)
        PROVE  Holding(x)
    BY <2>1 DEF Pending, Holding, SetsInv, Knows, UniteSets, Region, RegionLabels
  <2>. QED
    BY <1>2, <1>7, <2>1 DEF SetsInv, OneHolder
<1>9. c[q] = q /\ c[r] # q
  <2>1. c[q] = q
    <3>1. ~Pending(w)
      BY <1>3 DEF Pending
    <3>. QED
      BY <1>3, <1>7, <1>8, <3>1 DEF Names
  <2>2. r <= c[r] /\ c[r] \in Slot
    BY <1>3, <1>7 DEF Names
  <2>3. \A m, n, k \in Slot : m < n /\ n <= k => k # m
    BY SlotZero
  <2>. QED
    BY <1>7, <2>1, <2>2, <2>3
<1> DEFINE x == c[r]
<1>10. (c[a] = q /\ c[b] = x) \/ (c[a] = x /\ c[b] = q)
  <2>1. \A n \in Slot : c[Root[n]] = c[n]
    BY <1>3 DEF Names
  <2>2. c[a] = c[u.a] /\ c[b] = c[u.b]
    BY <1>4, <1>7, <2>1
  <2>3. (c[u.a] = c[q] /\ c[u.b] = c[r]) \/ (c[u.a] = c[r] /\ c[u.b] = c[q])
    BY <1>7, <2>1
  <2>. QED
    BY <1>9, <2>2, <2>3
<1>11. x \in Slot /\ x # q /\ c[a] # c[b] /\ {c[a], c[b]} = {q, x} /\ r <= x
  BY <1>3, <1>7, <1>9, <1>10 DEF Names
<1> HIDE DEF x
<1>12. PICK d : d = Spliced(s, a, b)
  OBVIOUS
<1>13. PICK e : e = Renamed(c, q, x)
  OBVIOUS
<1>14. Cycles(d, e)
  BY <1>3, <1>4, <1>10, <1>11, <1>12, <1>13, CyclesSpliced
<1>15. \A n \in Slot : e[n] = IF c[n] = q THEN x ELSE c[n]
  BY <1>13 DEF Renamed
<1>16. d[a] = s[b] /\ d[b] = s[a] /\ \A n \in Slot \ {a, b} : d[n] = s[n]
  BY <1>3, <1>4, <1>12 DEF Spliced
<1>17. \A n \in Slot, y \in Slot : Skips(s, c, n, y) => Skips(d, e, n, y)'
  BY <1>3, <1>4, <1>5, <1>6, <1>12, <1>13, SkipsSpliced
<1>18. \A n \in Slot : AllExplored(c, n) => AllExplored(e, n)'
  BY <1>4, <1>5, <1>6, <1>11, <1>13, AllSpliced
<1>19. Root' = Root /\ (\A n \in Slot : uf'[n].parent = 0 <=> uf[n].parent = 0)
  <2>1. ~SetParent(w)
    BY <1>3 DEF SetParent
  <2>. QED
    BY <1>3, <2>1, RootsKept
<1>20. pc'[w] = "set_parent" /\ loc' = loc /\ ret' = ret /\ path' = path
  BY <1>3 DEF SwapLists, Goto, Typed, ControlTyped
<1>21. Names(e)'
  <2>1. ASSUME NEW n \in Slot
        PROVE  /\ n <= e[n] /\ e[Root[n]] = e[n]
               /\ uf[n].parent = 0 => e[n] = n \/ \E y \in Worker : Pending(y)' /\ n = loc[y].unite.q
    <3>1. n <= c[n] /\ c[Root[n]] = c[n] /\ Root[n] \in Slot /\ c[n] \in Slot
      BY <1>3, RootFacts DEF Names
    <3>2. n <= e[n]
      <4>1. \A k, l, m, o \in Slot : k <= l /\ l < m /\ m <= o => k <= o
        BY SlotZero
      <4>. QED
        BY <1>7, <1>11, <1>15, <3>1, <4>1
    <3>3. e[Root[n]] = e[n]
      BY <1>15, <3>1
    <3>4. ASSUME uf[n].parent = 0
          PROVE  e[n] = n \/ \E y \in Worker : Pending(y)' /\ n = loc[y].unite.q
      <4>1. CASE n = q
        BY <1>2, <1>20, <4>1 DEF Pending
      <4>2. CASE \E y \in Worker : Pending(y) /\ n = loc[y].unite.q
        <5>1. PICK y \in Worker : Pending(y) /\ n = loc[y].unite.q
          BY <4>2
        <5>2. ~SetParent(w)
          BY <1>3 DEF SetParent
        <5>3. Pending(y)'
          BY <1>3, <5>1, <5>2, PendingStays
        <5>. QED
          BY <5>1, <5>3
      <4>3. CASE c[n] = n /\ n # q
        BY <1>15, <4>3
      <4>. QED
        BY <1>3, <3>4, <4>1, <4>2, <4>3 DEF Names
    <3>. QED
      BY <3>2, <3>3, <3>4
  <2>. QED
    BY <1>19, <1>20, <2>1 DEF Names
<1>22. Nexts(d, e)'
  <2>1. ASSUME NEW n \in Slot
        PROVE  /\ IF Explored(n) THEN Skips(d, e, n, NextOrSelf(n))' ELSE d[n] = NextOrSelf(n)'
               /\ uf'[n].list_next = 0 => d[n] = n
    <3>1. CASE n \in {a, b}
      <4>1. NextOrSelf(a)' = NextOrSelf(b) /\ NextOrSelf(b)' = NextOrSelf(a)
        <5>1. NextOrSelf(a)' = uf'[a].list_next /\ NextOrSelf(b)' = uf'[b].list_next
          BY <1>4 DEF NextOrSelf
        <5>. QED
          BY <1>4, <5>1
      <4>2. s[a] = NextOrSelf(a) /\ s[b] = NextOrSelf(b)
        BY <1>3, <1>4, <1>5 DEF Nexts
      <4>3. CASE n = a
        BY <1>4, <1>5, <1>16, <4>1, <4>2, <4>3
      <4>4. CASE n = b
        BY <1>4, <1>5, <1>16, <4>1, <4>2, <4>4
      <4>. QED
        BY <3>1, <4>3, <4>4
    <3>2. CASE n \notin {a, b}
      <4>1. NextOrSelf(n)' = NextOrSelf(n) /\ NextOrSelf(n) \in Slot
        BY <1>3, <1>4, <3>2 DEF NextOrSelf, Entry
      <4>2. d[n] = s[n]
        BY <1>16, <3>2
      <4>3. PICK y \in Slot : y = NextOrSelf(n)
        BY <4>1
      <4>4. IF Explored(n) THEN Skips(s, c, n, y) ELSE s[n] = y
        BY <1>3, <4>3 DEF Nexts
      <4>5. Explored(n) => Skips(d, e, n, y)'
        BY <1>17, <4>4
      <4>6. uf[n].list_next = 0 => s[n] = n
        BY <1>3 DEF Nexts
      <4>. QED
        BY <1>4, <3>2, <4>1, <4>2, <4>3, <4>4, <4>5, <4>6
    <3>. QED
      BY <3>1, <3>2
  <2>. QED
    BY <1>6, <2>1 DEF Nexts
<1>23. Deads(e)'
  <2>1. \A n \in Slot : uf'[n].uf_status = DEAD => uf'[n].parent = 0 /\ AllExplored(c, n)
    BY <1>3, DeadsKept
  <2>. QED
    BY <1>18, <2>1 DEF Deads
<1>24. Reads(w, d, e)'
  <2>1. "set_parent" \notin PickBLabels \cup PickCLabels \cup FindLabels \cup {"mark_dead", "compress"}
    BY DEF PickBLabels, PickCLabels, FindLabels
  <2>2. e[q] = e[r]
    BY <1>7, <1>9, <1>15 DEF x
  <2>. QED
    BY <1>2, <1>20, <2>1, <2>2 DEF Reads, Pending
<1>25. ASSUME NEW y \in Worker \ {w}
       PROVE  Reads(y, d, e)'
  <2> DEFINE p == loc[y].pick
             v == loc[y].unite
  <2>1. Reads(y, s, c) /\ Reads(y, s, c)' /\ pc'[y] = pc[y] /\ stack'[y] = stack[y]
    BY <1>3, OthersRead, UFStepAlone DEF Lists, Alone, OthersKept, SetsInv, Knows
  <2>2. p.a \in Slot /\ p.b \in Slot /\ p.c \in Slot /\ v.q \in Slot /\ v.r \in Slot
    BY <1>3, LocalsTyped DEF Typed
  <2>3. (Picking(y)' <=> Picking(y)) /\ (Pending(y)' <=> Pending(y))
    BY <2>1 DEF Picking, Pending, Awaits
  <2>4. PICK k, l, m \in Slot : k = p.a /\ l = p.b /\ m = p.c
    BY <2>2
  <2>5. pc[y] \in PickBLabels => Skips(d, e, k, l)'
    BY <1>17, <2>1, <2>4 DEF Reads
  <2>6. pc[y] \in PickCLabels => Skips(d, e, l, m)'
    BY <1>17, <2>1, <2>4 DEF Reads
  <2>7. Picking(y) /\ pc[y] \in FindLabels \cup {"mark_dead"} => AllExplored(e, k)'
    BY <1>18, <2>1, <2>4 DEF Reads
  <2>8. Pending(y) => e[v.q] = e[v.r]
    BY <1>15, <2>1, <2>2 DEF Reads
  <2>. QED
    BY <1>20, <2>1, <2>3, <2>4, <2>5, <2>6, <2>7, <2>8 DEF Reads
<1>26. Lists(d, e)'
  BY <1>14, <1>21, <1>22, <1>23, <1>24, <1>25 DEF Lists
<1>. QED
  BY <1>26
\* So the steps of this class keep the lists.
LEMMA UFStepRings ==
  ASSUME NEW callers, SetsInv(callers), HomeInv, ListInv, NEW w \in Worker, UFStep(w)
  PROVE  HomeInv' /\ ListInv'
<1>1. PICK s, c : Lists(s, c)
  BY DEF ListInv
<1>2. HomeInv'
  BY <1>1, NextThere, UFStepHomes
<1>3. ListInv'
  <2>1. CASE SwapLists(w)
    <3>1. \E d, e : Lists(d, e)'
      BY <1>1, <2>1, SwapMerges
    <3>. QED
      BY <3>1 DEF ListInv
  <2>2. CASE ~SwapLists(w)
    <3>1. Cycles(s, c)
      BY <1>1 DEF Lists
    <3>2. Names(c)' /\ Nexts(s, c)'
      BY <1>1, <2>2, NamesKept, NextsKept
    <3>3. Deads(c)'
      <4>1. \A n \in Slot : uf'[n].uf_status = DEAD => uf'[n].parent = 0 /\ AllExplored(c, n)
        BY <1>1, DeadsKept
      <4>2. \A n \in Slot : Explored(n) => Explored(n)'
        BY ExploredKept
      <4>3. \A n \in Slot : AllExplored(c, n) => AllExplored(c, n)'
        BY <4>2, SkipsKept
      <4>. QED
        BY <4>1, <4>3 DEF Deads
    <3>4. \A x \in Worker \ {w} : Reads(x, s, c)'
      BY <1>1, OthersRead
    <3>5. Reads(w, s, c)'
      <4>1. CASE \/ PickA(w) \/ PickNext(w) \/ PickB(w) \/ PickC(w) \/ PickCompare(w) \/ PickWrite(w) \/ MarkDead(w)
        BY <1>1, <4>1, OwnReads
      <4>2. CASE (FindRead(w) \/ FindCompress(w)) /\ Picking(w)
        BY <1>1, <4>2, FindReads
      <4>3. CASE Remove(w) \/ LockUfCheck(w) \/ LockListA(w) \/ LockListB(w)
        BY <4>3, EnterReads
      <4>. QED
        BY <2>2, <4>1, <4>2, <4>3, Elsewhere, ReadsOff DEF UFStep
    <3>6. Lists(s, c)'
      BY <3>1, <3>2, <3>3, <3>4, <3>5 DEF Lists
    <3>. QED
      BY <3>6 DEF ListInv
  <2>. QED
    BY <2>1, <2>2
<1>. QED
  BY <1>2, <1>3

\* A step that leaves the array, and what the workers read of the lists, alone.
LEMMA RingsSame ==
  ASSUME ListInv, uf' = uf, Root' = Root,
         \A x \in Worker : (Pending(x)' <=> Pending(x)) /\ (Pending(x) => loc'[x] = loc[x]),
         NEW S \in SUBSET Worker, \A x \in S : ~OnList(x)' \/ pc'[x] \in {"pick_a", "remove"},
         \A x \in Worker \ S : pc'[x] = pc[x] /\ stack'[x] = stack[x] /\ ret'[x] = ret[x]
                                 /\ path'[x] = path[x] /\ loc'[x] = loc[x]
  PROVE  ListInv'
<1>1. PICK s, c : Lists(s, c)
  BY DEF ListInv
<1>2. \A n : (Explored(n)' <=> Explored(n)) /\ NextOrSelf(n)' = NextOrSelf(n)
  BY DEF Explored, NextOrSelf
<1>3. \A n, y : (Skips(s, c, n, y)' <=> Skips(s, c, n, y)) /\ (AllExplored(c, n)' <=> AllExplored(c, n))
  BY <1>2 DEF Skips, AllExplored
<1>4. Names(c)'
  BY <1>1 DEF Lists, Names
<1>5. Nexts(s, c)'
  <2>1. \A n \in Slot : Skips(s, c, n, NextOrSelf(n))' <=> Skips(s, c, n, NextOrSelf(n))
    <3> TAKE n \in Slot
    <3>1. PICK y : y = NextOrSelf(n)
      OBVIOUS
    <3>2. Skips(s, c, n, y)' <=> Skips(s, c, n, y)
      BY <1>3
    <3>. QED
      BY <1>2, <3>1, <3>2
  <2>. QED
    BY <1>1, <1>2, <2>1 DEF Lists, Nexts
<1>6. Deads(c)'
  BY <1>1, <1>3 DEF Lists, Deads
<1>7. ASSUME NEW x \in Worker
      PROVE  Reads(x, s, c)'
  <2>1. CASE x \in S /\ ~OnList(x)'
    BY <2>1, ReadsOff
  <2>2. CASE x \in S /\ pc'[x] \in {"pick_a", "remove"}
    <3>1. {"pick_a", "remove"} \cap (PickBLabels \cup PickCLabels \cup FindLabels \cup {"mark_dead", "compress", "set_parent"}) = {}
      BY DEF PickBLabels, PickCLabels, FindLabels
    <3>. QED
      BY <2>2, <3>1 DEF Reads, Pending
  <2>3. CASE x \notin S
    <3>1. PICK p, v, f : p = loc[x].pick /\ v = path[x][1] /\ f = ret[x].node
      OBVIOUS
    <3>2. /\ pc'[x] = pc[x] /\ stack'[x] = stack[x] /\ ret'[x].node = f /\ path'[x][1] = v
          /\ loc'[x].pick = p /\ loc'[x] = loc[x] /\ Reads(x, s, c)
      BY <1>1, <2>3, <3>1 DEF Lists
    <3>3. (Picking(x)' <=> Picking(x)) /\ (Pending(x)' <=> Pending(x))
      BY <3>2 DEF Picking, Pending, Awaits
    <3>4. /\ Skips(s, c, p.a, p.b)' <=> Skips(s, c, p.a, p.b)
          /\ Skips(s, c, p.b, p.c)' <=> Skips(s, c, p.b, p.c)
          /\ AllExplored(c, p.a)' <=> AllExplored(c, p.a)
      BY <1>3
    <3>5. /\ pc[x] \in PickBLabels => Skips(s, c, p.a, p.b)'
          /\ pc[x] \in PickCLabels => Skips(s, c, p.b, p.c)'
          /\ Picking(x) /\ pc[x] \in FindLabels \cup {"mark_dead"} => AllExplored(c, p.a)'
      BY <3>1, <3>2, <3>4 DEF Reads
    <3>6. /\ Picking(x) /\ pc[x] \in FindLabels => Root[v] = Root[p.a]
          /\ pc[x] = "mark_dead" => Root[f] = Root[p.a]
          /\ Picking(x) /\ pc[x] \in {"compress", "mark_dead"} => uf[f].parent = 0
          /\ Pending(x) => c[loc[x].unite.q] = c[loc[x].unite.r]
      BY <3>1, <3>2 DEF Reads
    <3>. QED
      BY <3>1, <3>2, <3>3, <3>5, <3>6 DEF Reads
  <2>. QED
    BY <2>1, <2>2, <2>3
<1>. QED
  BY <1>1, <1>4, <1>5, <1>6, <1>7 DEF Lists, ListInv
\* Nor do the steps of the code that uses this class.
LEMMA CallerRings ==
  ASSUME NEW callers, SetsInv(callers), HomeInv, ListInv, NEW w \in Worker, CallerStep(w, callers), Root' = Root
  PROVE  ListInv'
<1>1. Outside(callers) /\ uf' = uf /\ pc[w] \in callers /\ Alone(w) /\ stack[w] = <<>>
      /\ \/ pc'[w] \in callers /\ stack'[w] = <<>>
         \/ \E c \in callers : pc'[w] \in {"pick_a", "remove"} /\ stack'[w] = <<c>>
         \/ \E c \in callers, b \in {"claim_dead", "same_b", "unite_a"} :
              pc'[w] = "find" /\ (stack'[w] = <<c>> \/ stack'[w] = <<c, b>>)
  BY CallerMoves DEF SetsInv, Knows, CallerStep
<1>2. callers \cap (PickLabels \cup RegionLabels \cup {"remove", "remove_color"}) = {}
  BY <1>1 DEF Outside, Labels, PickLabels, RegionLabels
<1>3. ~Pending(w) /\ ~Pending(w)'
  <2>1. "set_parent" \in RegionLabels /\ "set_parent" \notin {"pick_a", "remove", "find"}
    BY DEF RegionLabels
  <2>. QED
    BY <1>1, <1>2, <2>1 DEF Pending
<1>4. pc'[w] \in {"pick_a", "remove"} \/ ~OnList(w)'
  <2>1. \A l \in ListLabels \cup {"mark_dead"} : l \in RegionLabels \cup PickLabels
    BY DEF ListLabels, RegionLabels, PickLabels
  <2>2. CASE pc'[w] \in callers /\ stack'[w] = <<>>
    <3>1. \A l : ~Awaits(w, l)'
      BY <2>2 DEF Awaits
    <3>2. callers \cap {"list_a", "list_b", "swap", "set_parent"} = {}
      BY <1>2 DEF RegionLabels
    <3>. QED
      BY <1>2, <2>2, <3>1, <3>2 DEF OnList, Picking
  <2>3. ASSUME NEW c \in callers, NEW b \in {"claim_dead", "same_b", "unite_a"},
               pc'[w] = "find", stack'[w] = <<c>> \/ stack'[w] = <<c, b>>
        PROVE  ~OnList(w)'
    <3>1. \A l \in ListLabels \cup {"mark_dead"} : ~Awaits(w, l)'
      <4>1. CASE stack'[w] = <<c>>
        BY <4>1 DEF Awaits
      <4>2. CASE stack'[w] = <<c, b>>
        <5>1. stack'[w][2] = b
          BY <4>2
        <5>. QED
          BY <4>2, <5>1 DEF Awaits, ListLabels
      <4>. QED
        BY <2>3, <4>1, <4>2
    <3>2. "find" \notin PickLabels \cup {"remove", "remove_color", "list_a", "list_b", "swap", "set_parent"}
      BY DEF PickLabels
    <3>. QED
      BY <2>3, <3>1, <3>2 DEF OnList, Picking
  <2>. QED
    BY <1>1, <2>2, <2>3
<1>5. \A x \in Worker \ {w} : /\ pc'[x] = pc[x] /\ stack'[x] = stack[x] /\ ret'[x] = ret[x]
                              /\ path'[x] = path[x] /\ loc'[x] = loc[x]
  BY <1>1 DEF Alone, OthersKept
<1>6. \A x \in Worker : (Pending(x)' <=> Pending(x)) /\ (Pending(x) => loc'[x] = loc[x])
  BY <1>3, <1>5 DEF Pending
<1> DEFINE S == {w}
<1>7. S \in SUBSET Worker /\ (\A x \in S : ~OnList(x)' \/ pc'[x] \in {"pick_a", "remove"}) /\ uf' = uf
  BY <1>1, <1>4
<1>8. \A x \in Worker \ S : /\ pc'[x] = pc[x] /\ stack'[x] = stack[x] /\ ret'[x] = ret[x]
                              /\ path'[x] = path[x] /\ loc'[x] = loc[x]
  BY <1>5
<1> HIDE DEF S
<1>. QED
  BY <1>6, <1>7, <1>8, RingsSame
==============================================================================
