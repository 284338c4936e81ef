----------------------------- MODULE UnionFind -----------------------------
(***************************************************************************)
(* The concurrent union-find structure with a cyclic list per set that the *)
(* UFSCC workers share (class unionfind in src/src/scc_ufscc.cc).          *)
(*                                                                         *)
(* An action makes one access to a shared field and runs the worker-local  *)
(* code up to the next one, so TLC interleaves the workers wherever        *)
(* sequential consistency lets them.  A busy wait is a guard: reads that   *)
(* find the lock taken change nothing.  Two groups of accesses are one     *)
(* action: a read that only decides whether to try a CAS, with that CAS (a *)
(* failed read and a failed CAS lead to the same place); and the four      *)
(* accesses to list_next of the two entries unite holds locked (list_next  *)
(* is read only of TOMB entries, see LocksOwned).                          *)
(*                                                                         *)
(* A call pushes a return label.  Each C++ function has one activation     *)
(* record per worker, zero while it does not run: only find is re-entered, *)
(* and path holds the states of its open calls, outermost first.           *)
(*                                                                         *)
(* An operator whose name starts with Bug is a wrong variant of the        *)
(* definition below it, which no specification uses: the properties are    *)
(* shown to notice it.                                                     *)
(***************************************************************************)
EXTENDS Integers, Sequences

CONSTANTS N,          \* number of graph nodes; node i of the graph is slot i+1
          NWorkers,   \* OpenMP threads
          WordBits    \* width of worker_set, 64 in the code

ASSUME UFConstants == {N, NWorkers, WordBits} \subseteq Nat \ {0}

Slot == 0 .. N             \* uf_array has max_sz+1 entries; 0 is "no node"
Node == 1 .. N
Worker == 0 .. NWorkers-1  \* thread_id

LIVE == "LIVE"             \* UF_LIVE and LIST_LIVE
LOCK == "LOCK"
DEAD == "DEAD"             \* a completed SCC (uf_status)
TOMB == "TOMB"             \* a fully explored state (list_status)

VARIABLES uf,              \* uf_array
          G_Color,         \* the global colours, indexed by slot
          pc, stack, ret,  \* next label, return labels, returned value
          path, loc        \* locals of find, and of the other functions

control == <<pc, stack, ret>>
ufVars  == <<uf, G_Color, control, path, loc>>

uf_node == [parent |-> 0, workers |-> {}, list_next |-> 0,
            uf_status |-> LIVE, list_status |-> LIVE]

NoSame  == [a |-> 0, b |-> 0]
NoPick  == [a |-> 0, b |-> 0, c |-> 0]
NoUnite == [a |-> 0, b |-> 0, ar |-> 0, q |-> 0, r |-> 0, al |-> 0, bl |-> 0, qw |-> {}, up |-> 0]
NoRet   == [code |-> "none", node |-> 0]

UFInit ==
  /\ uf = [s \in Slot |-> uf_node]
  /\ G_Color = [s \in Node |-> 0]
  /\ stack = [w \in Worker |-> <<>>]
  /\ ret = [w \in Worker |-> NoRet]
  /\ path = [w \in Worker |-> <<>>]
  /\ loc = [w \in Worker |->
              [first |-> FALSE, same |-> NoSame, pick |-> NoPick, unite |-> NoUnite]]

(* Control: Goto inside a function; Resume once a returned value is used;  *)
(* Call pushes the return labels of the functions entered, innermost last. *)
Goto(w, label) == pc' = [pc EXCEPT ![w] = label] /\ UNCHANGED <<stack, ret>>

Resume(w, label) ==
  /\ pc' = [pc EXCEPT ![w] = label]
  /\ ret' = [ret EXCEPT ![w] = NoRet]
  /\ UNCHANGED stack

Call(w, label, backs) ==
  /\ pc' = [pc EXCEPT ![w] = label]
  /\ stack' = [stack EXCEPT ![w] = @ \o backs]
  /\ ret' = [ret EXCEPT ![w] = NoRet]

Return(w, code, node) ==
  /\ stack[w] # <<>>
  /\ pc' = [pc EXCEPT ![w] = stack[w][Len(stack[w])]]
  /\ stack' = [stack EXCEPT ![w] = SubSeq(@, 1, Len(@) - 1)]
  /\ ret' = [ret EXCEPT ![w] = [code |-> code, node |-> node]]

-----------------------------------------------------------------------------
(* node_t find (node_t state)                                              *)
CallFind(w, state, backs) ==
  path' = [path EXCEPT ![w] = <<state>>] /\ Call(w, "find", backs)

\* The call just above the root's has the root as its parent and writes nothing.
ToCompress(p) == SubSeq(p, 1, Len(p) - 2)

FindRead(w) ==
  LET state  == path[w][Len(path[w])]
      parent == uf[state].parent
      rest   == ToCompress(path[w])
  IN  /\ pc[w] = "find"
      /\ \/ /\ parent # 0
            /\ path' = [path EXCEPT ![w] = Append(@, parent)]
            /\ UNCHANGED control
         \/ /\ parent = 0
            /\ path' = [path EXCEPT ![w] = rest]
            /\ IF rest = <<>> THEN Return(w, "find", state)
               ELSE /\ pc' = [pc EXCEPT ![w] = "compress"]
                    /\ ret' = [ret EXCEPT ![w] = [code |-> "find", node |-> state]]
                    /\ UNCHANGED stack
      /\ UNCHANGED <<uf, G_Color, loc>>

FindCompress(w) ==
  LET last == Len(path[w])
  IN  /\ pc[w] = "compress"
      /\ uf' = [uf EXCEPT ![path[w][last]].parent = ret[w].node]
      /\ path' = [path EXCEPT ![w] = SubSeq(@, 1, last - 1)]
      /\ IF last > 1 THEN UNCHANGED control ELSE Return(w, "find", ret[w].node)
      /\ UNCHANGED <<G_Color, loc>>

-----------------------------------------------------------------------------
(* char make_claim (node_t state, int worker)                              *)
CallClaim(w, state, back) == CallFind(w, state, <<back, "claim_dead">>)

Bug_w_id_Shift(w) == {w + 1}
Bug_w_id_Shared(w) == {0}
w_id(w) == {w % WordBits}      \* 1ULL << worker: the shift count wraps

ClaimDead(w) ==                \* line 224; f stays in ret to the end
  LET dead == uf[ret[w].node].uf_status = DEAD
  IN  /\ pc[w] = "claim_dead"
      /\ \/ dead /\ Return(w, "CLAIM_DEAD", 0)
         \/ ~dead /\ Goto(w, "claim_found")
      /\ UNCHANGED <<uf, G_Color, path, loc>>

ClaimFound(w) ==               \* line 228
  LET visited == uf[ret[w].node].workers \cap w_id(w) # {}
  IN  /\ pc[w] = "claim_found"
      /\ \/ visited /\ Return(w, "CLAIM_FOUND", 0)
         \/ ~visited /\ Goto(w, "claim_or")
      /\ UNCHANGED <<uf, G_Color, path, loc>>

BugUnclaimed(w, f) == uf[f].workers \cap w_id(w) = {}
Unclaimed(w, f)    == uf[f].workers = {}      \* line 240

ClaimOr(w) ==                  \* line 235, and 238 for the roots above
  LET f == ret[w].node
  IN  /\ pc[w] \in {"claim_or", "claim_again"}
      /\ uf' = [uf EXCEPT ![f].workers = @ \cup w_id(w)]
      /\ loc' = [loc EXCEPT ![w].first = IF pc[w] = "claim_or" THEN Unclaimed(w, f) ELSE @]
      /\ Goto(w, "claim_check")
      /\ UNCHANGED <<G_Color, path>>

ClaimCheck(w) ==               \* lines 236-243: is f still the representative?
  LET f == ret[w].node
  IN  /\ pc[w] = "claim_check"
      /\ \/ uf[f].parent # 0 /\ CallFind(w, f, <<"claim_again">>) /\ UNCHANGED loc
         \/ /\ uf[f].parent = 0
            /\ Return(w, IF loc[w].first THEN "CLAIM_FIRST" ELSE "CLAIM_SUCCESS", 0)
            /\ loc' = [loc EXCEPT ![w].first = FALSE]
            /\ UNCHANGED path
      /\ UNCHANGED <<uf, G_Color>>

-----------------------------------------------------------------------------
(* bool sameset (node_t a, node_t b)                                       *)
CallSameset(w, a, b, back) ==
  IF a = b
  THEN /\ pc' = [pc EXCEPT ![w] = back]
       /\ ret' = [ret EXCEPT ![w] = [code |-> "same", node |-> 0]]
       /\ UNCHANGED <<stack, path, loc>>
  ELSE /\ loc' = [loc EXCEPT ![w].same.a = a]
       /\ CallFind(w, b, <<back, "same_b">>)

SameReturn(w, code) ==
  Return(w, code, 0) /\ loc' = [loc EXCEPT ![w].same = NoSame]

SameB(w) ==                    \* lines 276-282: the lower of the two roots first
  LET a   == loc[w].same.a
      b_r == ret[w].node
  IN  /\ pc[w] = "same_b"
      /\ \/ a = b_r /\ SameReturn(w, "same")
         \/ b_r < a /\ uf[b_r].parent = 0 /\ SameReturn(w, "different")
         \/ /\ a < b_r \/ (b_r < a /\ uf[b_r].parent # 0)
            /\ loc' = [loc EXCEPT ![w].same.b = b_r]
            /\ Resume(w, "same_a")
      /\ UNCHANGED <<uf, G_Color, path>>

SameA(w) ==                    \* lines 284-288
  LET a == loc[w].same.a
  IN  /\ pc[w] = "same_a"
      /\ \/ uf[a].parent = 0 /\ SameReturn(w, "different") /\ UNCHANGED path
         \/ uf[a].parent # 0 /\ CallFind(w, a, <<"same_retry">>) /\ UNCHANGED loc
      /\ UNCHANGED <<uf, G_Color>>

BugOneRoot(a, b) == a >= b
OneRoot(a, b)    == a = b

SameRetry(w) ==                \* line 288: sameset (find(a), b_r)
  LET a == ret[w].node
      b == loc[w].same.b
  IN  /\ pc[w] = "same_retry"
      /\ \/ OneRoot(a, b) /\ SameReturn(w, "same") /\ UNCHANGED path
         \/ /\ ~OneRoot(a, b)
            /\ loc' = [loc EXCEPT ![w].same = [a |-> a, b |-> 0]]
            /\ CallFind(w, b, <<"same_b">>)
      /\ UNCHANGED <<uf, G_Color>>

-----------------------------------------------------------------------------
(* pick_e pick_from_list (node_t state, node_t *ret), and mark_dead        *)
CallPick(w, state, backs) ==
  /\ loc' = [loc EXCEPT ![w].pick = [NoPick EXCEPT !.a = state]]
  /\ Call(w, "pick_a", backs)

PickReturn(w, code, node) ==
  Return(w, code, node) /\ loc' = [loc EXCEPT ![w].pick = NoPick]

Explored(l) == uf[l].list_status = TOMB

PickA(w) ==                    \* lines 138-150; waits while a is LOCK
  LET a == loc[w].pick.a
  IN  /\ pc[w] = "pick_a"
      /\ \/ uf[a].list_status = LIVE /\ PickReturn(w, "PICK_SUCCESS", a)
         \/ Explored(a) /\ Goto(w, "pick_next") /\ UNCHANGED loc
      /\ UNCHANGED <<uf, G_Color, path>>

PickNext(w) ==                 \* lines 153-160
  LET a == loc[w].pick.a
      b == uf[a].list_next
  IN  /\ pc[w] = "pick_next"
      /\ \/ b \in {a, 0} /\ CallFind(w, a, <<"mark_dead">>) /\ UNCHANGED loc
         \/ /\ b \notin {a, 0}
            /\ loc' = [loc EXCEPT ![w].pick.b = b]
            /\ Goto(w, "pick_b")
            /\ UNCHANGED path
      /\ UNCHANGED <<uf, G_Color>>

PickB(w) ==                    \* lines 163-175; waits while b is LOCK
  LET b == loc[w].pick.b
  IN  /\ pc[w] = "pick_b"
      /\ \/ uf[b].list_status = LIVE /\ PickReturn(w, "PICK_SUCCESS", b)
         \/ Explored(b) /\ Goto(w, "pick_c") /\ UNCHANGED loc
      /\ UNCHANGED <<uf, G_Color, path>>

PickC(w) ==                    \* line 178
  /\ pc[w] = "pick_c"
  /\ loc' = [loc EXCEPT ![w].pick.c = uf[loc[w].pick.b].list_next]
  /\ Goto(w, "pick_compare")
  /\ UNCHANGED <<uf, G_Color, path>>

ContinueFromC(w) ==            \* line 185: a = c
  /\ loc' = [loc EXCEPT ![w].pick = [NoPick EXCEPT !.a = loc[w].pick.c]]
  /\ Goto(w, "pick_a")

PickCompare(w) ==              \* line 181
  LET adjacent == uf[loc[w].pick.a].list_next = loc[w].pick.b
  IN  /\ pc[w] = "pick_compare"
      /\ \/ adjacent /\ Goto(w, "pick_write") /\ UNCHANGED loc
         \/ ~adjacent /\ ContinueFromC(w)
      /\ UNCHANGED <<uf, G_Color, path>>

PickWrite(w) ==                \* line 182: a --> c
  /\ pc[w] = "pick_write"
  /\ uf' = [uf EXCEPT ![loc[w].pick.a].list_next = loc[w].pick.c]
  /\ ContinueFromC(w)
  /\ UNCHANGED <<G_Color, path>>

MarkDead(w) ==                 \* lines 390-397; waits while f is UF_LOCK
  LET f == ret[w].node
  IN  /\ pc[w] = "mark_dead"
      /\ \/ /\ uf[f].uf_status = LIVE
            /\ uf' = [uf EXCEPT ![f].uf_status = DEAD]
            /\ PickReturn(w, "PICK_MARK_DEAD", 0)
         \/ uf[f].uf_status = DEAD /\ PickReturn(w, "PICK_DEAD", 0) /\ UNCHANGED uf
      /\ UNCHANGED <<G_Color, path>>

-----------------------------------------------------------------------------
(* bool remove_from_list (node_t state); waits while state is LIST_LOCK    *)
CallRemove(w, state, back) ==
  /\ loc' = [loc EXCEPT ![w].pick = [NoPick EXCEPT !.a = state]]
  /\ Call(w, "remove", <<back>>)

BugRemovable(state) == uf[state].list_status # TOMB
Removable(state)    == uf[state].list_status = LIVE

Remove(w) ==                   \* lines 196-203
  LET state == loc[w].pick.a
  IN  /\ pc[w] = "remove"
      /\ \/ /\ Removable(state)
            /\ uf' = [uf EXCEPT ![state].list_status = TOMB]
            /\ Goto(w, "remove_color")
            /\ UNCHANGED loc
         \/ Explored(state) /\ PickReturn(w, "removed", 0) /\ UNCHANGED uf
      /\ UNCHANGED <<G_Color, path>>

RemoveColor(w) ==              \* line 199
  /\ pc[w] = "remove_color"
  /\ G_Color' = [G_Color EXCEPT ![loc[w].pick.a] = -2]
  /\ PickReturn(w, "removed", 0)
  /\ UNCHANGED <<uf, path>>

-----------------------------------------------------------------------------
(* void unite (node_t a, node_t b), with lock_uf, lock_list, unlock_*      *)
CallUnite(w, a, b, back) ==
  /\ loc' = [loc EXCEPT ![w].unite = [NoUnite EXCEPT !.a = a, !.b = b]]
  /\ CallFind(w, a, <<back, "unite_a">>)

UniteReturn(w) ==
  Return(w, "united", 0) /\ loc' = [loc EXCEPT ![w].unite = NoUnite]

UniteRetry(w) ==               \* line 321: continue
  /\ loc' = [loc EXCEPT ![w].unite = [@ EXCEPT !.q = 0, !.r = 0]]
  /\ CallFind(w, loc[w].unite.a, <<"unite_a">>)

UniteFindB(w) ==               \* line 304
  /\ pc[w] = "unite_a"
  /\ loc' = [loc EXCEPT ![w].unite.ar = ret[w].node]
  /\ CallFind(w, loc[w].unite.b, <<"unite_b">>)
  /\ UNCHANGED <<uf, G_Color>>

\* lines 312-317: the highest index becomes the root r, the other is the non-root q
BugRoles(u, a_r, b_r) == [u EXCEPT !.q = b_r, !.r = a_r]
Roles(u, a_r, b_r) == IF a_r < b_r THEN [u EXCEPT !.q = a_r, !.r = b_r]
                                   ELSE [u EXCEPT !.q = b_r, !.r = a_r]

UniteRoots(w) ==               \* lines 306-317
  LET a_r == loc[w].unite.ar
      b_r == ret[w].node
  IN  /\ pc[w] = "unite_b"
      /\ \/ a_r = b_r /\ UniteReturn(w)
         \/ /\ a_r # b_r
            /\ loc' = [loc EXCEPT ![w].unite = Roles(@, a_r, b_r)]
            /\ Resume(w, "lock_uf")
      /\ UNCHANGED <<uf, G_Color, path>>

BugLockable(q) == uf[q].uf_status # DEAD
Lockable(q)    == uf[q].uf_status = LIVE

LockUf(w) ==                   \* lines 408-409
  LET q == loc[w].unite.q
  IN  /\ pc[w] = "lock_uf"
      /\ \/ /\ Lockable(q)
            /\ uf' = [uf EXCEPT ![q].uf_status = LOCK]
            /\ Goto(w, "lock_uf_check")
            /\ UNCHANGED <<loc, path>>
         \/ ~Lockable(q) /\ UniteRetry(w) /\ UNCHANGED uf
      /\ UNCHANGED G_Color

BugUnchecked(q) == TRUE
BugInverted(q)  == uf[q].parent # 0
StillRoot(q)    == uf[q].parent = 0

LockUfCheck(w) ==              \* lines 411-417
  LET q == loc[w].unite.q
  IN  /\ pc[w] = "lock_uf_check"
      /\ \/ StillRoot(q) /\ CallPick(w, loc[w].unite.a, <<"list_a">>)
         \/ ~StillRoot(q) /\ Goto(w, "lock_uf_undo") /\ UNCHANGED loc
      /\ UNCHANGED <<uf, G_Color, path>>

LockUfUndo(w) ==               \* line 417
  /\ pc[w] = "lock_uf_undo"
  /\ uf' = [uf EXCEPT ![loc[w].unite.q].uf_status = LIVE]
  /\ UniteRetry(w)
  /\ UNCHANGED G_Color

\* lines 435-438: what lock_list does with l, the entry pick_from_list returned
Locks(w, l)     == ret[w].code = "PICK_SUCCESS" /\ uf[l].list_status = LIVE
PickAgain(w, l) == ret[w].code = "PICK_SUCCESS" /\ uf[l].list_status # LIVE
Completed(w)    == ret[w].code # "PICK_SUCCESS"

LockListA(w) ==                \* lines 326-328
  LET l == ret[w].node
      u == loc[w].unite
  IN  /\ pc[w] = "list_a"
      /\ \/ /\ Locks(w, l)
            /\ uf' = [uf EXCEPT ![l].list_status = LOCK]
            /\ loc' = [loc EXCEPT ![w] = [@ EXCEPT !.unite.al = l, !.pick.a = u.b]]
            /\ Call(w, "pick_a", <<"list_b">>)
         \/ PickAgain(w, l) /\ CallPick(w, u.a, <<"list_a">>) /\ UNCHANGED uf
         \/ Completed(w) /\ UniteReturn(w) /\ UNCHANGED uf
      /\ UNCHANGED <<G_Color, path>>

LockListB(w) ==                \* lines 329-332
  LET l == ret[w].node
      u == loc[w].unite
  IN  /\ pc[w] = "list_b"
      /\ \/ /\ Locks(w, l)
            /\ uf' = [uf EXCEPT ![l].list_status = LOCK]
            /\ loc' = [loc EXCEPT ![w].unite.bl = l]
            /\ Resume(w, "swap")
         \/ PickAgain(w, l) /\ CallPick(w, u.b, <<"list_b">>) /\ UNCHANGED uf
         \/ /\ Completed(w)
            /\ uf' = [uf EXCEPT ![u.al].list_status = LIVE]
            /\ UniteReturn(w)
      /\ UNCHANGED <<G_Color, path>>

\* lines 339-342: a singleton list has next 0
BugNextOrSelf(l) == uf[l].list_next
NextOrSelf(l) == IF uf[l].list_next = 0 THEN l ELSE uf[l].list_next

BugSwapped(al, bl) == [uf EXCEPT ![al].list_next = bl, ![bl].list_next = NextOrSelf(al)]
Swapped(al, bl) == [uf EXCEPT ![al].list_next = NextOrSelf(bl), ![bl].list_next = NextOrSelf(al)]

SwapLists(w) ==                \* lines 335-345
  /\ pc[w] = "swap"
  /\ uf' = Swapped(loc[w].unite.al, loc[w].unite.bl)
  /\ Goto(w, "set_parent")
  /\ UNCHANGED <<G_Color, path, loc>>

Merged(q, r)    == [uf EXCEPT ![q].parent = r]

SetParent(w) ==                \* line 348
  /\ pc[w] = "set_parent"
  /\ uf' = Merged(loc[w].unite.q, loc[w].unite.r)
  /\ Goto(w, "read_qw")
  /\ UNCHANGED <<G_Color, path, loc>>

ReadQw(w) ==                   \* line 351
  /\ pc[w] = "read_qw"
  /\ loc' = [loc EXCEPT ![w].unite.qw = uf[loc[w].unite.q].workers]
  /\ Goto(w, "compare_rw")
  /\ UNCHANGED <<uf, G_Color, path>>

BugAddsWorkers(u) == uf[u.r].workers = {}
AddsWorkers(u)    == u.qw \ uf[u.r].workers # {}

CompareRw(w) ==                \* lines 352-353
  LET u == loc[w].unite
  IN  /\ pc[w] = "compare_rw"
      /\ loc' = [loc EXCEPT ![w].unite.up = u.r]
      /\ Goto(w, IF AddsWorkers(u) THEN "add_qw" ELSE "unlock_a")
      /\ UNCHANGED <<uf, G_Color, path>>

AddQw(w) ==                    \* line 355, and 358 for the roots above r
  LET u == loc[w].unite
  IN  /\ pc[w] = "add_qw"
      /\ uf' = [uf EXCEPT ![u.up].workers = @ \cup u.qw]
      /\ Goto(w, "check_r")
      /\ UNCHANGED <<G_Color, path, loc>>

CheckR(w) ==                   \* line 356: is up still the representative?
  LET up == loc[w].unite.up
  IN  /\ pc[w] = "check_r"
      /\ \/ uf[up].parent # 0 /\ CallFind(w, up, <<"found_r">>)
         \/ uf[up].parent = 0 /\ Goto(w, "unlock_a") /\ UNCHANGED path
      /\ UNCHANGED <<uf, G_Color, loc>>

FoundR(w) ==                   \* line 357; up is the code's r from line 355 on
  /\ pc[w] = "found_r"
  /\ loc' = [loc EXCEPT ![w].unite.up = ret[w].node]
  /\ Resume(w, "add_qw")
  /\ UNCHANGED <<uf, G_Color, path>>

Unlocked(l)    == [uf EXCEPT ![l].list_status = LIVE]

UnlockListA(w) ==              \* line 363
  /\ pc[w] = "unlock_a"
  /\ uf' = Unlocked(loc[w].unite.al)
  /\ Goto(w, "unlock_b")
  /\ UNCHANGED <<G_Color, path, loc>>

UnlockListB(w) ==              \* line 364
  /\ pc[w] = "unlock_b"
  /\ uf' = Unlocked(loc[w].unite.bl)
  /\ Goto(w, "unlock_uf")
  /\ UNCHANGED <<G_Color, path, loc>>

UnlockUf(w) ==                 \* line 365
  /\ pc[w] = "unlock_uf"
  /\ uf' = [uf EXCEPT ![loc[w].unite.q].uf_status = LIVE]
  /\ UniteReturn(w)
  /\ UNCHANGED <<G_Color, path>>

UFStep(w) ==
  \/ FindRead(w) \/ FindCompress(w)
  \/ ClaimDead(w) \/ ClaimFound(w) \/ ClaimOr(w) \/ ClaimCheck(w)
  \/ SameB(w) \/ SameA(w) \/ SameRetry(w)
  \/ PickA(w) \/ PickNext(w) \/ PickB(w) \/ PickC(w) \/ PickCompare(w) \/ PickWrite(w)
  \/ MarkDead(w) \/ Remove(w) \/ RemoveColor(w)
  \/ UniteFindB(w) \/ UniteRoots(w) \/ LockUf(w) \/ LockUfCheck(w) \/ LockUfUndo(w)
  \/ LockListA(w) \/ LockListB(w) \/ SwapLists(w) \/ SetParent(w)
  \/ ReadQw(w) \/ CompareRw(w) \/ AddQw(w) \/ CheckR(w) \/ FoundR(w)
  \/ UnlockListA(w) \/ UnlockListB(w) \/ UnlockUf(w)

-----------------------------------------------------------------------------
(* Properties of the structure alone                                       *)

Labels == {"find", "compress", "claim_dead", "claim_found", "claim_or", "claim_check",
           "claim_again", "same_b", "same_a", "same_retry", "pick_a", "pick_next", "pick_b",
           "pick_c", "pick_compare", "pick_write", "mark_dead", "remove", "remove_color",
           "unite_a", "unite_b", "lock_uf", "lock_uf_check", "lock_uf_undo", "list_a",
           "list_b", "swap", "set_parent", "read_qw", "compare_rw", "add_qw", "check_r",
           "found_r", "unlock_a", "unlock_b", "unlock_uf"}

Codes == {"none", "find", "same", "different", "CLAIM_DEAD", "CLAIM_FIRST", "CLAIM_SUCCESS",
          "CLAIM_FOUND", "PICK_DEAD", "PICK_MARK_DEAD", "PICK_SUCCESS", "removed", "united"}

WorkerSet == SUBSET (0 .. WordBits-1)

UFTypeOK(callers) ==   \* callers: the labels of the code that calls this class
  /\ uf \in [Slot -> [parent : Slot, workers : WorkerSet, list_next : Slot,
                     uf_status : {LIVE, LOCK, DEAD}, list_status : {LIVE, LOCK, TOMB}]]
  /\ G_Color \in [Node -> {0, -2}]
  /\ pc \in [Worker -> Labels \cup callers]
  /\ stack \in [Worker -> Seq(Labels \cup callers)]
  /\ ret \in [Worker -> [code : Codes, node : Slot]]
  /\ path \in [Worker -> Seq(Slot)]
  /\ loc \in [Worker -> [first : BOOLEAN, same : [a : Slot, b : Slot],
                         pick : [a : Slot, b : Slot, c : Slot],
                         unite : [a : Slot, b : Slot, ar : Slot, q : Slot, r : Slot, al : Slot,
                                  bl : Slot, qw : WorkerSet, up : Slot]]]

\* the representative find computes, as a function of the parents
Root == LET root[n \in Slot] == IF uf[n].parent = 0 THEN n ELSE root[uf[n].parent]
        IN  root

Parts == LET root == [n \in Node |-> Root[n]]
         IN  [n \in Node |-> {m \in Node : root[m] = root[n]}]

\* A state's parent always has a higher index, whatever the interleaving of
\* unite (lines 310-317) with the path compression of other workers (line 259):
\* the parent chain that find recurses on can have no cycle.
ParentIncreasing == \A s \in Slot : uf[s].parent # 0 => s < uf[s].parent

\* What worker w holds locked: the non-root q of its unite, and the list entries
HoldsUf(w) == IF pc[w] = "lock_uf" THEN {} ELSE {loc[w].unite.q} \ {0}
HoldsList(w) ==
  ((IF pc[w] \in {"unlock_b", "unlock_uf"} THEN {} ELSE {loc[w].unite.al}) \cup
   (IF pc[w] = "unlock_uf" THEN {} ELSE {loc[w].unite.bl})) \ {0}

\* UF_LOCK and LIST_LOCK are owned: an entry is locked exactly while one unite
\* holds it.  The unlocks (lines 417, 426, 446) store LIVE unconditionally, so a
\* lock without an owner would stay for ever (the early returns at 326-332) and
\* one with two owners would be reopened under one of them.  And list_next is only
\* accessed at TOMB entries or by the owner of a LOCK entry, so that nobody sees
\* the two lists half swapped (lines 335-345).
LocksOwned ==
  /\ \A n \in Node :
       /\ uf[n].uf_status = LOCK <=> \E w \in Worker : n \in HoldsUf(w)
       /\ uf[n].list_status = LOCK <=> \E w \in Worker : n \in HoldsList(w)
       /\ \A w, x \in Worker : w # x => /\ n \notin HoldsUf(w) \cap HoldsUf(x)
                                       /\ n \notin HoldsList(w) \cap HoldsList(x)
  /\ \A w \in Worker :
       /\ pc[w] \in {"pick_next", "pick_compare", "pick_write"} => uf[loc[w].pick.a].list_status = TOMB
       /\ pc[w] \in {"pick_c", "pick_compare", "pick_write"} => uf[loc[w].pick.b].list_status = TOMB
       /\ pc[w] = "swap" => loc[w].unite.al # loc[w].unite.bl

\* What no step may undo: a completed SCC, an explored state, a union (a state
\* that stopped being a representative never is one again) and a worker's bit.
\* It is the plain stores of LIVE and of parents that could.
NothingUndone ==
  \A n \in Node :
    /\ uf[n].uf_status = DEAD => uf'[n].uf_status = DEAD
    /\ uf[n].list_status = TOMB => uf'[n].list_status = TOMB
    /\ uf[n].parent # 0 => uf'[n].parent # 0
    /\ uf[n].workers \subseteq uf'[n].workers
Monotone == [][NothingUndone]_uf

\* The entries on the cyclic list from n on, as pick_from_list follows them
ListFrom(n) ==
  LET next(m)  == IF uf[m].list_next = 0 THEN m ELSE uf[m].list_next
      entry[j \in 0 .. N] == IF j = 0 THEN n ELSE next(entry[j-1])
  IN  {entry[j] : j \in 0 .. N}

\* The list of a set in which no entry is locked stays inside the set (the
\* invariant of line 129) and, from any of its states, still passes every state
\* that is not explored, although readers shorten it (line 182) without a lock.
ListCovers ==
  \A n \in Node :
    LET set == Parts[n]
    IN  (\A m \in set : uf[m].list_status # LOCK) =>
          /\ ListFrom(n) \subseteq set
          /\ {m \in set : uf[m].list_status = LIVE} \subseteq ListFrom(n)

\* A worker between its fetch_or or parent update and the check that follows it
Settling(t) ==
  \/ pc[t] \in {"claim_check", "claim_again", "read_qw", "compare_rw", "add_qw", "check_r", "found_r"}
  \/ \E j \in 1 .. Len(stack[t]) : stack[t][j] \in {"claim_again", "found_r"}

\* No worker's bit is left behind at a state that is no longer a representative
\* (line 234: "ensure it is the UF representative"; lines 350-360): outside
\* those two windows the representative has all bits of its set.
BitsAtRoot ==
  (\A t \in Worker : ~Settling(t)) => \A n \in Node : uf[n].workers \subseteq uf[Root[n]].workers
=============================================================================
