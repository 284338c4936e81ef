--------------------------- MODULE BaselineProofs ---------------------------
(***************************************************************************)
(* Method 0 for every graph and every number of threads: no thread leaves  *)
(* work behind, the whole program implements FwBw, and what it records is  *)
(* the SCC of every node.  First the work queue, whoever calls it.         *)
(* QueueInv says why the end is detected correctly: a thread whose         *)
(* work_sheet is 0 holds no items and can only get some from the_q, so     *)
(* once thread 0 has seen the_q empty and every sheet 0, one after the     *)
(* other but under the lock, nothing can start again.                      *)
(***************************************************************************)
EXTENDS Baseline, SequenceTheorems, FiniteSetTheorems, TLAPS

-----------------------------------------------------------------------------
(* Taking from the end of a vector                                         *)

\* What is left after m pops: the first items of the vector.
LEMMA UnpoppedSeq ==
  ASSUME NEW I, NEW s \in Seq(I), NEW m \in 0 .. Len(s)
  PROVE  /\ Unpopped(s, m) \in Seq(I)
         /\ Len(Unpopped(s, m)) = Len(s) - m
         /\ \A i \in 1 .. Len(s) - m : Unpopped(s, m)[i] = s[i]
<1>1. Len(s) \in Nat /\ m \in Nat
  BY LenProperties
<1>2. \A i \in 1 .. Len(s) - m : s[i] \in I
  BY <1>1, ElementOfSeq
<1>3. \A i \in 1 .. Len(s) - m : 1 + i - 1 = i
  BY <1>1
<1>. QED
  BY <1>1, <1>2, <1>3, SubSeqProperties DEF Unpopped

\* What m pops yield: the last m items, in reverse.
LEMMA PoppedSeq ==
  ASSUME NEW I, NEW s \in Seq(I), NEW m \in 0 .. Len(s)
  PROVE  /\ Popped(s, m) \in Seq(I)
         /\ Len(Popped(s, m)) = m
         /\ \A i \in 1 .. m : Popped(s, m)[i] = s[Len(s) + 1 - i]
<1>1. Len(s) \in Nat /\ m \in Nat
  BY LenProperties
<1>2. \A i \in 1 .. m : s[Len(s) + 1 - i] \in I
  <2>1. \A i \in 1 .. m : Len(s) + 1 - i \in 1 .. Len(s)
    BY <1>1
  <2>. QED
    BY <2>1, ElementOfSeq
<1>3. Popped(s, m) \in [1 .. m -> I]
  BY <1>2 DEF Popped
<1>4. Popped(s, m) \in Seq(I)
  BY <1>1, <1>3, SeqDef
<1>5. Len(Popped(s, m)) = m
  BY <1>1, <1>3, <1>4, LenProperties
<1>. QED
  BY <1>4, <1>5 DEF Popped

\* Taking everything leaves nothing, taking less leaves something.
LEMMA UnpoppedEmpty ==
  ASSUME NEW I, NEW s \in Seq(I), NEW m \in 0 .. Len(s)
  PROVE  Unpopped(s, m) = <<>> <=> Len(s) = m
BY UnpoppedSeq, LenProperties, EmptySeq

\* work_q_fetch_N takes at least one item and no more than there are.
LEMMA ShareBounds ==
  ASSUME NEW I, the_q \in Seq(I), the_q # <<>>
  PROVE  Share \in 1 .. Len(the_q)
<1>1. Len(the_q) \in Nat \ {0}
  BY EmptySeq
<1>2. LocalItems \div 2 \in Nat
  BY LocalItemsAssumption
<1>. QED
  BY <1>1, <1>2 DEF Share, LeastOf, GreatestOf

-----------------------------------------------------------------------------
(* Types                                                                   *)

\* There is a thread 0.
LEMMA Thread0 == 0 \in Worker
BY NWorkersAssumption DEF Worker

\* Where the lock is acquired and released from, and to.
LEMMA LockLabels ==
  /\ DOMAIN Inside = {"lock_put", "lock_fetch", "lock_check"}
  /\ Inside["lock_put"] = "push" /\ Inside["lock_fetch"] = "take" /\ Inside["lock_check"] = "size"
  /\ DOMAIN Outside = {"pushed", "taken", "none", "checked"}
  /\ Outside["pushed"] = "put" /\ Outside["taken"] = "fetched"
  /\ Outside["none"] = "poll" /\ Outside["checked"] = "finish"
BY DEF Inside, Outside

\* A step of the queue keeps its types.
LEMMA QueueStepTypes ==
  ASSUME NEW Label, NEW I, QTypeOK(Label, I), NEW t \in Worker, QueueStep(t)
  PROVE  QTypeOK(Label, I)'
<1>1. CASE Acquire(t) \/ Release(t) \/ SetIdle(t) \/ Poll(t) \/ Peek(t) \/ Check(t) \/ Size(t) \/ Finish(t)
  <2>1. PICK label \in QueueLabel : pc' = [pc EXCEPT ![t] = label]
    BY <1>1, LockLabels DEF Acquire, Release, SetIdle, Poll, Peek, Check, Size, Finish, Goto, QueueLabel
  <2>2. pc' \in [Worker -> QueueLabel \cup Label]
    BY <2>1 DEF QTypeOK
  <2>3. UNCHANGED <<the_q, my_works, new_works>>
    BY <1>1 DEF Acquire, Release, SetIdle, Poll, Peek, Check, Size, Finish, local
  <2>4. work_sheet' \in [Worker -> {0, 1}]
    BY <1>1 DEF QTypeOK, Acquire, Release, SetIdle, Poll, Peek, Check, Size, Finish
  <2>5. q_lock' \in {0, 1} /\ scan' \in 0 .. NWorkers
    BY <1>1, NWorkersAssumption
    DEF QTypeOK, Acquire, Release, SetIdle, Poll, Peek, Check, Size, Finish
  <2>6. all_finished' \in BOOLEAN
    BY <1>1, Zenon DEF QTypeOK, Acquire, Release, SetIdle, Poll, Peek, Check, Size, Finish, Finished
  <2>7. work_queue_empty' \in BOOLEAN
    BY <1>1, Zenon DEF QTypeOK, Acquire, Release, SetIdle, Poll, Peek, Check, Size, Finish
  <2>8. b' \in BOOLEAN
    BY <1>1, Zenon DEF QTypeOK, Acquire, Release, SetIdle, Poll, Peek, Check, Size, Finish
  <2>. QED
    BY <2>2, <2>3, <2>4, <2>5, <2>6, <2>7, <2>8 DEF QTypeOK
<1>2. CASE Scan(t)
  <2>1. pc' \in [Worker -> QueueLabel \cup Label]
    BY <1>2, LockLabels DEF QTypeOK, Scan, Goto, QueueLabel
  <2>2. scan' \in 0 .. NWorkers
    BY <1>2, NWorkersAssumption DEF QTypeOK, Scan
  <2>3. b' \in BOOLEAN
    BY <1>2, Zenon DEF QTypeOK, Scan
  <2>. QED
    BY <1>2, <2>1, <2>2, <2>3 DEF QTypeOK, Scan, local
<1>3. CASE Take(t)
  <2>1. pc' \in [Worker -> QueueLabel \cup Label]
    BY <1>3, LockLabels DEF QTypeOK, Take, Goto, QueueLabel
  <2>2. CASE the_q = <<>>
    BY <1>3, <2>1, <2>2 DEF QTypeOK, Take
  <2>3. CASE the_q # <<>>
    <3>1. Share \in 0 .. Len(the_q)
      BY <2>3, ShareBounds DEF QTypeOK
    <3>2. Popped(the_q, Share) \in Seq(I) /\ Unpopped(the_q, Share) \in Seq(I)
      BY <3>1, PoppedSeq, UnpoppedSeq DEF QTypeOK
    <3>3. my_works[t] \o Popped(the_q, Share) \in Seq(I)
      BY <3>2, ConcatProperties DEF QTypeOK
    <3>4. the_q' \in Seq(I) /\ my_works' \in [Worker -> Seq(I)]
      BY <1>3, <2>3, <3>2, <3>3 DEF QTypeOK, Take
    <3>5. work_sheet' \in [Worker -> {0, 1}] /\ work_queue_empty' \in BOOLEAN
      BY <1>3, <2>3 DEF QTypeOK, Take, Working, Emptied
    <3>. QED
      BY <1>3, <2>1, <3>4, <3>5 DEF QTypeOK, Take
  <2>. QED
    BY <2>2, <2>3
<1>4. CASE Push(t)
  <2>1. pc' \in [Worker -> QueueLabel \cup Label]
    BY <1>4, LockLabels DEF QTypeOK, Push, Goto, QueueLabel
  <2>2. the_q' \in Seq(I) /\ work_queue_empty' \in BOOLEAN
    BY <1>4, ConcatProperties DEF QTypeOK, Push
  <2>. QED
    BY <1>4, <2>1, <2>2 DEF QTypeOK, Push, local
<1>. QED
  BY <1>1, <1>2, <1>3, <1>4 DEF QueueStep

-----------------------------------------------------------------------------
(* The invariant of the queue                                              *)

NoItems(t) == my_works[t] = <<>> /\ new_works[t] = <<>>

\* the labels of work_q_fetch_N before it has an item, and of the check
IdleLabel  == {"set_idle", "poll", "peek", "lock_fetch", "take", "none",
               "check", "lock_check", "size", "scan", "checked", "finish"}
CheckLabel == {"check", "lock_check", "size", "scan", "checked", "finish"}

\* Where a thread has items: an idle sheet means none.
Items ==
  \A t \in Worker :
    /\ work_sheet[t] = 0 => NoItems(t)
    /\ pc[t] \in IdleLabel => NoItems(t)
    /\ pc[t] = "taken" => my_works[t] # <<>>
    /\ pc[t] \in {"taken", "fetched"} => new_works[t] = <<>>
    /\ pc[t] = "fetched" /\ my_works[t] = <<>> => all_finished

OneChecks == \A t \in Worker : pc[t] \in CheckLabel => t = 0

LockHeld ==
  /\ \A t \in Worker : Locked(t) => q_lock = 1
  /\ \A t, u \in Worker : Locked(t) /\ Locked(u) => t = u

Flag == work_queue_empty <=> the_q = <<>>

\* The queue is empty and the first n sheets are idle.
AllIdle(n) == the_q = <<>> /\ \A i \in Worker : i < n => work_sheet[i] = 0

Ends ==
  /\ all_finished => AllIdle(NWorkers)
  /\ pc[0] = "scan" => b /\ AllIdle(scan)
  /\ pc[0] \in {"checked", "finish"} /\ b => AllIdle(NWorkers)

QueueInv == Items /\ OneChecks /\ LockHeld /\ Flag /\ Ends

\* The labels between acquire and release, spelt out.
LEMMA LockedLabels ==
  \A t \in Worker : Locked(t) <=>
    pc[t] \in {"push", "take", "size", "scan", "pushed", "taken", "none", "checked"}
BY LockLabels DEF Locked

\* Quiescent and FlagExact follow.
LEMMA QueueInvQuiescent ==
  ASSUME NEW Label, NEW I, QTypeOK(Label, I), QueueInv
  PROVE  FlagExact /\ Quiescent
<1>1. FlagExact
  BY Zenon DEF QueueInv, Flag, FlagExact
<1>2. ASSUME AllIdle(NWorkers), NEW t \in Worker
      PROVE  the_q = <<>> /\ my_works[t] = <<>> /\ Pending(t) = <<>>
  <2>1. work_sheet[t] = 0 /\ the_q = <<>>
    BY <1>2, NWorkersAssumption DEF AllIdle, Worker
  <2>. QED
    BY <2>1 DEF QueueInv, Items, NoItems, Pending
<1>3. ASSUME all_finished \/ \E t \in Worker : pc[t] = "finish" /\ b
      PROVE  AllIdle(NWorkers)
  <2>1. CASE all_finished
    BY <2>1, Zenon DEF QueueInv, Ends
  <2>2. ASSUME NEW t \in Worker, pc[t] = "finish", b PROVE AllIdle(NWorkers)
    <3>1. t = 0
      BY <2>2 DEF QueueInv, OneChecks, CheckLabel
    <3>2. pc[0] \in {"checked", "finish"}
      BY <2>2, <3>1
    <3>. QED
      BY <2>2, <3>2, Zenon DEF QueueInv, Ends
  <2>. QED
    BY <1>3, <2>1, <2>2
<1>4. Quiescent
  BY <1>2, <1>3, Thread0 DEF Quiescent
<1>. QED
  BY <1>1, <1>4

\* Once the queue is empty and all sheets are idle, this stays so.
LEMMA StaysIdle ==
  ASSUME NEW Label, NEW I, QTypeOK(Label, I), QueueInv, NEW t \in Worker, QueueStep(t),
         AllIdle(NWorkers)
  PROVE  AllIdle(NWorkers)'
<1>1. the_q = <<>> /\ \A i \in Worker : work_sheet[i] = 0 /\ NoItems(i)
  <2>1. the_q = <<>> /\ \A i \in Worker : work_sheet[i] = 0
    BY NWorkersAssumption DEF AllIdle, Worker
  <2>. QED
    BY <2>1 DEF QueueInv, Items
<1>2. CASE UNCHANGED <<the_q, work_sheet>>
  BY <1>1, <1>2 DEF AllIdle
<1>3. CASE SetIdle(t)
  BY <1>1, <1>3 DEF AllIdle, SetIdle, QTypeOK
<1>4. CASE Take(t)
  BY <1>1, <1>4 DEF AllIdle, Take
<1>5. CASE Push(t)
  <2>1. the_q' = <<>>
    BY <1>1, <1>5, EmptySeq, ConcatEmptySeq DEF Push, NoItems
  <2>. QED
    BY <1>1, <1>5, <2>1 DEF AllIdle, Push
<1>. QED
  BY <1>2, <1>3, <1>4, <1>5 DEF QueueStep, Acquire, Release, Poll, Peek, Check, Size, Scan, Finish

\* Every step of the queue keeps: a thread with an idle sheet has no items.
LEMMA QueueStepItems ==
  ASSUME NEW Label, NEW I, QTypeOK(Label, I), QueueInv, NEW t \in Worker, QueueStep(t)
  PROVE  Items'
<1> DEFINE P(u) == /\ work_sheet[u] = 0 => NoItems(u)
                   /\ pc[u] \in IdleLabel => NoItems(u)
                   /\ pc[u] = "taken" => my_works[u] # <<>>
                   /\ pc[u] \in {"taken", "fetched"} => new_works[u] = <<>>
<1>1. \A u \in Worker : P(u)
  BY DEF QueueInv, Items
<1>2. ASSUME NEW u \in Worker \ {t} PROVE P(u)'
  <2>1. pc'[u] = pc[u] /\ work_sheet'[u] = work_sheet[u]
    BY DEF QTypeOK, QueueStep, Acquire, Release, SetIdle, Poll, Peek, Take, Check, Size, Scan,
           Finish, Push, Goto
  <2>2. my_works'[u] = my_works[u] /\ new_works'[u] = new_works[u]
    BY DEF QTypeOK, QueueStep, Acquire, Release, SetIdle, Poll, Peek, Take, Check, Size, Scan,
           Finish, Push, local
  <2>. QED
    BY <1>1, <2>1, <2>2 DEF NoItems
<1>3. P(t)'
  <2>1. CASE Take(t)
    <3>1. P(t)
      BY <1>1
    <3>2. CASE the_q = <<>>
      BY <2>1, <3>1, <3>2 DEF QTypeOK, Take, Goto, NoItems, IdleLabel
    <3>3. CASE the_q # <<>>
      <4>1. my_works'[t] = my_works[t] \o Popped(the_q, Share) /\ new_works' = new_works
        BY <2>1, <3>3 DEF QTypeOK, Take
      <4>2. Share \in 1 .. Len(the_q) /\ Len(the_q) \in Nat
        BY <3>3, ShareBounds, LenProperties DEF QTypeOK
      <4>3. Popped(the_q, Share) \in Seq(I) /\ Len(Popped(the_q, Share)) # 0
        <5>1. the_q \in Seq(I) /\ Share \in 0 .. Len(the_q) /\ Share # 0
          BY <4>2 DEF QTypeOK
        <5>. QED
          BY <5>1, PoppedSeq
      <4>4. my_works'[t] # <<>>
        BY <4>1, <4>3, ConcatProperties, LenProperties, EmptySeq DEF QTypeOK
      <4>5. pc'[t] = "taken" /\ work_sheet'[t] = 1
        BY <2>1, <3>3 DEF QTypeOK, Take, Goto, Working
      <4>6. new_works'[t] = <<>>
        BY <2>1, <3>1, <4>1 DEF Take, NoItems, IdleLabel
      <4>. QED
        BY <4>4, <4>5, <4>6 DEF IdleLabel
    <3>. QED
      BY <3>2, <3>3
  <2>2. CASE ~Take(t)
    <3>1. my_works'[t] = my_works[t] /\ new_works'[t] = new_works[t]
      BY <2>2 DEF QueueStep, Acquire, Release, SetIdle, Poll, Peek, Check, Size, Scan, Finish, Push, local
    <3>2. work_sheet'[t] = 0 => work_sheet[t] = 0 \/ pc[t] = "set_idle"
      BY <2>2 DEF QueueStep, Acquire, Release, SetIdle, Poll, Peek, Check, Size, Scan, Finish, Push
    <3>3. pc'[t] \in IdleLabel => pc[t] \in IdleLabel
      BY <2>2, LockLabels DEF QTypeOK, QueueStep, Acquire, Release, SetIdle, Poll, Peek, Check, Size, Scan,
         Finish, Push, Goto, IdleLabel
    <3>4. pc'[t] # "taken" /\ (pc'[t] = "fetched" => pc[t] \in {"taken", "poll"})
      BY <2>2, LockLabels DEF QTypeOK, QueueStep, Acquire, Release, SetIdle, Poll, Peek, Check, Size, Scan,
         Finish, Push, Goto
    <3>. QED
      BY <1>1, <3>1, <3>2, <3>3, <3>4 DEF NoItems, IdleLabel
  <2>. QED
    BY <2>1, <2>2
<1>4. ASSUME NEW u \in Worker, pc'[u] = "fetched", my_works'[u] = <<>>
      PROVE  all_finished'
  <2>1. CASE pc[u] = "fetched"
    <3>0. u # t
      BY <2>1, LockLabels DEF QueueStep, Acquire, Release, SetIdle, Poll, Peek, Take, Check, Size, Scan,
         Finish, Push
    <3>1. my_works'[u] = my_works[u]
      BY <3>0 DEF QTypeOK, QueueStep, Acquire, Release, SetIdle, Poll, Peek, Take, Check, Size,
         Scan, Finish, Push, local
    <3>2. all_finished
      BY <1>4, <2>1, <3>1, Zenon DEF QueueInv, Items
    <3>3. all_finished' = all_finished \/ all_finished' = (all_finished \/ b)
      BY Zenon DEF QueueStep, Acquire, Release, SetIdle, Poll, Peek, Take, Check, Size,
         Scan, Finish, Finished, Push
    <3>. QED
      BY <3>2, <3>3, Zenon
  <2>2. CASE pc[u] # "fetched"
    <3>1. u = t
      BY <1>4, <2>2 DEF QTypeOK, QueueStep, Acquire, Release, SetIdle, Poll, Peek, Take, Check, Size, Scan,
         Finish, Push, Goto
    <3>2. ~(Release(t) /\ pc[t] = "taken")
      BY <1>1, <1>4, <3>1 DEF Release, local
    <3>3. Poll(t)
      BY <1>4, <3>1, <3>2, LockLabels DEF QTypeOK, QueueStep, Acquire, Release, SetIdle, Poll, Peek, Take,
         Check, Size, Scan, Finish, Push, Goto
    <3>4. ~Goto(t, "peek")
      BY <1>4, <3>1 DEF QTypeOK, Goto
    <3>. QED
      BY <3>3, <3>4, Zenon DEF Poll
  <2>. QED
    BY <2>1, <2>2
<1>. QED
  BY <1>2, <1>3, <1>4 DEF Items

\* ... only thread 0 checks for the end.
LEMMA QueueStepChecks ==
  ASSUME NEW Label, NEW I, QTypeOK(Label, I), QueueInv, NEW t \in Worker, QueueStep(t)
  PROVE  OneChecks'
<1>1. \A u \in Worker \ {t} : pc'[u] = pc[u]
  BY DEF QTypeOK, QueueStep, Acquire, Release, SetIdle, Poll, Peek, Take, Check, Size, Scan,
         Finish, Push, Goto
<1>2. ASSUME pc'[t] \in CheckLabel PROVE pc[t] \in CheckLabel \/ t = 0
  BY <1>2, LockLabels DEF QTypeOK, QueueStep, Acquire, Release, SetIdle, Poll, Peek, Take, Check,
         Size, Scan, Finish, Push, Goto, CheckLabel
<1>. QED
  BY <1>1, <1>2 DEF QueueInv, OneChecks

\* ... q_lock is taken exactly while one thread is between acquire and release.
LEMMA QueueStepLock ==
  ASSUME NEW Label, NEW I, QTypeOK(Label, I), QueueInv, NEW t \in Worker, QueueStep(t)
  PROVE  LockHeld'
<1> DEFINE InLock(l) == l \in {"push", "take", "size", "scan", "pushed", "taken", "none", "checked"}
<1>1. \A u \in Worker : (Locked(u) <=> InLock(pc[u])) /\ (Locked(u)' <=> InLock(pc'[u]))
  BY LockLabels DEF Locked
<1>2. \A u \in Worker \ {t} : pc'[u] = pc[u]
  BY DEF QTypeOK, QueueStep, Acquire, Release, SetIdle, Poll, Peek, Take, Check, Size, Scan,
         Finish, Push, Goto
<1>3. (\A u \in Worker : InLock(pc[u]) => q_lock = 1)
        /\ \A u, v \in Worker : InLock(pc[u]) /\ InLock(pc[v]) => u = v
  BY <1>1 DEF QueueInv, LockHeld
<1>4. CASE Acquire(t)
  <2>1. q_lock = 0 /\ q_lock' = 1
    BY <1>4 DEF Acquire
  <2>. QED
    BY <1>1, <1>2, <1>3, <2>1 DEF LockHeld
<1>5. CASE Release(t)
  <2>1. InLock(pc[t]) /\ ~InLock(pc'[t])
    BY <1>5, LockLabels DEF QTypeOK, Release, Goto
  <2>. QED
    BY <1>1, <1>2, <1>3, <2>1 DEF LockHeld
<1>6. CASE ~Acquire(t) /\ ~Release(t)
  <2>1. q_lock' = q_lock /\ (InLock(pc'[t]) => InLock(pc[t]))
    BY <1>6 DEF QTypeOK, QueueStep, SetIdle, Poll, Peek, Take, Check, Size, Scan, Finish, Push, Goto
  <2>. QED
    BY <1>1, <1>2, <1>3, <2>1 DEF LockHeld
<1>. QED
  BY <1>4, <1>5, <1>6

\* ... work_queue_empty changes together with the_q.
LEMMA QueueStepFlag ==
  ASSUME NEW Label, NEW I, QTypeOK(Label, I), QueueInv, NEW t \in Worker, QueueStep(t)
  PROVE  Flag'
<1>1. work_queue_empty <=> the_q = <<>>
  BY Zenon DEF QueueInv, Flag
<1>2. CASE UNCHANGED <<the_q, work_queue_empty>>
  <2>1. the_q' = the_q /\ work_queue_empty' = work_queue_empty
    BY <1>2
  <2>. QED
    BY <1>1, <2>1, Zenon DEF Flag
<1>3. CASE Take(t)
  <2>1. CASE the_q = <<>>
    <3>1. work_queue_empty' = TRUE /\ the_q' = <<>>
      BY <1>3, <2>1 DEF Take
    <3>. QED
      BY <3>1, Zenon DEF Flag
  <2>2. CASE the_q # <<>>
    <3>1. work_queue_empty' = (work_queue_empty \/ Emptied(Share)) /\ the_q' = Unpopped(the_q, Share)
      BY <1>3, <2>2, Zenon DEF Take
    <3>2. the_q' = <<>> <=> Emptied(Share)
      <4>1. the_q \in Seq(I) /\ Share \in 0 .. Len(the_q)
        BY <2>2, ShareBounds DEF QTypeOK
      <4>. QED
        BY <3>1, <4>1, UnpoppedEmpty DEF Emptied
    <3>. QED
      BY <1>1, <2>2, <3>1, <3>2, Zenon DEF Flag
  <2>. QED
    BY <2>1, <2>2
<1>4. CASE Size(t)
  <2>1. CASE the_q = <<>>
    <3>1. UNCHANGED <<the_q, work_queue_empty>>
      BY <1>4, <2>1, Zenon DEF Size
    <3>. QED
      BY <1>2, <3>1
  <2>2. CASE the_q # <<>>
    <3>1. work_queue_empty' = FALSE /\ the_q' = the_q
      BY <1>4, <2>2 DEF Size
    <3>. QED
      BY <2>2, <3>1, Zenon DEF Flag
  <2>. QED
    BY <2>1, <2>2
<1>5. CASE Push(t)
  <2>1. the_q' = <<>> <=> the_q = <<>> /\ new_works[t] = <<>>
    BY <1>5, ConcatEqualIffEmpty DEF QTypeOK, Push
  <2>2. work_queue_empty' = (work_queue_empty /\ new_works[t] = <<>>)
    BY <1>5, Zenon DEF Push
  <2>. QED
    BY <1>1, <2>1, <2>2, Zenon DEF Flag
<1>. QED
  BY <1>2, <1>3, <1>4, <1>5 DEF QueueStep, Acquire, Release, SetIdle, Poll, Peek, Check, Scan, Finish

\* ... thread 0 says that all is finished only when all sheets are idle and the_q is empty.
LEMMA QueueStepEnds ==
  ASSUME NEW Label, NEW I, QTypeOK(Label, I), QueueInv, NEW t \in Worker, QueueStep(t)
  PROVE  Ends'
<1> DEFINE SeenIdle == pc[0] \in {"checked", "finish"} /\ b
           Scanning == pc[0] = "scan"
<1>1. t # 0 => b' = b /\ scan' = scan /\ all_finished' = all_finished /\ pc'[0] = pc[0]
  <2>1. t # 0 => ~Check(t) /\ ~Size(t) /\ ~Scan(t) /\ ~Finish(t)
    BY DEF QueueInv, OneChecks, CheckLabel, Check, Size, Scan, Finish
  <2>2. t # 0 => UNCHANGED <<b, scan, all_finished>>
    BY <2>1, Zenon DEF QueueStep, Acquire, Release, SetIdle, Poll, Peek, Take, Push
  <2>3. t # 0 => pc'[0] = pc[0]
    BY <2>1, Thread0 DEF QTypeOK, QueueStep, Acquire, Release, SetIdle, Poll, Peek, Take, Push, Goto
  <2>. QED
    BY <2>2, <2>3, Zenon
<1>2. all_finished => AllIdle(NWorkers)
  BY Zenon DEF QueueInv, Ends
<1>3. Scanning => b /\ AllIdle(scan)
  BY Zenon DEF QueueInv, Ends
<1>4. SeenIdle => AllIdle(NWorkers)
  BY Zenon DEF QueueInv, Ends
<1>5. AllIdle(NWorkers) => AllIdle(NWorkers)'
  BY StaysIdle
<1>6. ASSUME t # 0, Scanning PROVE AllIdle(scan)'
  <2>1. ~Locked(t)
    BY <1>6, Thread0, LockedLabels DEF QueueInv, LockHeld
  <2>2. the_q' = the_q
    BY <2>1, LockedLabels DEF QueueStep, Acquire, Release, SetIdle, Poll, Peek, Take, Check, Size,
       Scan, Finish, Push
  <2>3. work_sheet' = work_sheet \/ work_sheet' = [work_sheet EXCEPT ![t] = 0]
    BY <2>1, LockedLabels DEF QueueStep, Acquire, Release, SetIdle, Poll, Peek, Take, Check, Size,
       Scan, Finish, Push
  <2>4. scan' = scan
    BY <1>1, <1>6, Zenon
  <2>5. AllIdle(scan)
    BY <1>3, <1>6, Zenon
  <2>. QED
    BY <2>2, <2>3, <2>4, <2>5 DEF AllIdle, QTypeOK
<1>7. CASE t # 0
  <2>1. all_finished' = all_finished /\ b' = b /\ pc'[0] = pc[0]
    BY <1>1, <1>7, Zenon
  <2>2. all_finished' => AllIdle(NWorkers)'
    BY <1>2, <1>5, <2>1, Zenon
  <2>3. pc'[0] = "scan" => b' /\ AllIdle(scan)'
    BY <1>3, <1>6, <1>7, <2>1, Zenon
  <2>4. pc'[0] \in {"checked", "finish"} /\ b' => AllIdle(NWorkers)'
    BY <1>4, <1>5, <2>1, Zenon
  <2>. QED
    BY <2>2, <2>3, <2>4, Zenon DEF Ends
<1>8. CASE t = 0 /\ Size(t)
  <2>1. all_finished' = all_finished
    BY <1>8, Zenon DEF Size
  <2>2. ASSUME pc'[0] = "scan" PROVE b' /\ AllIdle(scan)'
    <3>1. ~Goto(t, "checked")
      BY <1>8, <2>2 DEF QTypeOK, Goto
    <3>2. the_q = <<>> /\ b' = TRUE /\ scan' = 0 /\ the_q' = the_q
      BY <1>8, <3>1, Zenon DEF Size
    <3>3. AllIdle(scan)'
      BY <3>2 DEF AllIdle, Worker
    <3>. QED
      BY <3>2, <3>3, Zenon
  <2>3. ASSUME pc'[0] \in {"checked", "finish"} PROVE ~b'
    <3>1. ~Goto(t, "scan")
      BY <1>8, <2>3 DEF QTypeOK, Goto
    <3>2. b' = FALSE
      BY <1>8, <3>1, Zenon DEF Size
    <3>. QED
      BY <3>2, Zenon
  <2>. QED
    BY <1>2, <1>5, <2>1, <2>2, <2>3, Zenon DEF Ends
<1>9. CASE t = 0 /\ Scan(t)
  <2>1. all_finished' = all_finished
    BY <1>9, Zenon DEF Scan
  <2>2. b /\ AllIdle(scan)
    <3>1. Scanning
      BY <1>9 DEF Scan
    <3>. QED
      BY <1>3, <3>1, Zenon
  <2>3. UNCHANGED <<the_q, work_sheet>>
    BY <1>9, Zenon DEF Scan
  <2>4. CASE scan = NWorkers /\ Goto(t, "checked") /\ UNCHANGED <<scan, b>>
    <3>1. AllIdle(NWorkers)'
      BY <1>5, <2>2, <2>4, Zenon
    <3>2. pc'[0] # "scan"
      BY <1>9, <2>4 DEF QTypeOK, Goto
    <3>. QED
      BY <3>1, <3>2, Zenon DEF Ends
  <2>5. CASE b' = FALSE /\ Goto(t, "checked")
    <3>1. pc'[0] # "scan"
      BY <1>9, <2>5 DEF QTypeOK, Goto
    <3>2. ~b'
      BY <2>5, Zenon
    <3>. QED
      BY <1>2, <1>5, <2>1, <3>1, <3>2, Zenon DEF Ends
  <2>6. CASE work_sheet[scan] # 1 /\ scan' = scan + 1 /\ scan < NWorkers /\ UNCHANGED <<b, pc>>
    <3>1. pc'[0] = "scan" /\ b' = b
      BY <1>9, <2>6, Zenon DEF Scan
    <3>2. scan \in Worker /\ scan \in Int
      BY <2>6, NWorkersAssumption DEF QTypeOK, Worker
    <3>3. work_sheet[scan] = 0
      BY <2>6, <3>2 DEF QTypeOK
    <3>4. \A i \in Worker : i < scan + 1 => i < scan \/ i = scan
      BY <3>2 DEF Worker
    <3>5. AllIdle(scan)'
      BY <2>2, <2>3, <2>6, <3>3, <3>4 DEF AllIdle
    <3>6. pc'[0] \notin {"checked", "finish"}
      BY <3>1
    <3>. QED
      BY <1>2, <1>5, <2>1, <2>2, <3>1, <3>5, <3>6, Zenon DEF Ends
  <2>. QED
    BY <1>9, <2>4, <2>5, <2>6, Zenon DEF Scan
<1>10. CASE t = 0 /\ Finish(t)
  <2>1. all_finished' = (all_finished \/ b) /\ b' = b
    BY <1>10, Zenon DEF Finish, Finished
  <2>2. pc[0] \in {"checked", "finish"} /\ pc'[0] = "poll"
    BY <1>10 DEF QTypeOK, Finish, Goto
  <2>3. pc'[0] # "scan" /\ pc'[0] \notin {"checked", "finish"}
    BY <2>2
  <2>. QED
    BY <1>2, <1>4, <1>5, <2>1, <2>2, <2>3, Zenon DEF Ends
<1>11. CASE t = 0 /\ ~Size(t) /\ ~Scan(t) /\ ~Finish(t)
  <2>1. all_finished' = all_finished /\ b' = b
    BY <1>11, Zenon DEF QueueStep, Acquire, Release, SetIdle, Poll, Peek, Take, Check, Push
  <2>2. pc'[0] # "scan"
    BY <1>11, LockLabels DEF QTypeOK, QueueStep, Acquire, Release, SetIdle, Poll, Peek, Take, Check,
       Push, Goto
  <2>3. pc'[0] \in {"checked", "finish"} => pc[0] \in {"checked", "finish"}
    BY <1>11, LockLabels DEF QTypeOK, QueueStep, Acquire, Release, SetIdle, Poll, Peek, Take, Check,
       Push, Goto
  <2>. QED
    BY <1>2, <1>4, <1>5, <2>1, <2>2, <2>3, Zenon DEF Ends
<1>. QED
  BY <1>7, <1>8, <1>9, <1>10, <1>11

\* All parts together.
LEMMA QueueStepInv ==
  ASSUME NEW Label, NEW I, QTypeOK(Label, I), QueueInv, NEW t \in Worker, QueueStep(t)
  PROVE  QueueInv'
BY QueueStepItems, QueueStepChecks, QueueStepLock, QueueStepFlag, QueueStepEnds DEF QueueInv

\* A step of the caller between two calls, which changes its own items only.
LEMMA CallerStepInv ==
  ASSUME NEW Label, NEW I, QTypeOK(Label, I), QueueInv, NEW t \in Worker,
         pc[t] \in {"process", "put", "fetched"},
         NEW l \in {"lock_put", "set_idle", "process", "done"}, Goto(t, l),
         UNCHANGED <<q_lock, the_q, work_sheet, all_finished, work_queue_empty, scan, b>>,
         \A u \in Worker \ {t} : my_works'[u] = my_works[u] /\ new_works'[u] = new_works[u],
         work_sheet[t] = 0 => NoItems(t)',
         l = "set_idle" => NoItems(t)'
  PROVE  QueueInv'
<1>1. pc'[t] = l /\ \A u \in Worker \ {t} : pc'[u] = pc[u]
  BY DEF QTypeOK, Goto
<1>2. Items'
  <2>1. \A u \in Worker \ {t} : NoItems(u)' <=> NoItems(u)
    BY DEF NoItems
  <2>2. all_finished' = all_finished
    OBVIOUS
  <2>3. ASSUME NEW u \in Worker
        PROVE  /\ work_sheet'[u] = 0 => NoItems(u)'
               /\ pc'[u] \in IdleLabel => NoItems(u)'
               /\ pc'[u] = "taken" => my_works'[u] # <<>>
               /\ pc'[u] \in {"taken", "fetched"} => new_works'[u] = <<>>
    <3>1. CASE u = t
      BY <1>1, <3>1 DEF IdleLabel
    <3>2. CASE u # t
      BY <1>1, <2>1, <3>2 DEF QueueInv, Items
    <3>. QED
      BY <3>1, <3>2
  <2>4. ASSUME NEW u \in Worker, pc'[u] = "fetched", my_works'[u] = <<>>
        PROVE  all_finished'
    <3>1. pc[u] = "fetched" /\ my_works[u] = <<>>
      BY <1>1, <2>4
    <3>2. pc[u] = "fetched" /\ my_works[u] = <<>> => all_finished
      BY <2>4, Zenon DEF QueueInv, Items
    <3>. QED
      BY <2>2, <3>1, <3>2
  <2>. QED
    BY <2>3, <2>4 DEF Items
<1>3. OneChecks'
  BY <1>1 DEF QueueInv, OneChecks, CheckLabel
<1>4. LockHeld'
  <2>1. \A u \in Worker : Locked(u)' => Locked(u)
    BY <1>1, LockLabels DEF Locked
  <2>. QED
    BY <2>1 DEF QueueInv, LockHeld
<1>5. Flag'
  BY Zenon DEF QueueInv, Flag
<1>6. Ends'
  <2>1. pc'[0] \in {"scan", "checked", "finish"} => pc'[0] = pc[0]
    BY <1>1, Thread0
  <2>2. (AllIdle(NWorkers)' <=> AllIdle(NWorkers)) /\ (AllIdle(scan)' <=> AllIdle(scan))
    BY DEF AllIdle
  <2>3. all_finished' = all_finished /\ b' = b /\ scan' = scan
    OBVIOUS
  <2>4. pc'[0] = "scan" => pc[0] = "scan"
    BY <2>1
  <2>5. pc'[0] \in {"checked", "finish"} => pc[0] \in {"checked", "finish"}
    BY <2>1
  <2>6. Ends
    BY DEF QueueInv
  <2>7. all_finished' => AllIdle(NWorkers)'
    BY <2>2, <2>3, <2>6 DEF Ends
  <2>8. pc'[0] = "scan" => b' /\ AllIdle(scan)'
    BY <2>2, <2>3, <2>4, <2>6 DEF Ends
  <2>9. pc'[0] \in {"checked", "finish"} /\ b' => AllIdle(NWorkers)'
    BY <2>2, <2>3, <2>5, <2>6 DEF Ends
  <2>. QED
    BY <2>7, <2>8, <2>9, Zenon DEF Ends
<1>. QED
  BY <1>2, <1>3, <1>4, <1>5, <1>6 DEF QueueInv

\* A step that leaves the queue alone keeps all of it.
LEMMA QueueStutter ==
  ASSUME NEW Label, NEW I, QTypeOK(Label, I), QueueInv, UNCHANGED queueVars
  PROVE  QTypeOK(Label, I)' /\ QueueInv'
<1>1. UNCHANGED <<q_lock, the_q, work_sheet, all_finished, work_queue_empty, my_works, new_works, pc, scan, b>>
  BY DEF queueVars, local
<1>2. QTypeOK(Label, I)'
  BY <1>1 DEF QTypeOK
<1>3. Items'
  BY <1>1, Zenon DEF QueueInv, Items, NoItems
<1>4. OneChecks' /\ LockHeld'
  BY <1>1 DEF QueueInv, OneChecks, LockHeld, Locked, Outside
<1>5. Flag' /\ Ends'
  BY <1>1, Zenon DEF QueueInv, Flag, Ends, AllIdle
<1>. QED
  BY <1>2, <1>3, <1>4, <1>5 DEF QueueInv

-----------------------------------------------------------------------------
(* The callers of the queue                                                *)

CallerLabel == {"trim", "process", "done"}

\* While the nodes are trimmed nothing of the queue has begun, and the counts of
\* the passes account for the nodes that are gone.
Trimmed ==
  Trimming =>
    /\ \A t \in Worker : pc[t] = "trim" /\ NoItems(t) /\ work_sheet[t] = 0
    /\ the_q = <<>> /\ ~all_finished
    /\ trim.todo \subseteq Unassigned
    /\ trim.total + trim.count + Cardinality(Unassigned) = Cardinality(Node)

\* A thread processes an item it has, and returns only when all is idle.
Called ==
  \A t \in Worker :
    /\ pc[t] = "process" => my_works[t] # <<>> /\ new_works[t] = <<>>
    /\ pc[t] = "done" => AllIdle(NWorkers)

Inv == TypeOK /\ QueueInv /\ Trimmed /\ Called

Trims == [todo : SUBSET Node, count : 0 .. Cardinality(Node),
          total : 0 .. Cardinality(Node), compact : BOOLEAN]

\* The nodes without an SCC can be counted.
LEMMA UnassignedFinite ==
  /\ IsFiniteSet(Unassigned)
  /\ Cardinality(Unassigned) \in Nat
  /\ Cardinality(Node) \in Nat
  /\ Cardinality(Unassigned) = 0 <=> Unassigned = {}
<1>1. Unassigned \subseteq Node
  BY DEF Unassigned
<1>2. IsFiniteSet(Unassigned)
  BY <1>1, NodeAssumption, FS_Subset
<1>. QED
  BY <1>2, NodeAssumption, FS_CardinalityType, FS_EmptySet

\* A vector of one item.
LEMMA OneItemSeq ==
  ASSUME NEW I, NEW x \in I
  PROVE  <<x>> \in Seq(I) /\ Len(<<x>>) = 1 /\ <<x>>[1] = x
OBVIOUS

\* The inductive invariant holds initially.
LEMMA InitInv == Init => Inv
<1> SUFFICES ASSUME Init PROVE Inv
  OBVIOUS
<1>1. TypeOK
  <2>1. trim \in Trims
    BY UnassignedFinite DEF Init, Trims
  <2>2. QTypeOK(CallerLabel, Item)
    <3>1. <<>> \in Seq(Item)
      BY EmptySeq
    <3>2. /\ the_q \in Seq(Item) /\ my_works \in [Worker -> Seq(Item)]
          /\ new_works \in [Worker -> Seq(Item)]
      BY <3>1 DEF Init, QInit
    <3>3. /\ q_lock \in {0, 1} /\ work_sheet \in [Worker -> {0, 1}]
          /\ all_finished \in BOOLEAN /\ work_queue_empty \in BOOLEAN /\ b \in BOOLEAN
      BY DEF Init, QInit
    <3>4. pc \in [Worker -> QueueLabel \cup CallerLabel] /\ scan \in 0 .. NWorkers
      BY NWorkersAssumption DEF Init, QInit, CallerLabel
    <3>. QED
      BY <3>2, <3>3, <3>4 DEF QTypeOK
  <2>. QED
    BY <2>1, <2>2 DEF Init, TypeOK, Trims, CallerLabel
<1>2. Unassigned = Node
  BY DEF Init, Unassigned
<1>3. Trimmed
  BY <1>2, UnassignedFinite DEF Init, QInit, Trimmed, NoItems
<1>4. Called
  BY DEF Init, QInit, Called
<1>5. QueueInv
  <2>1. \A t \in Worker : pc[t] = "trim" /\ NoItems(t)
    BY DEF Init, QInit, NoItems
  <2>2. Items
    BY <2>1 DEF Items
  <2>3. OneChecks /\ LockHeld
    BY <2>1, LockedLabels DEF OneChecks, CheckLabel, LockHeld
  <2>4. Flag /\ Ends
    BY <2>1, Thread0 DEF Init, QInit, Flag, Ends
  <2>. QED
    BY <2>2, <2>3, <2>4 DEF QueueInv
<1>. QED
  BY <1>1, <1>3, <1>4, <1>5 DEF Inv

-----------------------------------------------------------------------------
(* Trimming                                                                *)

\* Trimming a node keeps it: what is counted is what is gone.
LEMMA TrimNodeInv == Inv /\ TrimNode => Inv'
<1> SUFFICES ASSUME Inv, TrimNode PROVE Inv'
  OBVIOUS
<1> DEFINE Counts == trim.total + trim.count + Cardinality(Unassigned) = Cardinality(Node)
<1>1. /\ trim \in Trims /\ G_SCC \in [Node -> Node \cup {NIL}]
      /\ trim.todo \subseteq Unassigned /\ Counts /\ Trimming
  BY DEF Inv, TypeOK, Trims, Trimmed, TrimNode
<1>2. PICK v \in trim.todo :
        \/ /\ G_SCC' = [G_SCC EXCEPT ![v] = v]
           /\ trim' = [trim EXCEPT !.todo = @ \ {v}, !.count = @ + 1]
        \/ /\ trim' = [trim EXCEPT !.todo = @ \ {v}]
           /\ UNCHANGED G_SCC
  BY Zenon DEF TrimNode
<1>3. UNCHANGED queueVars /\ E' = E
  BY DEF TrimNode
<1>4. QTypeOK(CallerLabel, Item)' /\ QueueInv'
  BY <1>3, QueueStutter DEF Inv, TypeOK, CallerLabel
<1>5. v \in Node /\ v \in Unassigned
  BY <1>1 DEF Trims
<1>6. /\ G_SCC' \in [Node -> Node \cup {NIL}] /\ trim' \in Trims
      /\ trim'.todo \subseteq Unassigned' /\ Counts'
  <2>1. CASE G_SCC' = [G_SCC EXCEPT ![v] = v] /\ trim' = [trim EXCEPT !.todo = @ \ {v}, !.count = @ + 1]
    <3>1. Unassigned' = Unassigned \ {v}
      BY <1>1, <1>5, <2>1, NilAssumption DEF Unassigned
    <3>2. Cardinality(Unassigned') = Cardinality(Unassigned) - 1
      BY <1>5, <3>1, UnassignedFinite, FS_RemoveElement
    <3>3. Cardinality(Unassigned') \in Nat
      BY <3>1, UnassignedFinite, FS_RemoveElement, FS_CardinalityType
    <3>4. /\ trim'.todo = trim.todo \ {v} /\ trim'.count = trim.count + 1
          /\ trim'.total = trim.total /\ trim'.compact = trim.compact
      BY <1>1, <2>1 DEF Trims
    <3>5. trim.total \in Nat /\ trim.count \in Nat /\ Cardinality(Unassigned) \in Nat
      BY <1>1, UnassignedFinite DEF Trims
    <3>6. Counts' /\ trim.count + 1 \in 0 .. Cardinality(Node)
      BY <1>1, <3>2, <3>3, <3>4, <3>5, UnassignedFinite
    <3>7. trim' \in Trims
      BY <1>1, <2>1, <3>6 DEF Trims
    <3>. QED
      BY <1>1, <1>5, <2>1, <3>1, <3>4, <3>6, <3>7
  <2>2. CASE trim' = [trim EXCEPT !.todo = @ \ {v}] /\ UNCHANGED G_SCC
    <3>1. Unassigned' = Unassigned
      BY <2>2 DEF Unassigned
    <3>2. /\ trim'.todo = trim.todo \ {v} /\ trim'.count = trim.count
          /\ trim'.total = trim.total /\ trim' \in Trims
      BY <1>1, <2>2 DEF Trims
    <3>. QED
      BY <1>1, <2>2, <3>1, <3>2
  <2>. QED
    BY <1>2, <2>1, <2>2
<1>7. UNCHANGED <<pc, the_q, all_finished, my_works, new_works, work_sheet>>
  BY <1>3 DEF queueVars, local
<1>8. TypeOK'
  BY <1>3, <1>4, <1>6 DEF Inv, TypeOK, Trims, CallerLabel
<1>9. Trimmed' /\ Called'
  <2>1. \A t \in Worker : pc'[t] = "trim" /\ NoItems(t)' /\ work_sheet'[t] = 0
    BY <1>1, <1>7 DEF Inv, Trimmed, NoItems
  <2>2. the_q' = <<>> /\ ~all_finished'
    BY <1>1, <1>7, Zenon DEF Inv, Trimmed
  <2>. QED
    BY <1>6, <2>1, <2>2 DEF Trimmed, Called
<1>. QED
  BY <1>4, <1>8, <1>9 DEF Inv

\* Starting another pass keeps it.
LEMMA NextPassInv == Inv /\ NextPass => Inv'
<1> SUFFICES ASSUME Inv, NextPass PROVE Inv'
  OBVIOUS
<1>1. /\ trim \in Trims /\ Trimming
      /\ trim.total + trim.count + Cardinality(Unassigned) = Cardinality(Node)
  BY DEF Inv, TypeOK, Trims, Trimmed, NextPass
<1>2. UNCHANGED queueVars /\ E' = E /\ G_SCC' = G_SCC
  BY DEF NextPass
<1>3. QTypeOK(CallerLabel, Item)' /\ QueueInv'
  BY <1>2, QueueStutter DEF Inv, TypeOK, CallerLabel
<1>4. Unassigned' = Unassigned
  BY <1>2 DEF Unassigned
<1>5. PICK c \in BOOLEAN :
        trim' = [todo |-> Unassigned, count |-> 0, total |-> trim.total + trim.count, compact |-> c]
  <2>1. (trim.compact \/ Compacts) \in BOOLEAN
    OBVIOUS
  <2>. QED
    BY <2>1, Zenon DEF NextPass
<1>6. /\ trim' \in Trims /\ trim'.todo \subseteq Unassigned'
      /\ trim'.total + trim'.count + Cardinality(Unassigned') = Cardinality(Node)
  <2>1. trim.total \in Nat /\ trim.count \in Nat
    BY <1>1, UnassignedFinite DEF Trims
  <2>2. trim.total + trim.count \in 0 .. Cardinality(Node)
    BY <1>1, <2>1, UnassignedFinite
  <2>3. Unassigned \subseteq Node
    BY DEF Unassigned
  <2>. QED
    BY <1>1, <1>4, <1>5, <2>1, <2>2, <2>3, UnassignedFinite DEF Trims
<1>7. UNCHANGED <<pc, the_q, all_finished, my_works, new_works, work_sheet>>
  BY <1>2 DEF queueVars, local
<1>8. TypeOK'
  BY <1>2, <1>3, <1>6 DEF Inv, TypeOK, Trims, CallerLabel
<1>9. Trimmed' /\ Called'
  <2>1. \A t \in Worker : pc'[t] = "trim" /\ NoItems(t)' /\ work_sheet'[t] = 0
    BY <1>1, <1>7 DEF Inv, Trimmed, NoItems
  <2>2. the_q' = <<>> /\ ~all_finished'
    BY <1>1, <1>7, Zenon DEF Inv, Trimmed
  <2>. QED
    BY <1>6, <2>1, <2>2 DEF Trimmed, Called
<1>. QED
  BY <1>3, <1>8, <1>9 DEF Inv

\* Starting the workers keeps it: the count is 0 exactly if no node is left.
LEMMA StartWorkersInv == Inv /\ StartWorkers => Inv'
<1> SUFFICES ASSUME Inv, StartWorkers PROVE Inv'
  OBVIOUS
<1>1. /\ trim \in Trims /\ Trimming /\ the_q = <<>> /\ ~all_finished
      /\ trim.total + trim.count + Cardinality(Unassigned) = Cardinality(Node)
  BY DEF Inv, TypeOK, Trims, Trimmed, StartWorkers
<1>2. \A t \in Worker : pc[t] = "trim" /\ NoItems(t) /\ work_sheet[t] = 0
  BY <1>1 DEF Inv, Trimmed
<1>3. UNCHANGED <<q_lock, work_sheet, all_finished, my_works, new_works, scan, b, E, G_SCC>>
  BY DEF StartWorkers, local
<1>4. Rest = Cardinality(Unassigned)
  BY <1>1, UnassignedFinite DEF Rest, Trims
<1>5. \/ /\ Unassigned = {}
         /\ pc' = [t \in Worker |-> "done"]
         /\ the_q' = the_q /\ work_queue_empty' = work_queue_empty
      \/ /\ Unassigned # {}
         /\ the_q' = <<Unassigned>>
         /\ work_queue_empty' = FALSE
         /\ pc' = [t \in Worker |-> "set_idle"]
  BY <1>4, UnassignedFinite DEF StartWorkers
<1>6. trim' \in Trims
  <2>1. trim.total \in Nat /\ trim.count \in Nat
    BY <1>1, UnassignedFinite DEF Trims
  <2>2. trim.total + trim.count \in 0 .. Cardinality(Node)
    BY <1>1, <2>1, UnassignedFinite
  <2>3. trim' = [trim EXCEPT !.count = 0, !.total = trim.total + trim.count]
    BY DEF StartWorkers
  <2>4. 0 \in 0 .. Cardinality(Node)
    BY UnassignedFinite
  <2>. QED
    BY <1>1, <2>2, <2>3, <2>4 DEF Trims
<1>7. TypeOK'
  <2>1. the_q' \in Seq(Item)
    <3>1. CASE the_q' = the_q
      BY <3>1 DEF Inv, TypeOK, QTypeOK
    <3>2. CASE Unassigned # {} /\ the_q' = <<Unassigned>>
      <4>1. Unassigned \in Item
        BY <3>2 DEF Unassigned, Item
      <4>. QED
        BY <3>2, <4>1, OneItemSeq
    <3>. QED
      BY <1>5, <3>1, <3>2
  <2>2. work_queue_empty' \in BOOLEAN
    <3>1. work_queue_empty \in BOOLEAN
      BY DEF Inv, TypeOK, QTypeOK
    <3>. QED
      BY <1>5, <3>1, Zenon
  <2>3. pc' \in [Worker -> QueueLabel \cup CallerLabel]
    BY <1>5 DEF QueueLabel, CallerLabel
  <2>4. QTypeOK(CallerLabel, Item)'
    BY <1>3, <2>1, <2>2, <2>3 DEF Inv, TypeOK, QTypeOK
  <2>. QED
    BY <1>3, <1>6, <2>4 DEF Inv, TypeOK, Trims, CallerLabel
<1>8. \A t \in Worker : pc'[t] \in {"set_idle", "done"} /\ NoItems(t)' /\ work_sheet'[t] = 0
  BY <1>2, <1>3, <1>5 DEF NoItems
<1>9. Trimmed' /\ Called'
  <2>1. ~Trimming'
    BY <1>8 DEF Trimming
  <2>2. ASSUME NEW t \in Worker, pc'[t] = "done" PROVE AllIdle(NWorkers)'
    <3>1. the_q' = <<>>
      BY <1>1, <1>5, <2>2
    <3>. QED
      BY <1>8, <3>1 DEF AllIdle
  <2>. QED
    BY <1>8, <2>1, <2>2 DEF Trimmed, Called
<1>10. QueueInv'
  <2>1. Items'
    BY <1>8 DEF Items
  <2>2. OneChecks'
    <3>1. CASE the_q' = the_q /\ pc' = [t \in Worker |-> "done"]
      BY <3>1 DEF OneChecks, CheckLabel
    <3>2. CASE pc' = [t \in Worker |-> "set_idle"]
      BY <3>2 DEF OneChecks, CheckLabel
    <3>. QED
      BY <1>5, <3>1, <3>2
  <2>3. LockHeld'
    <3>1. \A t \in Worker : ~Locked(t)'
      BY <1>8, LockLabels DEF Locked
    <3>. QED
      BY <3>1 DEF LockHeld
  <2>4. Flag'
    <3>1. <<Unassigned>> # <<>>
      OBVIOUS
    <3>2. work_queue_empty <=> the_q = <<>>
      BY Zenon DEF Inv, QueueInv, Flag
    <3>. QED
      BY <1>5, <3>1, <3>2, Zenon DEF Flag
  <2>5. Ends'
    <3>1. pc'[0] \notin {"scan", "checked", "finish"}
      BY <1>8, Thread0
    <3>2. ~all_finished'
      BY <1>1, <1>3
    <3>. QED
      BY <3>1, <3>2 DEF Ends
  <2>. QED
    BY <2>1, <2>2, <2>3, <2>4, <2>5 DEF QueueInv
<1>. QED
  BY <1>7, <1>9, <1>10 DEF Inv

-----------------------------------------------------------------------------
(* The items of a task                                                     *)

\* A vector of an item, or of none if it is empty.
LEMMA NonEmptySeq ==
  ASSUME NEW S \in SUBSET Node
  PROVE  /\ NonEmpty(S) \in Seq(Item)
         /\ S = {} => NonEmpty(S) = <<>>
         /\ S # {} => Len(NonEmpty(S)) = 1 /\ NonEmpty(S)[1] = S
<1>1. CASE S = {}
  BY <1>1, EmptySeq DEF NonEmpty
<1>2. CASE S # {}
  <2>1. S \in Item /\ NonEmpty(S) = <<S>>
    BY <1>2 DEF NonEmpty, Item
  <2>. QED
    BY <1>2, <2>1, OneItemSeq
<1>. QED
  BY <1>1, <1>2

\* The parts of a task are a vector of items.
LEMMA PartsSeq ==
  ASSUME NEW w \in SUBSET Node, NEW fw \in SUBSET Node, NEW bw \in SUBSET Node
  PROVE  Parts(w, fw, bw) \in Seq(Item)
BY NonEmptySeq, ConcatProperties DEF Parts

\* A thread keeps at most all parts.
LEMMA MovedBounds ==
  ASSUME NEW I, NEW mine \in Seq(I), NEW new \in Seq(I)
  PROVE  Moved(mine, new) \in 0 .. Len(new)
<1>1. Len(mine) \in Nat /\ Len(new) \in Nat
  BY LenProperties
<1>. QED
  BY <1>1, LocalItemsAssumption DEF Moved, LeastOf

\* What a task on item w with pivot p, m of whose parts it keeps, leaves in the two
\* vectors of its thread.
Processed(t, w, p, m) ==
  LET o    == Outcome(w, p)
      left == Unpopped(my_works[t], 1)
      mine == left \o Popped(o.parts, m)
  IN  /\ p \in w /\ w = my_works[t][Len(my_works[t])]
      /\ Len(my_works[t]) \in Nat \ {0} /\ new_works[t] = <<>>
      /\ left \in Seq(Item) /\ o.parts \in Seq(Item) /\ m \in 0 .. Len(o.parts)
      /\ G_SCC' = FB!Assign(o.scc, p)
      /\ my_works' = [my_works EXCEPT ![t] = mine]
      /\ new_works' = [new_works EXCEPT ![t] = Unpopped(o.parts, m)]
      /\ mine \in Seq(Item) /\ Unpopped(o.parts, m) \in Seq(Item)
      /\ Goto(t, IF m < Len(o.parts) THEN "lock_put" ELSE Continue(mine))

\* Every task is of this form.
LEMMA ProcessItems ==
  ASSUME Inv, NEW t \in Worker, Process(t)
  PROVE  \E w \in Item, p \in Node, m \in Nat : Processed(t, w, p, m)
<1> DEFINE w    == my_works[t][Len(my_works[t])]
           left == Unpopped(my_works[t], 1)
<1>1. my_works[t] \in Seq(Item) /\ my_works[t] # <<>> /\ new_works[t] = <<>> /\ pc[t] = "process"
  BY DEF Inv, TypeOK, QTypeOK, Called, Process
<1>2. Len(my_works[t]) \in Nat \ {0}
  BY <1>1, EmptySeq
<1>3. w \in Item
  BY <1>1, <1>2, ElementOfSeq
<1>4. left \in Seq(Item)
  BY <1>1, <1>2, UnpoppedSeq
<1>5. PICK p \in w :
        LET o    == Outcome(w, p)
            m    == Moved(left, o.parts)
            mine == left \o Popped(o.parts, m)
        IN  /\ G_SCC' = FB!Assign(o.scc, o.pivot)
            /\ my_works' = [my_works EXCEPT ![t] = mine]
            /\ new_works' = [new_works EXCEPT ![t] = Unpopped(o.parts, m)]
            /\ Goto(t, IF m < Len(o.parts) THEN "lock_put" ELSE Continue(mine))
  BY Zenon DEF Process
<1> DEFINE o == Outcome(w, p)
           m == Moved(left, o.parts)
<1>6. o.pivot = p
  BY DEF Outcome
<1>7. o.parts \in Seq(Item)
  <2>1. FB!Reachable(E, w, p) \in SUBSET Node /\ FB!Reachable(FB!Reverse(E), w, p) \in SUBSET Node
    BY <1>3 DEF FB!Reachable, Item
  <2>2. w \in SUBSET Node
    BY <1>3 DEF Item
  <2>. QED
    BY <2>1, <2>2, PartsSeq DEF Outcome
<1>8. m \in 0 .. Len(o.parts) /\ m \in Nat
  BY <1>4, <1>7, MovedBounds
<1>9. Popped(o.parts, m) \in Seq(Item) /\ Unpopped(o.parts, m) \in Seq(Item)
  BY <1>7, <1>8, PoppedSeq, UnpoppedSeq
<1>10. left \o Popped(o.parts, m) \in Seq(Item)
  BY <1>4, <1>9, ConcatProperties
<1>11. p \in Node
  BY <1>3 DEF Item
<1> HIDE DEF w, left, o, m
<1>12. /\ G_SCC' = FB!Assign(o.scc, p)
       /\ my_works' = [my_works EXCEPT ![t] = left \o Popped(o.parts, m)]
       /\ new_works' = [new_works EXCEPT ![t] = Unpopped(o.parts, m)]
       /\ Goto(t, IF m < Len(o.parts) THEN "lock_put" ELSE Continue(left \o Popped(o.parts, m)))
  BY <1>5, <1>6 DEF o, m
<1>13. Processed(t, w, p, m)
  BY <1>1, <1>2, <1>4, <1>7, <1>8, <1>9, <1>10, <1>12, Zenon DEF Processed, w, left, o
<1>. QED
  BY <1>3, <1>8, <1>11, <1>13

-----------------------------------------------------------------------------
(* The steps of the workers                                                *)

\* No worker runs while the nodes are trimmed.
LEMMA WorkersRun ==
  ASSUME Inv, NEW t \in Worker, pc[t] # "trim"
  PROVE  ~Trimming /\ \A u \in Worker : pc[u] # "trim"
BY DEF Inv, Trimmed, Trimming

\* A task keeps the inductive invariant.
LEMMA ProcessInv ==
  ASSUME Inv, NEW t \in Worker, Process(t)
  PROVE  Inv'
<1>1. PICK w \in Item, p \in Node, m \in Nat : Processed(t, w, p, m)
  BY ProcessItems
<1> DEFINE o    == Outcome(w, p)
           mine == Unpopped(my_works[t], 1) \o Popped(o.parts, m)
           rest == Unpopped(o.parts, m)
           l    == IF m < Len(o.parts) THEN "lock_put" ELSE Continue(mine)
<1>2. /\ G_SCC' = FB!Assign(o.scc, p)
      /\ my_works' = [my_works EXCEPT ![t] = mine] /\ mine \in Seq(Item)
      /\ new_works' = [new_works EXCEPT ![t] = rest] /\ rest \in Seq(Item)
      /\ o.parts \in Seq(Item) /\ m \in 0 .. Len(o.parts) /\ Goto(t, l)
  BY <1>1 DEF Processed
<1>3. /\ l \in {"lock_put", "set_idle", "process"}
      /\ l = "set_idle" => mine = <<>> /\ rest = <<>>
      /\ l = "process" => mine # <<>> /\ rest = <<>>
  <2>1. m \in Nat /\ Len(o.parts) \in Nat /\ m <= Len(o.parts)
    BY <1>2, LenProperties
  <2>2. ~(m < Len(o.parts)) => rest = <<>>
    BY <1>2, <2>1, UnpoppedEmpty
  <2>. QED
    BY <2>2 DEF Continue
<1> HIDE DEF o, mine, rest, l
<1>4. /\ UNCHANGED <<q_lock, the_q, work_sheet, all_finished, work_queue_empty, scan, b>>
      /\ UNCHANGED <<E, trim>> /\ pc[t] = "process"
  BY DEF Process
<1>5. QTypeOK(CallerLabel, Item) /\ QueueInv
  BY DEF Inv, TypeOK, CallerLabel
<1>6. /\ my_works'[t] = mine /\ new_works'[t] = rest /\ pc'[t] = l
      /\ \A u \in Worker \ {t} : my_works'[u] = my_works[u] /\ new_works'[u] = new_works[u] /\ pc'[u] = pc[u]
  BY <1>2, <1>5 DEF QTypeOK, Goto
<1>7. my_works[t] # <<>>
  BY <1>4 DEF Inv, Called
<1>8. work_sheet[t] # 0
  BY <1>7 DEF Inv, QueueInv, Items, NoItems
<1>9. QueueInv'
  BY <1>2, <1>3, <1>4, <1>5, <1>6, <1>8, CallerStepInv DEF NoItems
<1>10. TypeOK'
  <2>1. G_SCC' \in [Node -> Node \cup {NIL}]
    BY <1>2 DEF FB!Assign, Inv, TypeOK
  <2>2. pc' \in [Worker -> QueueLabel \cup CallerLabel]
    BY <1>2, <1>3, <1>5, LockLabels DEF QTypeOK, Goto, QueueLabel, CallerLabel
  <2>3. QTypeOK(CallerLabel, Item)'
    BY <1>2, <1>4, <1>5, <2>2 DEF QTypeOK
  <2>. QED
    BY <1>4, <2>1, <2>3 DEF Inv, TypeOK, CallerLabel
<1>11. Trimmed'
  BY <1>3, <1>4, <1>6, WorkersRun DEF Trimmed, Trimming
<1>12. Called'
  <2>1. AllIdle(NWorkers)' <=> AllIdle(NWorkers)
    BY <1>4 DEF AllIdle
  <2>. QED
    BY <1>3, <1>6, <2>1 DEF Inv, Called
<1>. QED
  BY <1>9, <1>10, <1>11, <1>12 DEF Inv

\* Clearing new_works after work_q_put_all keeps it.
LEMMA PutInv ==
  ASSUME Inv, NEW t \in Worker, Put(t)
  PROVE  Inv'
<1> DEFINE l == Continue(my_works[t])
<1>1. /\ UNCHANGED <<q_lock, the_q, work_sheet, all_finished, work_queue_empty, scan, b>>
      /\ UNCHANGED <<E, G_SCC, trim, my_works>> /\ pc[t] = "put"
      /\ new_works' = [new_works EXCEPT ![t] = <<>>] /\ Goto(t, l)
  BY DEF Put, Cleared
<1>2. QTypeOK(CallerLabel, Item) /\ QueueInv
  BY DEF Inv, TypeOK, CallerLabel
<1>3. /\ my_works'[t] = my_works[t] /\ new_works'[t] = <<>> /\ pc'[t] = l
      /\ \A u \in Worker \ {t} : my_works'[u] = my_works[u] /\ new_works'[u] = new_works[u] /\ pc'[u] = pc[u]
  BY <1>1, <1>2 DEF QTypeOK, Goto
<1>4. /\ l \in {"set_idle", "process"}
      /\ l = "set_idle" <=> my_works[t] = <<>>
  BY DEF Continue
<1> HIDE DEF l
<1>5. work_sheet[t] = 0 => my_works[t] = <<>>
  BY <1>2 DEF QueueInv, Items, NoItems
<1>6. QueueInv'
  BY <1>1, <1>2, <1>3, <1>4, <1>5, CallerStepInv DEF NoItems
<1>7. TypeOK'
  <2>1. pc' \in [Worker -> QueueLabel \cup CallerLabel]
    BY <1>1, <1>2, <1>4 DEF QTypeOK, Goto, QueueLabel, CallerLabel
  <2>2. new_works' \in [Worker -> Seq(Item)]
    BY <1>1, <1>2, EmptySeq DEF QTypeOK
  <2>3. QTypeOK(CallerLabel, Item)'
    BY <1>1, <1>2, <2>1, <2>2 DEF QTypeOK
  <2>. QED
    BY <1>1, <2>3 DEF Inv, TypeOK, CallerLabel
<1>8. Trimmed'
  BY <1>1, <1>3, <1>4, WorkersRun DEF Trimmed, Trimming
<1>9. Called'
  <2>1. AllIdle(NWorkers)' <=> AllIdle(NWorkers)
    BY <1>1 DEF AllIdle
  <2>. QED
    BY <1>3, <1>4, <2>1 DEF Inv, Called
<1>. QED
  BY <1>6, <1>7, <1>8, <1>9 DEF Inv

\* Going on after work_q_fetch_N keeps it: without items, only if all is idle.
LEMMA FetchedInv ==
  ASSUME Inv, NEW t \in Worker, Fetched(t)
  PROVE  Inv'
<1> DEFINE l == IF my_works[t] = <<>> THEN "done" ELSE "process"
<1>1. /\ UNCHANGED <<q_lock, the_q, work_sheet, all_finished, work_queue_empty, scan, b>>
      /\ UNCHANGED <<E, G_SCC, trim, my_works, new_works>> /\ pc[t] = "fetched"
      /\ Goto(t, l)
  BY DEF Fetched, local
<1>2. QTypeOK(CallerLabel, Item) /\ QueueInv
  BY DEF Inv, TypeOK, CallerLabel
<1>3. pc'[t] = l /\ \A u \in Worker \ {t} : pc'[u] = pc[u]
  BY <1>1, <1>2 DEF QTypeOK, Goto
<1>4. l \in {"done", "process"} /\ (l = "done" <=> my_works[t] = <<>>)
  OBVIOUS
<1> HIDE DEF l
<1>5. new_works[t] = <<>> /\ (work_sheet[t] = 0 => NoItems(t))
  BY <1>1, <1>2 DEF QueueInv, Items
<1>6. QueueInv'
  BY <1>1, <1>2, <1>4, <1>5, CallerStepInv DEF NoItems
<1>7. TypeOK'
  <2>1. pc' \in [Worker -> QueueLabel \cup CallerLabel]
    BY <1>1, <1>2, <1>4 DEF QTypeOK, Goto, QueueLabel, CallerLabel
  <2>2. QTypeOK(CallerLabel, Item)'
    BY <1>1, <1>2, <2>1 DEF QTypeOK
  <2>. QED
    BY <1>1, <2>2 DEF Inv, TypeOK, CallerLabel
<1>8. Trimmed'
  BY <1>1, <1>3, <1>4, WorkersRun DEF Trimmed, Trimming
<1>9. Called'
  <2>1. AllIdle(NWorkers)' <=> AllIdle(NWorkers)
    BY <1>1 DEF AllIdle
  <2>2. ASSUME my_works[t] = <<>> PROVE AllIdle(NWorkers)
    <3>1. all_finished
      BY <1>1, <2>2, Zenon DEF Inv, QueueInv, Items
    <3>. QED
      BY <3>1, Zenon DEF Inv, QueueInv, Ends
  <2>. QED
    BY <1>1, <1>3, <1>4, <1>5, <2>1, <2>2 DEF Inv, Called
<1>. QED
  BY <1>6, <1>7, <1>8, <1>9 DEF Inv

\* Every operation of the queue keeps it.
LEMMA QueueInvStep ==
  ASSUME Inv, NEW t \in Worker, QueueStep(t), UNCHANGED <<E, G_SCC, trim>>
  PROVE  Inv'
<1>1. QTypeOK(CallerLabel, Item) /\ QueueInv
  BY DEF Inv, TypeOK, CallerLabel
<1>2. QTypeOK(CallerLabel, Item)' /\ QueueInv'
  BY <1>1, QueueStepTypes, QueueStepInv
<1>3. AllIdle(NWorkers) => AllIdle(NWorkers)'
  BY <1>1, StaysIdle
<1>4. pc[t] \notin {"trim", "process", "done"} /\ pc'[t] \notin {"trim", "process", "done"}
  BY <1>1, LockLabels DEF QTypeOK, QueueStep, Acquire, Release, SetIdle, Poll, Peek, Take, Check, Size,
     Scan, Finish, Push, Goto
<1>5. \A u \in Worker \ {t} : /\ pc'[u] = pc[u]
                              /\ my_works'[u] = my_works[u] /\ new_works'[u] = new_works[u]
  BY <1>1 DEF QTypeOK, QueueStep, Acquire, Release, SetIdle, Poll, Peek, Take, Check, Size, Scan,
     Finish, Push, Goto, local
<1>6. TypeOK'
  BY <1>2 DEF Inv, TypeOK, CallerLabel
<1>7. Trimmed'
  BY <1>4, <1>5, WorkersRun DEF Trimmed, Trimming
<1>8. Called'
  BY <1>3, <1>4, <1>5 DEF Inv, Called
<1>. QED
  BY <1>2, <1>6, <1>7, <1>8 DEF Inv

\* Every step keeps it.
LEMMA NextInv == Inv /\ [Next]_vars => Inv'
<1> SUFFICES ASSUME Inv, [Next]_vars PROVE Inv'
  OBVIOUS
<1>1. CASE UNCHANGED vars
  <2>1. UNCHANGED queueVars /\ UNCHANGED <<E, G_SCC, trim>>
    BY <1>1 DEF vars
  <2>2. QTypeOK(CallerLabel, Item)' /\ QueueInv'
    BY <2>1, QueueStutter DEF Inv, TypeOK, CallerLabel
  <2>3. UNCHANGED <<pc, the_q, all_finished, my_works, new_works, work_sheet>>
    BY <2>1 DEF queueVars, local
  <2>4. TypeOK'
    BY <2>1, <2>2 DEF Inv, TypeOK, CallerLabel
  <2>5. Trimmed'
    BY <2>1, <2>3, Zenon DEF Inv, Trimmed, Trimming, NoItems, Unassigned
  <2>6. Called'
    BY <2>3 DEF Inv, Called, AllIdle
  <2>. QED
    BY <2>2, <2>4, <2>5, <2>6 DEF Inv
<1>2. CASE TrimNode \/ NextPass \/ StartWorkers
  BY <1>2, TrimNodeInv, NextPassInv, StartWorkersInv
<1>3. ASSUME NEW t \in Worker, Step(t) PROVE Inv'
  BY <1>3, QueueInvStep, ProcessInv, PutInv, FetchedInv DEF Step
<1>. QED
  BY <1>1, <1>2, <1>3 DEF Next

\* Method 0 is type correct, for every graph, number of threads and LocalItems.
THEOREM TypeCorrect == Spec => []TypeOK
<1>1. Inv => TypeOK
  BY DEF Inv
<1>. QED
  BY InitInv, NextInv, <1>1, PTL DEF Spec

\* check_if_all_finished is right: when all_finished is set, or about to be, no
\* item exists and none ever will.
THEOREM EndIsReal == Spec => []Quiescent
<1>1. Inv => Quiescent
  BY QueueInvQuiescent DEF Inv, TypeOK
<1>. QED
  BY InitInv, NextInv, <1>1, PTL DEF Spec

\* work_queue_empty, read without the lock, is the truth whenever the lock is free.
THEOREM FlagIsTrue == Spec => []FlagExact
<1>1. Inv => FlagExact
  BY QueueInvQuiescent DEF Inv, TypeOK
<1>. QED
  BY InitInv, NextInv, <1>1, PTL DEF Spec

-----------------------------------------------------------------------------
(* Vectors of disjoint items                                               *)

Cover(s) == UNION Members(s)
Apart(s) == \A i, j \in 1 .. Len(s) : i # j => s[i] \cap s[j] = {}

\* The items of two vectors put together.
LEMMA MembersConcat ==
  ASSUME NEW I, NEW s \in Seq(I), NEW u \in Seq(I)
  PROVE  /\ Members(s \o u) = Members(s) \cup Members(u)
         /\ Cover(s \o u) = Cover(s) \cup Cover(u)
<1>1. Len(s) \in Nat /\ Len(u) \in Nat
  BY LenProperties
<1>2. /\ Len(s \o u) = Len(s) + Len(u)
      /\ \A i \in 1 .. Len(s) + Len(u) : (s \o u)[i] = IF i <= Len(s) THEN s[i] ELSE u[i - Len(s)]
  BY ConcatProperties
<1>3. ASSUME NEW x \in Members(s \o u) PROVE x \in Members(s) \cup Members(u)
  <2>1. PICK i \in 1 .. Len(s) + Len(u) : x = (s \o u)[i]
    BY <1>2 DEF Members
  <2>2. i <= Len(s) => i \in 1 .. Len(s)
    BY <1>1
  <2>3. ~(i <= Len(s)) => i - Len(s) \in 1 .. Len(u)
    BY <1>1
  <2>. QED
    BY <1>2, <2>1, <2>2, <2>3 DEF Members
<1>4. ASSUME NEW x \in Members(s) PROVE x \in Members(s \o u)
  <2>1. PICK i \in 1 .. Len(s) : x = s[i]
    BY DEF Members
  <2>2. i \in 1 .. Len(s) + Len(u) /\ i <= Len(s)
    BY <1>1
  <2>. QED
    BY <1>2, <2>1, <2>2 DEF Members
<1>5. ASSUME NEW x \in Members(u) PROVE x \in Members(s \o u)
  <2>1. PICK i \in 1 .. Len(u) : x = u[i]
    BY DEF Members
  <2>2. i + Len(s) \in 1 .. Len(s) + Len(u) /\ ~(i + Len(s) <= Len(s)) /\ i + Len(s) - Len(s) = i
    BY <1>1
  <2>. QED
    BY <1>2, <2>1, <2>2 DEF Members
<1>. QED
  BY <1>3, <1>4, <1>5 DEF Cover

\* Taking items from a vector loses none.
LEMMA MembersSplit ==
  ASSUME NEW I, NEW s \in Seq(I), NEW m \in 0 .. Len(s)
  PROVE  /\ Members(Popped(s, m)) \cup Members(Unpopped(s, m)) = Members(s)
         /\ Cover(Popped(s, m)) \cup Cover(Unpopped(s, m)) = Cover(s)
<1>1. Len(s) \in Nat /\ m \in Nat
  BY LenProperties
<1>2. Len(Popped(s, m)) = m /\ \A i \in 1 .. m : Popped(s, m)[i] = s[Len(s) + 1 - i]
  BY PoppedSeq
<1>3. /\ Len(Unpopped(s, m)) = Len(s) - m
      /\ \A i \in 1 .. Len(s) - m : Unpopped(s, m)[i] = s[i]
  BY UnpoppedSeq
<1>4. ASSUME NEW x \in Members(s) PROVE x \in Members(Popped(s, m)) \cup Members(Unpopped(s, m))
  <2>1. PICK i \in 1 .. Len(s) : x = s[i]
    BY DEF Members
  <2>2. CASE i \in 1 .. Len(s) - m
    BY <1>3, <2>1, <2>2 DEF Members
  <2>3. CASE i \notin 1 .. Len(s) - m
    <3>1. Len(s) + 1 - i \in 1 .. m /\ Len(s) + 1 - (Len(s) + 1 - i) = i
      BY <1>1, <2>3
    <3>. QED
      BY <1>2, <2>1, <3>1 DEF Members
  <2>. QED
    BY <2>2, <2>3
<1>5. ASSUME NEW x \in Members(Popped(s, m)) PROVE x \in Members(s)
  <2>1. PICK i \in 1 .. m : x = s[Len(s) + 1 - i]
    BY <1>2 DEF Members
  <2>2. Len(s) + 1 - i \in 1 .. Len(s)
    BY <1>1
  <2>. QED
    BY <2>1, <2>2 DEF Members
<1>6. ASSUME NEW x \in Members(Unpopped(s, m)) PROVE x \in Members(s)
  <2>1. PICK i \in 1 .. Len(s) - m : x = s[i]
    BY <1>3 DEF Members
  <2>2. i \in 1 .. Len(s)
    BY <1>1
  <2>. QED
    BY <2>1, <2>2 DEF Members
<1>. QED
  BY <1>4, <1>5, <1>6 DEF Cover

\* Members and the nodes they cover, as existentials.
LEMMA CoverMembers ==
  ASSUME NEW s, NEW v
  PROVE  v \in Cover(s) <=> \E i \in 1 .. Len(s) : v \in s[i]
BY DEF Cover, Members

\* Two vectors of disjoint items that share no node make one.
LEMMA ApartConcat ==
  ASSUME NEW I, NEW s \in Seq(I), NEW u \in Seq(I),
         Apart(s), Apart(u), Cover(s) \cap Cover(u) = {}
  PROVE  Apart(s \o u)
<1>1. Len(s) \in Nat /\ Len(u) \in Nat
  BY LenProperties
<1>2. /\ Len(s \o u) = Len(s) + Len(u)
      /\ \A i \in 1 .. Len(s) + Len(u) : (s \o u)[i] = IF i <= Len(s) THEN s[i] ELSE u[i - Len(s)]
  BY ConcatProperties
<1>3. ASSUME NEW i \in 1 .. Len(s) + Len(u), NEW j \in 1 .. Len(s) + Len(u), i # j,
             NEW v, v \in (s \o u)[i], v \in (s \o u)[j]
      PROVE  FALSE
  <2>1. CASE i <= Len(s) /\ j <= Len(s)
    <3>1. i \in 1 .. Len(s) /\ j \in 1 .. Len(s) /\ v \in s[i] /\ v \in s[j]
      BY <1>1, <1>2, <1>3, <2>1
    <3>. QED
      BY <1>3, <3>1 DEF Apart
  <2>2. CASE ~(i <= Len(s)) /\ ~(j <= Len(s))
    <3>1. /\ i - Len(s) \in 1 .. Len(u) /\ j - Len(s) \in 1 .. Len(u) /\ i - Len(s) # j - Len(s)
          /\ v \in u[i - Len(s)] /\ v \in u[j - Len(s)]
      BY <1>1, <1>2, <1>3, <2>2
    <3>. QED
      BY <3>1 DEF Apart
  <2>3. CASE i <= Len(s) /\ ~(j <= Len(s))
    <3>1. i \in 1 .. Len(s) /\ j - Len(s) \in 1 .. Len(u) /\ v \in s[i] /\ v \in u[j - Len(s)]
      BY <1>1, <1>2, <1>3, <2>3
    <3>. QED
      BY <3>1, CoverMembers
  <2>4. CASE ~(i <= Len(s)) /\ j <= Len(s)
    <3>1. j \in 1 .. Len(s) /\ i - Len(s) \in 1 .. Len(u) /\ v \in s[j] /\ v \in u[i - Len(s)]
      BY <1>1, <1>2, <1>3, <2>4
    <3>. QED
      BY <3>1, CoverMembers
  <2>. QED
    BY <2>1, <2>2, <2>3, <2>4
<1>. QED
  BY <1>2, <1>3 DEF Apart

\* What is taken from a vector of disjoint items shares no node with the rest.
LEMMA ApartSplit ==
  ASSUME NEW I, NEW s \in Seq(I), NEW m \in 0 .. Len(s), Apart(s)
  PROVE  /\ Apart(Popped(s, m)) /\ Apart(Unpopped(s, m))
         /\ Cover(Popped(s, m)) \cap Cover(Unpopped(s, m)) = {}
<1>1. Len(s) \in Nat /\ m \in Nat
  BY LenProperties
<1>2. Len(Popped(s, m)) = m /\ \A i \in 1 .. m : Popped(s, m)[i] = s[Len(s) + 1 - i]
  BY PoppedSeq
<1>3. /\ Len(Unpopped(s, m)) = Len(s) - m
      /\ \A i \in 1 .. Len(s) - m : Unpopped(s, m)[i] = s[i]
  BY UnpoppedSeq
<1>4. \A i \in 1 .. m : Len(s) + 1 - i \in 1 .. Len(s)
  BY <1>1
<1>5. \A i \in 1 .. Len(s) - m : i \in 1 .. Len(s)
  BY <1>1
<1>6. Apart(Popped(s, m))
  <2>1. ASSUME NEW i \in 1 .. m, NEW j \in 1 .. m, i # j
        PROVE  Popped(s, m)[i] \cap Popped(s, m)[j] = {}
    <3>1. Len(s) + 1 - i # Len(s) + 1 - j
      BY <1>1, <2>1
    <3>2. s[Len(s) + 1 - i] \cap s[Len(s) + 1 - j] = {}
      BY <1>4, <3>1 DEF Apart
    <3>. QED
      BY <1>2, <3>2
  <2>. QED
    BY <1>2, <2>1 DEF Apart
<1>7. Apart(Unpopped(s, m))
  BY <1>3, <1>5 DEF Apart
<1>8. ASSUME NEW v, v \in Cover(Popped(s, m)), v \in Cover(Unpopped(s, m))
      PROVE  FALSE
  <2>1. PICK i \in 1 .. m : v \in s[Len(s) + 1 - i]
    BY <1>2, <1>8, CoverMembers
  <2>2. PICK j \in 1 .. Len(s) - m : v \in s[j]
    BY <1>3, <1>8, CoverMembers
  <2>3. Len(s) + 1 - i # j
    BY <1>1
  <2>. QED
    BY <1>4, <1>5, <2>1, <2>2, <2>3 DEF Apart
<1>. QED
  BY <1>6, <1>7, <1>8

\* The empty vector.
LEMMA EmptyApart == Members(<<>>) = {} /\ Cover(<<>>) = {} /\ Apart(<<>>)
BY DEF Members, Cover, Apart

\* The item a task takes is disjoint from those that are left.
LEMMA LastItem ==
  ASSUME NEW I, NEW s \in Seq(I), Len(s) \in Nat \ {0}, Apart(s)
  PROVE  /\ Members(s) = {s[Len(s)]} \cup Members(Unpopped(s, 1))
         /\ Cover(s) = s[Len(s)] \cup Cover(Unpopped(s, 1))
         /\ s[Len(s)] \cap Cover(Unpopped(s, 1)) = {}
         /\ Apart(Unpopped(s, 1))
<1>1. 1 \in 0 .. Len(s) /\ 1 \in 1 .. 1
  OBVIOUS
<1>2. Len(Popped(s, 1)) = 1 /\ Popped(s, 1)[1] = s[Len(s) + 1 - 1]
  BY <1>1, PoppedSeq
<1>3. Len(s) + 1 - 1 = Len(s)
  OBVIOUS
<1>4. \A i : i \in 1 .. 1 <=> i = 1
  OBVIOUS
<1>5. Members(Popped(s, 1)) = {s[Len(s)]} /\ Cover(Popped(s, 1)) = s[Len(s)]
  BY <1>2, <1>3, <1>4 DEF Members, Cover
<1>. QED
  BY <1>1, <1>5, MembersSplit, ApartSplit

\* The vector of one item, or none.
LEMMA NonEmptyMembers ==
  ASSUME NEW S \in SUBSET Node
  PROVE  Members(NonEmpty(S)) = {S} \ {{}} /\ Cover(NonEmpty(S)) = S /\ Apart(NonEmpty(S))
<1>1. CASE S = {}
  BY <1>1, NonEmptySeq, EmptyApart
<1>2. CASE S # {}
  <2>1. Len(NonEmpty(S)) = 1 /\ NonEmpty(S)[1] = S
    BY <1>2, NonEmptySeq
  <2>2. \A i : i \in 1 .. 1 <=> i = 1
    OBVIOUS
  <2>3. Members(NonEmpty(S)) = {S}
    BY <2>1, <2>2 DEF Members
  <2>. QED
    BY <1>2, <2>1, <2>2, <2>3 DEF Cover, Apart
<1>. QED
  BY <1>1, <1>2

\* The new items of a task are the pieces of FwBw.
LEMMA PartsMembers ==
  ASSUME NEW w \in SUBSET Node, NEW fw \in SUBSET w, NEW bw \in SUBSET w
  PROVE  /\ Members(Parts(w, fw, bw)) = FB!Pieces(w, fw, bw) \ {{}}
         /\ Cover(Parts(w, fw, bw)) \subseteq w
         /\ Apart(Parts(w, fw, bw))
<1> DEFINE x == NonEmpty(fw \ bw)
           y == NonEmpty(bw \ fw)
           z == NonEmpty(w \ (fw \cup bw))
<1>1. fw \ bw \in SUBSET Node /\ bw \ fw \in SUBSET Node /\ w \ (fw \cup bw) \in SUBSET Node
  OBVIOUS
<1>2. x \in Seq(Item) /\ y \in Seq(Item) /\ z \in Seq(Item)
  BY <1>1, NonEmptySeq
<1>3. /\ Members(x) = {fw \ bw} \ {{}} /\ Cover(x) = fw \ bw /\ Apart(x)
      /\ Members(y) = {bw \ fw} \ {{}} /\ Cover(y) = bw \ fw /\ Apart(y)
      /\ Members(z) = {w \ (fw \cup bw)} \ {{}} /\ Cover(z) = w \ (fw \cup bw) /\ Apart(z)
  BY <1>1, NonEmptyMembers
<1> HIDE DEF x, y, z
<1>4. Parts(w, fw, bw) = (x \o y) \o z
  BY DEF Parts, x, y, z
<1>5. /\ x \o y \in Seq(Item) /\ Members(x \o y) = Members(x) \cup Members(y)
      /\ Cover(x \o y) = Cover(x) \cup Cover(y) /\ Apart(x \o y)
  <2>1. Cover(x) \cap Cover(y) = {} /\ Apart(x) /\ Apart(y)
    BY <1>3
  <2>2. x \o y \in Seq(Item)
    BY <1>2, ConcatProperties
  <2>3. Members(x \o y) = Members(x) \cup Members(y) /\ Cover(x \o y) = Cover(x) \cup Cover(y)
    BY <1>2, MembersConcat
  <2>4. Apart(x \o y)
    BY <1>2, <2>1, ApartConcat
  <2>. QED
    BY <2>2, <2>3, <2>4
<1> DEFINE xy == x \o y
<1>6. xy \in Seq(Item) /\ Apart(xy)
  BY <1>5
<1> HIDE DEF xy
<1>7. Members(xy \o z) = Members(xy) \cup Members(z) /\ Cover(xy \o z) = Cover(xy) \cup Cover(z)
  BY <1>2, <1>6, MembersConcat
<1>8. Apart(xy \o z)
  <2>1. Cover(xy) \cap Cover(z) = {} /\ Apart(z)
    BY <1>3, <1>5 DEF xy
  <2>. QED
    BY <1>2, <1>6, <2>1, ApartConcat
<1>9. Members(xy \o z) = {fw \ bw, bw \ fw, w \ (fw \cup bw)} \ {{}}
  BY <1>3, <1>5, <1>7 DEF xy
<1>10. Cover(xy \o z) \subseteq w
  BY <1>3, <1>5, <1>7 DEF xy
<1>11. Parts(w, fw, bw) = xy \o z
  BY <1>4 DEF xy
<1>. QED
  BY <1>8, <1>9, <1>10, <1>11 DEF FB!Pieces

-----------------------------------------------------------------------------
(* No node is in two items                                                 *)

Holds(t) == Cover(my_works[t]) \cup Cover(Pending(t))

Separate ==
  /\ Apart(the_q)
  /\ \A t \in Worker : /\ Apart(my_works[t]) /\ Apart(Pending(t))
                       /\ Cover(my_works[t]) \cap Cover(Pending(t)) = {}
                       /\ Cover(the_q) \cap Holds(t) = {}
  /\ \A t, u \in Worker : t # u => Holds(t) \cap Holds(u) = {}

\* A thread that rearranges its items and those of the queue, and adds no node.
LEMMA Rearranged ==
  ASSUME Separate, NEW t \in Worker,
         \A u \in Worker \ {t} : my_works'[u] = my_works[u] /\ Pending(u)' = Pending(u),
         Cover(the_q)' \cup Holds(t)' \subseteq Cover(the_q) \cup Holds(t),
         Apart(the_q)', Apart(my_works[t])', Apart(Pending(t))',
         Cover(my_works[t])' \cap Cover(Pending(t))' = {},
         Cover(the_q)' \cap Holds(t)' = {}
  PROVE  Separate'
<1>1. \A u \in Worker \ {t} : /\ Cover(my_works[u])' = Cover(my_works[u])
                              /\ Cover(Pending(u))' = Cover(Pending(u))
                              /\ Apart(my_works[u])' /\ Apart(Pending(u))'
  <2> SUFFICES ASSUME NEW u \in Worker \ {t}
               PROVE  /\ Cover(my_works[u])' = Cover(my_works[u])
                      /\ Cover(Pending(u))' = Cover(Pending(u))
                      /\ Apart(my_works[u])' /\ Apart(Pending(u))'
    OBVIOUS
  <2>1. my_works'[u] = my_works[u] /\ Pending(u)' = Pending(u)
    OBVIOUS
  <2>2. Apart(my_works[u]) /\ Apart(Pending(u))
    BY DEF Separate
  <2>. QED
    BY <2>1, <2>2 DEF Cover, Members, Apart
<1>2. \A u \in Worker \ {t} : Holds(u)' = Holds(u)
  BY <1>1 DEF Holds
<1>3. \A u \in Worker \ {t} : Holds(t)' \cap Holds(u)' = {} /\ Cover(the_q)' \cap Holds(u)' = {}
  BY <1>2 DEF Separate
<1>4. \A u \in Worker : /\ Apart(my_works[u])' /\ Apart(Pending(u))'
                        /\ Cover(my_works[u])' \cap Cover(Pending(u))' = {}
                        /\ Cover(the_q)' \cap Holds(u)' = {}
  BY <1>1, <1>3 DEF Separate
<1>5. \A u, v \in Worker : u # v => Holds(u)' \cap Holds(v)' = {}
  BY <1>2, <1>3 DEF Separate
<1>. QED
  BY <1>4, <1>5 DEF Separate

-----------------------------------------------------------------------------
(* The classes of FwBw are the items                                       *)

Place(t)  == Members(the_q) \cup Members(my_works[t]) \cup Members(Pending(t))
Others(t) == UNION {Members(my_works[u]) \cup Members(Pending(u)) : u \in Worker \ {t}}

\* The items of a thread and the queue, and those of the others.
LEMMA ByPlace ==
  ASSUME NEW t \in Worker
  PROVE  /\ ~Trimming => Classes = Place(t) \cup Others(t)
         /\ ~Trimming' => Classes' = Place(t)' \cup Others(t)'
BY DEF Classes, Place, Others

\* The items of the other threads, if these do nothing.
LEMMA OthersKept ==
  ASSUME NEW t \in Worker,
         \A u \in Worker \ {t} : my_works'[u] = my_works[u] /\ Pending(u)' = Pending(u)
  PROVE  Others(t)' = Others(t)
BY DEF Others, Members

\* The nodes of the items of a thread and the queue.
LEMMA PlaceCovers ==
  ASSUME NEW t
  PROVE  /\ UNION Place(t) = Cover(the_q) \cup Holds(t)
         /\ UNION Place(t)' = Cover(the_q)' \cup Holds(t)'
BY DEF Place, Holds, Cover

\* Moving items between the queue and a thread neither loses nor doubles one.
LEMMA Moves ==
  ASSUME Separate, NEW t \in Worker, ~Trimming, ~Trimming',
         \A u \in Worker \ {t} : my_works'[u] = my_works[u] /\ Pending(u)' = Pending(u),
         Place(t)' = Place(t),
         Apart(the_q)', Apart(my_works[t])', Apart(Pending(t))',
         Cover(my_works[t])' \cap Cover(Pending(t))' = {},
         Cover(the_q)' \cap Holds(t)' = {}
  PROVE  Separate' /\ Classes' = Classes
<1>1. Cover(the_q)' \cup Holds(t)' \subseteq Cover(the_q) \cup Holds(t)
  BY PlaceCovers
<1>2. Separate'
  BY <1>1, Rearranged
<1>3. Classes' = Classes
  BY ByPlace, OthersKept
<1>. QED
  BY <1>2, <1>3

\* Items are sets of nodes, none of them empty.
LEMMA MembersItems ==
  ASSUME NEW s \in Seq(Item)
  PROVE  Members(s) \subseteq Item
BY ElementOfSeq DEF Members

\* A class is never empty.
LEMMA ClassesItems ==
  ASSUME Inv
  PROVE  Classes \subseteq Item
<1>1. CASE Trimming
  BY <1>1 DEF Classes, Item, Unassigned
<1>2. CASE ~Trimming
  <2>1. the_q \in Seq(Item)
    BY DEF Inv, TypeOK, QTypeOK
  <2>2. \A u \in Worker : my_works[u] \in Seq(Item) /\ Pending(u) \in Seq(Item)
    BY EmptySeq DEF Inv, TypeOK, QTypeOK, Pending
  <2>. QED
    BY <1>2, <2>1, <2>2, MembersItems DEF Classes
<1>. QED
  BY <1>1, <1>2

\* The vectors of every thread have the types of the lemmas above.
LEMMA Vectors ==
  ASSUME Inv
  PROVE  /\ the_q \in Seq(Item)
         /\ \A u \in Worker : /\ my_works[u] \in Seq(Item) /\ new_works[u] \in Seq(Item)
                              /\ Pending(u) \in Seq(Item)
BY EmptySeq DEF Inv, TypeOK, QTypeOK, Pending

\* A vector's operators in the next state are those of the vector in the next state.
LEMMA NextVectors ==
  ASSUME NEW t
  PROVE  /\ Members(the_q)' = Members(the_q') /\ Cover(the_q)' = Cover(the_q') /\ Apart(the_q)' = Apart(the_q')
         /\ Members(my_works[t])' = Members(my_works'[t]) /\ Cover(my_works[t])' = Cover(my_works'[t])
         /\ Apart(my_works[t])' = Apart(my_works'[t])
         /\ Members(Pending(t))' = Members(Pending(t)') /\ Cover(Pending(t))' = Cover(Pending(t)')
         /\ Apart(Pending(t))' = Apart(Pending(t)')
BY DEF Members, Cover, Apart

\* work_q_fetch_N moves items from the queue to a thread.
LEMMA TakeMoves ==
  ASSUME Inv, Inv', Separate, NEW t \in Worker, Take(t), the_q # <<>>
  PROVE  Separate' /\ Classes' = Classes
<1> DEFINE got == Popped(the_q, Share)
<1>1. the_q \in Seq(Item) /\ my_works[t] \in Seq(Item) /\ my_works \in [Worker -> Seq(Item)]
  BY DEF Inv, TypeOK, QTypeOK
<1>2. Share \in 0 .. Len(the_q)
  BY <1>1, ShareBounds
<1>3. /\ the_q' = Unpopped(the_q, Share) /\ pc[t] = "take" /\ pc' = [pc EXCEPT ![t] = "taken"]
      /\ my_works' = [my_works EXCEPT ![t] = my_works[t] \o got] /\ new_works' = new_works
  BY DEF Take, Goto
<1>4. pc'[t] = "taken" /\ \A u \in Worker \ {t} : pc'[u] = pc[u]
  BY <1>3 DEF Inv, TypeOK, QTypeOK
<1>5. my_works'[t] = my_works[t] \o got /\ \A u \in Worker \ {t} : my_works'[u] = my_works[u]
  BY <1>1, <1>3
<1>6. \A u \in Worker : Pending(u)' = Pending(u)
  BY <1>3, <1>4 DEF Pending
<1>7. ~Trimming /\ ~Trimming'
  BY <1>3, <1>4, WorkersRun DEF Trimming
<1>8. got \in Seq(Item)
  BY <1>1, <1>2, PoppedSeq
<1>9. /\ Apart(the_q) /\ Apart(my_works[t]) /\ Apart(Pending(t))
      /\ Cover(my_works[t]) \cap Cover(Pending(t)) = {} /\ Cover(the_q) \cap Holds(t) = {}
  BY DEF Separate
<1>10. /\ Members(got) \cup Members(the_q') = Members(the_q)
       /\ Cover(got) \cup Cover(the_q') = Cover(the_q)
  BY <1>1, <1>2, <1>3, MembersSplit
<1>11. Apart(got) /\ Apart(the_q') /\ Cover(got) \cap Cover(the_q') = {}
  BY <1>1, <1>2, <1>3, <1>9, ApartSplit
<1> HIDE DEF got
<1>12. /\ Members(my_works'[t]) = Members(my_works[t]) \cup Members(got)
       /\ Cover(my_works'[t]) = Cover(my_works[t]) \cup Cover(got)
  BY <1>1, <1>5, <1>8, MembersConcat
<1>13. Apart(my_works'[t])
  <2>1. Cover(my_works[t]) \cap Cover(got) = {}
    BY <1>9, <1>10 DEF Holds
  <2>. QED
    BY <1>1, <1>5, <1>8, <1>9, <1>11, <2>1, ApartConcat
<1>14. Members(Pending(t)') = Members(Pending(t)) /\ Cover(Pending(t)') = Cover(Pending(t)) /\ Apart(Pending(t)')
  BY <1>6, <1>9
<1>15. Place(t)' = Place(t)
  BY <1>10, <1>12, <1>14, NextVectors DEF Place
<1>16. Cover(my_works[t])' \cap Cover(Pending(t))' = {} /\ Cover(the_q)' \cap Holds(t)' = {}
  BY <1>9, <1>10, <1>11, <1>12, <1>14, NextVectors DEF Holds
<1>17. Apart(the_q)' /\ Apart(my_works[t])' /\ Apart(Pending(t))'
  BY <1>11, <1>13, <1>14, NextVectors
<1>. QED
  BY <1>5, <1>6, <1>7, <1>15, <1>16, <1>17, Moves

\* work_q_put_all moves items from a thread to the queue.
LEMMA PushMoves ==
  ASSUME Inv, Separate, NEW t \in Worker, Push(t)
  PROVE  Separate' /\ Classes' = Classes
<1>1. the_q \in Seq(Item) /\ new_works[t] \in Seq(Item)
  BY Vectors
<1>2. /\ the_q' = the_q \o new_works[t] /\ pc[t] = "push" /\ pc' = [pc EXCEPT ![t] = "pushed"]
      /\ my_works' = my_works /\ new_works' = new_works
  BY DEF Push, Goto, local
<1>3. pc'[t] = "pushed" /\ \A u \in Worker \ {t} : pc'[u] = pc[u]
  BY <1>2 DEF Inv, TypeOK, QTypeOK
<1>4. /\ Pending(t) = new_works[t] /\ Pending(t)' = <<>>
      /\ \A u \in Worker \ {t} : Pending(u)' = Pending(u)
  BY <1>2, <1>3 DEF Pending
<1>5. ~Trimming /\ ~Trimming'
  BY <1>2, <1>3, WorkersRun DEF Trimming
<1>6. /\ Apart(the_q) /\ Apart(my_works[t]) /\ Apart(new_works[t])
      /\ Cover(my_works[t]) \cap Cover(new_works[t]) = {}
      /\ Cover(the_q) \cap Cover(my_works[t]) = {} /\ Cover(the_q) \cap Cover(new_works[t]) = {}
  BY <1>4 DEF Separate, Holds
<1>7. /\ Members(the_q') = Members(the_q) \cup Members(new_works[t])
      /\ Cover(the_q') = Cover(the_q) \cup Cover(new_works[t])
  BY <1>1, <1>2, MembersConcat
<1>8. Apart(the_q')
  BY <1>1, <1>2, <1>6, ApartConcat
<1>9. Members(Pending(t)') = {} /\ Cover(Pending(t)') = {} /\ Apart(Pending(t)')
  BY <1>4, EmptyApart
<1>10. Place(t)' = Place(t)
  BY <1>2, <1>4, <1>7, <1>9, NextVectors DEF Place
<1>11. Cover(my_works[t])' \cap Cover(Pending(t))' = {} /\ Cover(the_q)' \cap Holds(t)' = {}
  BY <1>2, <1>6, <1>7, <1>9, NextVectors DEF Holds
<1>12. Apart(the_q)' /\ Apart(my_works[t])' /\ Apart(Pending(t))'
  BY <1>2, <1>6, <1>8, <1>9, NextVectors
<1>. QED
  BY <1>2, <1>4, <1>5, <1>10, <1>11, <1>12, Moves

\* A step that moves no item.
LEMMA NothingMoved ==
  ASSUME the_q' = the_q, my_works' = my_works, \A u \in Worker : Pending(u)' = Pending(u)
  PROVE  /\ Separate => Separate'
         /\ ~Trimming /\ ~Trimming' => Classes' = Classes
<1>1. \A u \in Worker : Members(Pending(u))' = Members(Pending(u)) /\ Apart(Pending(u))' = Apart(Pending(u))
  BY NextVectors
<1>2. Members(the_q)' = Members(the_q) /\ \A u \in Worker : Members(my_works[u])' = Members(my_works[u])
  BY DEF Members
<1>3. ~Trimming /\ ~Trimming' => Classes' = Classes
  BY <1>1, <1>2 DEF Classes
<1>4. /\ Cover(the_q)' = Cover(the_q)
      /\ \A u \in Worker : /\ Cover(my_works[u])' = Cover(my_works[u])
                           /\ Cover(Pending(u))' = Cover(Pending(u)) /\ Holds(u)' = Holds(u)
  BY <1>1, <1>2 DEF Cover, Holds
<1>5. Apart(the_q)' = Apart(the_q) /\ \A u \in Worker : Apart(my_works[u])' = Apart(my_works[u])
  BY DEF Apart
<1>6. Separate => Separate'
  BY <1>1, <1>4, <1>5 DEF Separate
<1>. QED
  BY <1>3, <1>6

\* No operation of the queue touches the classes.
LEMMA QueueStepMoves ==
  ASSUME Inv, Inv', Separate, NEW t \in Worker, QueueStep(t)
  PROVE  Separate' /\ Classes' = Classes
<1>1. CASE Take(t) /\ the_q # <<>>
  BY <1>1, TakeMoves
<1>2. CASE Push(t)
  BY <1>2, PushMoves
<1>3. CASE ~Push(t) /\ ~(Take(t) /\ the_q # <<>>)
  <2>0. QTypeOK(CallerLabel, Item)
    BY DEF Inv, TypeOK, CallerLabel
  <2>1. UNCHANGED <<the_q, my_works, new_works>>
    BY <1>3 DEF QueueStep, Acquire, Release, SetIdle, Poll, Peek, Take, Check, Size, Scan, Finish, local
  <2>2. \A u \in Worker \ {t} : pc'[u] = pc[u]
    BY <2>0 DEF QTypeOK, QueueStep, Acquire, Release, SetIdle, Poll, Peek, Take, Check, Size, Scan,
       Finish, Push, Goto
  <2>3. pc[t] \in {"pushed", "put"} <=> pc'[t] \in {"pushed", "put"}
    <3>1. CASE Release(t)
      BY <2>0, <3>1, LockLabels DEF QTypeOK, Release, Goto
    <3>2. CASE ~Release(t)
      BY <1>3, <2>0, <3>2, LockLabels DEF QTypeOK, QueueStep, Acquire, SetIdle, Poll, Peek, Take, Check,
         Size, Scan, Finish, Goto
    <3>. QED
      BY <3>1, <3>2
  <2>4. pc[t] # "trim" /\ pc'[t] # "trim"
    BY <2>0, LockLabels DEF QTypeOK, QueueStep, Acquire, Release, SetIdle, Poll, Peek, Take, Check,
       Size, Scan, Finish, Push, Goto
  <2>5. ~Trimming /\ ~Trimming'
    BY <2>2, <2>4, WorkersRun DEF Trimming
  <2>6. \A u \in Worker : Pending(u)' = Pending(u)
    BY <2>1, <2>2, <2>3 DEF Pending
  <2>. QED
    BY <2>1, <2>5, <2>6, NothingMoved
<1>. QED
  BY <1>1, <1>2, <1>3

\* When new_works is cleared, its items are already the queue's.
LEMMA PutMoves ==
  ASSUME Inv, Separate, NEW t \in Worker, Put(t)
  PROVE  Separate' /\ Classes' = Classes
<1>1. /\ the_q' = the_q /\ my_works' = my_works /\ pc[t] = "put"
      /\ new_works' = [new_works EXCEPT ![t] = <<>>] /\ pc' = [pc EXCEPT ![t] = Continue(my_works[t])]
  BY DEF Put, Cleared, Goto
<1>2. /\ pc'[t] \in {"set_idle", "process"} /\ new_works'[t] = <<>>
      /\ \A u \in Worker \ {t} : pc'[u] = pc[u] /\ new_works'[u] = new_works[u]
  BY <1>1 DEF Inv, TypeOK, QTypeOK, Continue
<1>3. ~Trimming /\ ~Trimming'
  BY <1>1, <1>2, WorkersRun DEF Trimming
<1>4. \A u \in Worker : Pending(u)' = Pending(u)
  BY <1>1, <1>2 DEF Pending
<1>. QED
  BY <1>1, <1>3, <1>4, NothingMoved

\* Going on after work_q_fetch_N moves nothing.
LEMMA FetchedMoves ==
  ASSUME Inv, Separate, NEW t \in Worker, Fetched(t)
  PROVE  Separate' /\ Classes' = Classes
<1>1. /\ the_q' = the_q /\ my_works' = my_works /\ new_works' = new_works /\ pc[t] = "fetched"
      /\ pc' = [pc EXCEPT ![t] = IF my_works[t] = <<>> THEN "done" ELSE "process"]
  BY DEF Fetched, Goto, local
<1>2. pc'[t] \in {"done", "process"} /\ \A u \in Worker \ {t} : pc'[u] = pc[u]
  BY <1>1 DEF Inv, TypeOK, QTypeOK
<1>3. ~Trimming /\ ~Trimming'
  BY <1>1, <1>2, WorkersRun DEF Trimming
<1>4. \A u \in Worker : Pending(u)' = Pending(u)
  BY <1>1, <1>2 DEF Pending
<1>. QED
  BY <1>1, <1>3, <1>4, NothingMoved

\* A node is in no other item than the one a task takes.
LEMMA ItemOnce ==
  ASSUME Separate, NEW t \in Worker, NEW w \in SUBSET Cover(my_works[t]), w # {}
  PROVE  w \notin Members(the_q) /\ w \notin Members(Pending(t)) /\ w \notin Others(t)
<1>1. PICK v \in w : v \in Cover(my_works[t])
  OBVIOUS
<1>2. v \notin Cover(the_q) /\ v \notin Cover(Pending(t))
  BY <1>1 DEF Separate, Holds
<1>3. \A u \in Worker \ {t} : v \notin Cover(my_works[u]) /\ v \notin Cover(Pending(u))
  BY <1>1 DEF Separate, Holds
<1>. QED
  BY <1>1, <1>2, <1>3 DEF Cover, Others

\* A task is a split of FwBw, and its parts are where its item was.
LEMMA ProcessSplits ==
  ASSUME Inv, Inv', Separate, NEW t \in Worker, Process(t)
  PROVE  /\ Separate'
         /\ \E w \in Classes : \E p \in w : FB!Split(w, p)
<1>1. PICK w \in Item, p \in Node, m \in Nat : Processed(t, w, p, m)
  BY ProcessItems
<1> DEFINE fw    == FB!Reachable(E, w, p)
           bw    == FB!Reachable(FB!Reverse(E), w, p)
           parts == Parts(w, fw, bw)
           left  == Unpopped(my_works[t], 1)
           got   == Popped(parts, m)
           rest  == Unpopped(parts, m)
           l     == IF m < Len(parts) THEN "lock_put" ELSE Continue(left \o got)
<1>2. Outcome(w, p).parts = parts /\ Outcome(w, p).scc = fw \cap bw
  BY DEF Outcome
<1>3. /\ p \in w /\ w = my_works[t][Len(my_works[t])] /\ Len(my_works[t]) \in Nat \ {0}
      /\ new_works[t] = <<>> /\ left \in Seq(Item) /\ parts \in Seq(Item) /\ m \in 0 .. Len(parts)
      /\ G_SCC' = FB!Assign(fw \cap bw, p)
      /\ my_works' = [my_works EXCEPT ![t] = left \o got]
      /\ new_works' = [new_works EXCEPT ![t] = rest]
      /\ Goto(t, l)
  BY <1>1, <1>2 DEF Processed
<1>4. fw \in SUBSET w /\ bw \in SUBSET w /\ w \in SUBSET Node
  BY DEF FB!Reachable, Item
<1>5. /\ Members(parts) = FB!Pieces(w, fw, bw) \ {{}}
      /\ Cover(parts) \subseteq w /\ Apart(parts)
  BY <1>4, PartsMembers
<1>6. l \in {"lock_put", "set_idle", "process"}
  BY DEF Continue
<1> HIDE DEF fw, bw, parts, left, got, rest, l
<1>7. /\ my_works'[t] = left \o got /\ new_works'[t] = rest /\ pc'[t] = l
      /\ \A u \in Worker \ {t} : my_works'[u] = my_works[u] /\ new_works'[u] = new_works[u] /\ pc'[u] = pc[u]
  BY <1>3 DEF Inv, TypeOK, QTypeOK, Goto
<1>8. pc[t] = "process" /\ the_q' = the_q /\ E' = E
  BY DEF Process
<1>9. ~Trimming /\ ~Trimming'
  BY <1>6, <1>7, <1>8, WorkersRun DEF Trimming
<1>10. /\ Pending(t) = <<>> /\ Pending(t)' = rest
       /\ \A u \in Worker \ {t} : Pending(u)' = Pending(u)
  BY <1>3, <1>6, <1>7, <1>8 DEF Pending
<1>11. /\ got \in Seq(Item) /\ rest \in Seq(Item)
       /\ Members(got) \cup Members(rest) = Members(parts)
       /\ Cover(got) \cup Cover(rest) = Cover(parts)
  BY <1>3, PoppedSeq, UnpoppedSeq, MembersSplit DEF got, rest
<1>12. Apart(got) /\ Apart(rest) /\ Cover(got) \cap Cover(rest) = {}
  BY <1>3, <1>5, ApartSplit DEF got, rest
<1>13. my_works[t] \in Seq(Item) /\ Apart(my_works[t])
  BY Vectors DEF Separate
<1>14. /\ Members(my_works[t]) = {w} \cup Members(left)
       /\ Cover(my_works[t]) = w \cup Cover(left)
       /\ w \cap Cover(left) = {} /\ Apart(left)
  BY <1>3, <1>13, LastItem DEF left
<1>15. /\ Members(my_works'[t]) = Members(left) \cup Members(got)
       /\ Cover(my_works'[t]) = Cover(left) \cup Cover(got)
  <2>1. left \in Seq(Item) /\ got \in Seq(Item)
    BY <1>3, <1>11
  <2>2. /\ Members(left \o got) = Members(left) \cup Members(got)
        /\ Cover(left \o got) = Cover(left) \cup Cover(got)
    BY <2>1, MembersConcat
  <2>. QED
    BY <1>7, <2>2
<1>16. Apart(my_works'[t])
  <2>1. Cover(left) \cap Cover(got) = {}
    BY <1>5, <1>11, <1>14
  <2>2. left \in Seq(Item) /\ got \in Seq(Item) /\ Apart(left) /\ Apart(got)
    BY <1>3, <1>11, <1>12, <1>14
  <2>3. Apart(left \o got)
    BY <2>1, <2>2, ApartConcat
  <2>. QED
    BY <1>7, <2>3
<1>17. Separate'
  <2>1. Cover(the_q)' = Cover(the_q) /\ Apart(the_q)
    BY <1>8, NextVectors DEF Separate
  <2>2. Holds(t)' \subseteq Holds(t)
    BY <1>5, <1>10, <1>11, <1>14, <1>15, NextVectors DEF Holds
  <2>3. Cover(the_q)' \cap Holds(t)' = {}
    BY <2>1, <2>2 DEF Separate
  <2>4. Cover(my_works[t])' \cap Cover(Pending(t))' = {}
    BY <1>5, <1>10, <1>11, <1>12, <1>14, <1>15, NextVectors
  <2>5. Apart(the_q)' /\ Apart(my_works[t])' /\ Apart(Pending(t))'
    BY <1>8, <1>10, <1>12, <1>16, <2>1, NextVectors
  <2>6. Cover(the_q)' \cup Holds(t)' \subseteq Cover(the_q) \cup Holds(t)
    BY <2>1, <2>2
  <2>. QED
    BY <1>7, <1>10, <2>3, <2>4, <2>5, <2>6, Rearranged
<1>18. /\ w \in Classes
       /\ Classes \ {w} = Members(the_q) \cup Members(left) \cup Others(t)
  <2>1. w \notin Members(the_q) /\ w \notin Others(t)
    BY <1>3, <1>14, ItemOnce
  <2>2. w \notin Members(left)
    BY <1>3, <1>14 DEF Cover
  <2>3. Members(Pending(t)) = {}
    BY <1>10, EmptyApart
  <2>4. Classes = {w} \cup Members(the_q) \cup Members(left) \cup Others(t)
    BY <1>9, <1>14, <2>3, ByPlace DEF Place
  <2>. QED
    BY <2>1, <2>2, <2>4
<1>19. Classes' = (Classes \ {w}) \cup Members(parts)
  <2>1. Others(t)' = Others(t)
    BY <1>7, <1>10, OthersKept
  <2>2. Place(t)' = Members(the_q) \cup Members(left) \cup Members(parts)
    BY <1>8, <1>10, <1>11, <1>15, NextVectors DEF Place
  <2>. QED
    BY <1>9, <1>18, <2>1, <2>2, ByPlace
<1>20. {} \notin Classes
  BY ClassesItems DEF Item
<1>21. Classes' = ((Classes \ {w}) \cup FB!Pieces(w, fw, bw)) \ {{}}
  BY <1>5, <1>19, <1>20
<1>22. FB!Split(w, p)
  BY <1>3, <1>8, <1>21 DEF FB!Split, fw, bw
<1>. QED
  BY <1>3, <1>17, <1>18, <1>22

-----------------------------------------------------------------------------
(* Trimming splits the class of all unassigned nodes                       *)

\* A trimmed node is a trim of FwBw of the one class there is.
LEMMA TrimNodeTrims ==
  ASSUME Inv, Inv', Separate, TrimNode
  PROVE  /\ Separate'
         /\ \/ \E v \in Unassigned : Unassigned \in Classes /\ FB!Trim(Unassigned, v)
            \/ UNCHANGED <<E, G_SCC>> /\ Classes' = Classes
<1>1. Trimming /\ UNCHANGED queueVars /\ E' = E
  BY DEF TrimNode
<1>2. UNCHANGED <<pc, the_q, my_works, new_works>>
  BY <1>1 DEF queueVars, local
<1>3. Trimming'
  BY <1>1, <1>2 DEF Trimming
<1>4. \A u \in Worker : Pending(u)' = Pending(u)
  BY <1>2 DEF Pending
<1>5. Separate'
  BY <1>2, <1>4, NothingMoved
<1>6. Classes = {Unassigned} \ {{}} /\ Classes' = {Unassigned'} \ {{}}
  BY <1>1, <1>3 DEF Classes
<1>7. PICK v \in trim.todo :
        \/ Trimmable(v) /\ G_SCC' = [G_SCC EXCEPT ![v] = v]
        \/ UNCHANGED G_SCC
  BY DEF TrimNode
<1>8. v \in Unassigned /\ v \in Node
  BY <1>1 DEF Inv, Trimmed, Unassigned
<1>9. CASE UNCHANGED G_SCC
  <2>1. Unassigned' = Unassigned
    BY <1>9 DEF Unassigned
  <2>. QED
    BY <1>1, <1>5, <1>6, <1>9, <2>1
<1>10. CASE Trimmable(v) /\ G_SCC' = [G_SCC EXCEPT ![v] = v]
  <2>1. G_SCC \in [Node -> Node \cup {NIL}]
    BY DEF Inv, TypeOK
  <2>2. Unassigned' = Unassigned \ {v}
    BY <1>8, <1>10, <2>1, NilAssumption DEF Unassigned
  <2>3. G_SCC' = FB!Assign({v}, v)
    BY <1>8, <1>10, <2>1 DEF FB!Assign
  <2>4. Unassigned \in Classes /\ Classes' = ((Classes \ {Unassigned}) \cup {Unassigned \ {v}}) \ {{}}
    BY <1>6, <1>8, <2>2
  <2>5. FB!Trim(Unassigned, v)
    BY <1>1, <1>10, <2>3, <2>4 DEF FB!Trim, Trimmable
  <2>. QED
    BY <1>5, <1>8, <2>4, <2>5
<1>. QED
  BY <1>7, <1>9, <1>10

\* Another pass starts on the same class.
LEMMA NextPassMoves ==
  ASSUME Separate, NextPass
  PROVE  Separate' /\ Classes' = Classes
<1>1. Trimming /\ UNCHANGED <<pc, the_q, my_works, new_works, G_SCC>>
  BY DEF NextPass, queueVars, local
<1>2. Trimming' /\ Unassigned' = Unassigned
  BY <1>1 DEF Trimming, Unassigned
<1>3. \A u \in Worker : Pending(u)' = Pending(u)
  BY <1>1 DEF Pending
<1>4. Classes' = Classes
  BY <1>1, <1>2 DEF Classes
<1>. QED
  BY <1>1, <1>3, <1>4, NothingMoved

\* The class left by trimming becomes the first item.
LEMMA StartWorkersMoves ==
  ASSUME Inv, StartWorkers
  PROVE  Separate' /\ Classes' = Classes
<1>1. /\ trim \in Trims /\ Trimming /\ the_q = <<>>
      /\ trim.total + trim.count + Cardinality(Unassigned) = Cardinality(Node)
      /\ \A t \in Worker : NoItems(t)
  BY DEF Inv, TypeOK, Trims, Trimmed, StartWorkers
<1>2. UNCHANGED <<my_works, new_works, G_SCC>>
  BY DEF StartWorkers, local
<1>3. Rest = Cardinality(Unassigned)
  BY <1>1, UnassignedFinite DEF Rest, Trims
<1>4. \/ Unassigned = {} /\ pc' = [t \in Worker |-> "done"] /\ the_q' = <<>>
      \/ Unassigned # {} /\ pc' = [t \in Worker |-> "set_idle"] /\ the_q' = <<Unassigned>>
  BY <1>1, <1>3, UnassignedFinite DEF StartWorkers
<1>5. \A t \in Worker : my_works'[t] = <<>> /\ Pending(t)' = <<>>
  BY <1>1, <1>2 DEF NoItems, Pending
<1>6. Unassigned \in SUBSET Node /\ the_q' = NonEmpty(Unassigned)
  BY <1>4 DEF Unassigned, NonEmpty
<1>7. Members(the_q') = {Unassigned} \ {{}} /\ Apart(the_q')
  BY <1>6, NonEmptyMembers
<1>8. \A t \in Worker : /\ Members(my_works[t])' = {} /\ Members(Pending(t))' = {}
                        /\ Apart(my_works[t])' /\ Apart(Pending(t))'
  BY <1>5, EmptyApart, NextVectors
<1>9. ~Trimming'
  BY <1>4 DEF Trimming
<1>10. Classes' = {Unassigned} \ {{}}
  BY <1>7, <1>8, <1>9, Thread0, NextVectors DEF Classes
<1>11. Classes = {Unassigned} \ {{}}
  BY <1>1 DEF Classes
<1>12. \A t \in Worker : Cover(my_works[t])' = {} /\ Cover(Pending(t))' = {} /\ Holds(t)' = {}
  BY <1>8 DEF Cover, Holds
<1>13. Separate'
  BY <1>7, <1>8, <1>12, NextVectors DEF Separate
<1>. QED
  BY <1>10, <1>11, <1>13

-----------------------------------------------------------------------------
(* Method 0 implements FwBw                                                *)

\* The initial states are those of FwBw.
LEMMA InitRefines == Init => Separate /\ FB!Init
<1> SUFFICES ASSUME Init PROVE Separate /\ FB!Init
  OBVIOUS
<1>1. /\ the_q = <<>> /\ \A t \in Worker : my_works[t] = <<>> /\ Pending(t) = <<>> /\ pc[t] = "trim"
      /\ E \in Graphs /\ G_SCC = [v \in Node |-> NIL]
  BY DEF Init, QInit, Pending
<1>2. Separate
  BY <1>1, EmptyApart DEF Separate, Holds
<1>3. Classes = {Node} \ {{}}
  BY <1>1, Thread0 DEF Classes, Trimming, Unassigned
<1>. QED
  BY <1>1, <1>2, <1>3 DEF FB!Init

\* Every step is a step of FwBw or leaves its state alone.
LEMMA NextRefines ==
  ASSUME Inv, Inv', Separate, [Next]_vars
  PROVE  Separate' /\ [FB!Next]_(FB!vars)
<1>1. CASE UNCHANGED vars
  <2>1. UNCHANGED <<E, G_SCC, pc, the_q, my_works, new_works>>
    BY <1>1 DEF vars, queueVars, local
  <2>2. \A u \in Worker : Pending(u)' = Pending(u)
    BY <2>1 DEF Pending
  <2>3. Separate'
    BY <2>1, <2>2, NothingMoved
  <2>4. Trimming' <=> Trimming
    BY <2>1 DEF Trimming
  <2>5. Classes' = Classes
    <3>1. CASE ~Trimming
      BY <2>1, <2>2, <2>4, <3>1, NothingMoved
    <3>2. CASE Trimming
      BY <2>1, <2>4, <3>2 DEF Classes, Unassigned
    <3>. QED
      BY <3>1, <3>2
  <2>. QED
    BY <2>1, <2>3, <2>5 DEF FB!vars
<1>2. CASE TrimNode
  BY <1>2, TrimNodeTrims DEF FB!Next, FB!vars
<1>3. CASE NextPass \/ StartWorkers
  <2>1. UNCHANGED <<E, G_SCC>>
    BY <1>3 DEF NextPass, StartWorkers
  <2>. QED
    BY <1>3, <2>1, NextPassMoves, StartWorkersMoves DEF FB!vars
<1>4. ASSUME NEW t \in Worker, QueueStep(t) \/ Put(t) \/ Fetched(t), UNCHANGED <<E, G_SCC>>
      PROVE  Separate' /\ [FB!Next]_(FB!vars)
  BY <1>4, QueueStepMoves, PutMoves, FetchedMoves DEF FB!vars
<1>5. ASSUME NEW t \in Worker, Process(t)
      PROVE  Separate' /\ [FB!Next]_(FB!vars)
  BY <1>5, ProcessSplits DEF FB!Next
<1>6. ASSUME NEW t \in Worker, Step(t)
      PROVE  Separate' /\ [FB!Next]_(FB!vars)
  BY <1>4, <1>5, <1>6 DEF Step, Put, Fetched
<1>. QED
  BY <1>1, <1>2, <1>3, <1>6 DEF Next

\* Trimming and the tasks of all threads, with the shared queue between them, are
\* steps of FwBw, on every graph and for every number of threads.
THEOREM Implements == Spec => Refinement
<1>1. Init => Inv /\ Separate /\ FB!Init
  BY InitInv, InitRefines
<1>2. Inv /\ Separate /\ [Next]_vars => (Inv /\ Separate)' /\ [FB!Next]_(FB!vars)
  BY NextInv, NextRefines
<1>. QED
  BY <1>1, <1>2, PTL DEF Spec, Refinement, FB!Spec

-----------------------------------------------------------------------------
(* ... so it computes the components                                       *)

FBP == INSTANCE FwBwProofs WITH classes <- Classes

\* The invariant of FwBwProofs, of the classes that method 0 keeps.
LEMMA FwBwInv == Spec => []FBP!Inv
<1>1. FB!Init => FBP!Inv
  BY FBP!InitInv, NilAssumption, GraphsAssumption DEF FB!Init, FBP!Init
<1>2. FBP!Inv /\ [FB!Next]_(FB!vars) => FBP!Inv'
  <2>1. [FB!Next]_(FB!vars) => [FBP!Next]_(FBP!vars)
    BY DEF FB!Next, FBP!Next, FB!Trim, FBP!Trim, FB!Split, FBP!Split, FB!Pieces, FBP!Pieces,
           FB!Trim2, FBP!Trim2, FB!Pair, FBP!Pair, FB!Final, FBP!Final,
           FB!Separate, FBP!Separate,
           FB!Trimmable, FBP!Trimmable, FB!Assign, FBP!Assign, FB!Reachable, FBP!Reachable, FB!Closed,
           FBP!Closed, FB!Reverse, FBP!Reverse, FB!vars, FBP!vars
  <2>. QED
    BY <2>1, FBP!NextInv, NilAssumption, GraphsAssumption
<1>. QED
  BY <1>1, <1>2, Implements, PTL DEF Refinement, FB!Spec

\* When all threads have returned, every node has an SCC: the queue has lost none.
THEOREM AllNodesIdentified == Spec => []AllIdentified
<1>1. Inv /\ FBP!Inv => AllIdentified
  <2> SUFFICES ASSUME Inv, FBP!Inv, Done PROVE Unassigned = {}
    BY DEF AllIdentified
  <2>1. pc[0] = "done" /\ ~Trimming
    BY Thread0 DEF Done, Trimming
  <2>2. AllIdle(NWorkers)
    BY <2>1, Thread0 DEF Inv, Called
  <2>3. the_q = <<>> /\ \A t \in Worker : NoItems(t)
    BY <2>2, NWorkersAssumption DEF AllIdle, Worker, Inv, QueueInv, Items
  <2>4. \A t \in Worker : my_works[t] = <<>> /\ Pending(t) = <<>>
    BY <2>3 DEF NoItems, Pending
  <2>5. Classes = {}
    BY <2>1, <2>3, <2>4, EmptyApart DEF Classes
  <2>6. UNION Classes = Unassigned
    BY DEF FBP!Inv, FBP!Partitioned, Unassigned
  <2>. QED
    BY <2>5, <2>6
<1>2. Spec => []Inv
  BY InitInv, NextInv, PTL DEF Spec
<1>. QED
  BY <1>1, <1>2, FwBwInv, PTL

\* Whatever method 0 has recorded, at any time, is the strongly connected
\* component of the node in the whole graph.
THEOREM RecordsSCCs == Spec => []FB!Identified
<1>1. FBP!Inv => FB!Identified
  BY DEF FBP!Inv, FBP!Identified, FB!Identified, FBP!SCC, FB!SCC, FBP!Reachable, FB!Reachable,
         FBP!Closed, FB!Closed, FBP!Reverse, FB!Reverse
<1>. QED
  BY <1>1, FwBwInv, PTL

-----------------------------------------------------------------------------
(* ... and every node left is in one item                                  *)

\* The items of a vector that hold v: one if the vector covers v.
LEMMA HoldingOne ==
  ASSUME NEW s \in Seq(Item), Apart(s), NEW v
  PROVE  /\ v \in Cover(s) => \E i \in 1 .. Len(s) : Holding(s, v) = {i}
         /\ v \notin Cover(s) => Holding(s, v) = {}
<1>1. CASE v \in Cover(s)
  <2>1. PICK i \in 1 .. Len(s) : v \in s[i]
    BY <1>1, CoverMembers
  <2>2. \A j \in 1 .. Len(s) : v \in s[j] => j = i
    BY <2>1 DEF Apart
  <2>3. Holding(s, v) = {i}
    BY <2>1, <2>2 DEF Holding
  <2>. QED
    BY <1>1, <2>3
<1>2. CASE v \notin Cover(s)
  BY <1>2, CoverMembers DEF Holding
<1>. QED
  BY <1>1, <1>2

\* The items that hold v, with their threads, in the vectors s.
AllHolding(s, v) == UNION {{t} \X Holding(s[t], v) : t \in Worker}

\* The same of the vectors of all threads, if at most one covers v.
LEMMA HoldingAll ==
  ASSUME NEW s, \A t \in Worker : s[t] \in Seq(Item) /\ Apart(s[t]), NEW v,
         \A t, u \in Worker : v \in Cover(s[t]) /\ v \in Cover(s[u]) => t = u
  PROVE  /\ (\E t \in Worker : v \in Cover(s[t])) => Cardinality(AllHolding(s, v)) = 1
         /\ (\A t \in Worker : v \notin Cover(s[t])) => Cardinality(AllHolding(s, v)) = 0
<1> DEFINE H == UNION {{t} \X Holding(s[t], v) : t \in Worker}
<1>0. AllHolding(s, v) = H
  BY DEF AllHolding
<1>1. ASSUME NEW t \in Worker, v \in Cover(s[t]) PROVE Cardinality(H) = 1
  <2>1. PICK i \in 1 .. Len(s[t]) : Holding(s[t], v) = {i}
    BY <1>1, HoldingOne
  <2>2. \A u \in Worker \ {t} : Holding(s[u], v) = {}
    BY <1>1, HoldingOne
  <2>3. H = {<<t, i>>}
    <3>1. {t} \X Holding(s[t], v) = {<<t, i>>}
      BY <2>1
    <3>2. \A u \in Worker \ {t} : {u} \X Holding(s[u], v) = {}
      BY <2>2
    <3>3. {{u} \X Holding(s[u], v) : u \in Worker} \subseteq {{<<t, i>>}, {}}
      BY <3>1, <3>2
    <3>4. {<<t, i>>} \in {{u} \X Holding(s[u], v) : u \in Worker}
      BY <3>1
    <3>5. \A A, e : A \subseteq {{e}, {}} /\ {e} \in A => UNION A = {e}
      OBVIOUS
    <3>. QED
      BY <3>3, <3>4, <3>5
  <2>. QED
    BY <2>3, FS_Singleton
<1>2. ASSUME \A t \in Worker : v \notin Cover(s[t]) PROVE Cardinality(H) = 0
  <2>1. \A t \in Worker : Holding(s[t], v) = {}
    BY <1>2, HoldingOne
  <2>2. H = {}
    BY <2>1
  <2>. QED
    BY <2>2, FS_EmptySet
<1>. QED
  BY <1>0, <1>1, <1>2

\* What the sum of OneItem comes to, from where the vectors are apart.
LEMMA CountedOnce ==
  ASSUME Inv, Separate, FBP!Inv
  PROVE  OneItem
<1>1. SUFFICES ASSUME ~Trimming, NEW v \in Node
               PROVE  Cardinality(Holding(the_q, v))
                        + Cardinality(UNION {{t} \X Holding(my_works[t], v) : t \in Worker})
                        + Cardinality(UNION {{t} \X Holding(Pending(t), v) : t \in Worker})
                      = IF G_SCC[v] = NIL THEN 1 ELSE 0
  BY DEF OneItem
<1>2. PICK pending : pending = [t \in Worker |-> Pending(t)]
  OBVIOUS
<1>3. \A t \in Worker : pending[t] = Pending(t)
  BY <1>2
<1> DEFINE Q == Holding(the_q, v)
           M == AllHolding(my_works, v)
           P == AllHolding(pending, v)
<1>4. /\ M = UNION {{t} \X Holding(my_works[t], v) : t \in Worker}
      /\ P = UNION {{t} \X Holding(Pending(t), v) : t \in Worker}
  BY <1>3 DEF AllHolding
<1>5. /\ the_q \in Seq(Item) /\ Apart(the_q)
      /\ \A t \in Worker : my_works[t] \in Seq(Item) /\ Apart(my_works[t])
                           /\ pending[t] \in Seq(Item) /\ Apart(pending[t])
  BY <1>3, Vectors DEF Separate
<1>6. /\ \A t \in Worker : v \in Cover(my_works[t]) => v \notin Cover(pending[t])
      /\ \A t \in Worker : v \in Cover(the_q) => v \notin Cover(my_works[t]) /\ v \notin Cover(pending[t])
      /\ \A t, u \in Worker : (v \in Cover(my_works[t]) \/ v \in Cover(pending[t]))
                              /\ (v \in Cover(my_works[u]) \/ v \in Cover(pending[u])) => t = u
  BY <1>3 DEF Separate, Holds
<1>7. /\ v \in Cover(the_q) => Cardinality(Q) = 1
      /\ v \notin Cover(the_q) => Cardinality(Q) = 0
  <2>1. CASE v \in Cover(the_q)
    <3>1. PICK i \in 1 .. Len(the_q) : Q = {i}
      BY <1>5, <2>1, HoldingOne
    <3>. QED
      BY <2>1, <3>1, FS_Singleton
  <2>2. CASE v \notin Cover(the_q)
    <3>1. Q = {}
      BY <1>5, <2>2, HoldingOne
    <3>. QED
      BY <2>2, <3>1, FS_EmptySet
  <2>. QED
    BY <2>1, <2>2
<1>8. /\ (\E t \in Worker : v \in Cover(my_works[t])) => Cardinality(M) = 1
      /\ (\A t \in Worker : v \notin Cover(my_works[t])) => Cardinality(M) = 0
  <2>1. \A t \in Worker : my_works[t] \in Seq(Item) /\ Apart(my_works[t])
    BY <1>5
  <2>2. \A t, u \in Worker : v \in Cover(my_works[t]) /\ v \in Cover(my_works[u]) => t = u
    BY <1>6
  <2>. QED
    BY <2>1, <2>2, HoldingAll
<1>9. /\ (\E t \in Worker : v \in Cover(pending[t])) => Cardinality(P) = 1
      /\ (\A t \in Worker : v \notin Cover(pending[t])) => Cardinality(P) = 0
  <2>1. \A t \in Worker : pending[t] \in Seq(Item) /\ Apart(pending[t])
    BY <1>5
  <2>2. \A t, u \in Worker : v \in Cover(pending[t]) /\ v \in Cover(pending[u]) => t = u
    BY <1>6
  <2>. QED
    BY <2>1, <2>2, HoldingAll
<1>10. v \in UNION Classes <=> \/ v \in Cover(the_q)
                               \/ \E t \in Worker : v \in Cover(my_works[t]) \/ v \in Cover(pending[t])
  BY <1>1, <1>3 DEF Classes, Cover
<1>11. v \in UNION Classes <=> G_SCC[v] = NIL
  BY DEF FBP!Inv, FBP!Partitioned
<1> HIDE DEF Q, M, P
<1>12. Cardinality(Q) + Cardinality(M) + Cardinality(P) = IF G_SCC[v] = NIL THEN 1 ELSE 0
  <2>1. CASE v \in Cover(the_q)
    BY <1>6, <1>7, <1>8, <1>9, <1>10, <1>11, <2>1
  <2>2. CASE \E t \in Worker : v \in Cover(my_works[t])
    <3>1. \A t \in Worker : v \notin Cover(pending[t])
      BY <1>6, <2>2
    <3>. QED
      BY <1>6, <1>7, <1>8, <1>9, <1>10, <1>11, <2>2, <3>1
  <2>3. CASE \E t \in Worker : v \in Cover(pending[t])
    <3>1. \A t \in Worker : v \notin Cover(my_works[t])
      BY <1>6, <2>3
    <3>. QED
      BY <1>6, <1>7, <1>8, <1>9, <1>10, <1>11, <2>3, <3>1
  <2>4. CASE v \notin Cover(the_q) /\ \A t \in Worker : v \notin Cover(my_works[t]) /\ v \notin Cover(pending[t])
    BY <1>7, <1>8, <1>9, <1>10, <1>11, <2>4
  <2>. QED
    BY <2>1, <2>2, <2>3, <2>4
<1>. QED
  BY <1>4, <1>12 DEF Q

\* Every node that is not yet coloured is in exactly one item, in the_q, in the
\* my_works of one thread or among the new works it has yet to put; a coloured
\* node is in none (work_q_fetch_N, work_q_put_all, the tasks of method 0).
THEOREM NodesInOneItem == Spec => []OneItem
<1>1. Init => Inv /\ Separate
  BY InitInv, InitRefines
<1>2. Inv /\ Separate /\ [Next]_vars => (Inv /\ Separate)'
  BY NextInv, NextRefines
<1>. QED
  BY <1>1, <1>2, CountedOnce, FwBwInv, PTL DEF Spec
==============================================================================
