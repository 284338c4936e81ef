----------------------------- MODULE WorkQueue -----------------------------
(***************************************************************************)
(* The shared queue of work items (src/src/my_work_queue.cc) under its     *)
(* spinlock (src/gm_graph/src/gm_lock.cc), with work_q_fetch_N, which      *)
(* waits until there is an item or all threads are idle, and               *)
(* work_q_put_all.  A step is one access that another thread can observe:  *)
(* the_q is only touched under q_lock, while work_sheet, all_finished and  *)
(* work_queue_empty are also read or written without it.                   *)
(***************************************************************************)
EXTENDS Integers, Sequences

CONSTANTS
  NWorkers,     \* gm_rt_get_num_threads(), max_th of work_q_init
  LocalItems    \* N of start_workers_fw_bw: 1 (methods 0 and 1) or 40 (method 2)

ASSUME NWorkersAssumption   == NWorkers \in Nat \ {0}
ASSUME LocalItemsAssumption == LocalItems \in Nat \ {0}

Worker == 0 .. NWorkers - 1

VARIABLES
  q_lock,            \* 0 free, 1 taken
  the_q,             \* the items, the back of the vector last
  work_sheet,        \* per thread: 1 while it holds items
  all_finished, work_queue_empty,
  my_works,          \* per thread: the caller's items, filled by work_q_fetch_N
  new_works,         \* per thread: the items for work_q_put_all
  pc,                \* per thread: the next step
  scan, b            \* i and b of check_if_all_finished, which only thread 0 calls

local     == <<my_works, new_works>>
queueVars == <<q_lock, the_q, work_sheet, all_finished, work_queue_empty, local, pc, scan, b>>

QInit(start) ==                \* work_q_init, before the threads start
  /\ q_lock = 0
  /\ the_q = <<>>
  /\ work_sheet = [t \in Worker |-> 0]
  /\ all_finished = FALSE
  /\ work_queue_empty = TRUE
  /\ my_works = [t \in Worker |-> <<>>]
  /\ new_works = [t \in Worker |-> <<>>]
  /\ pc = [t \in Worker |-> start]
  /\ scan = 0
  /\ b = FALSE

Goto(t, label) == pc' = [pc EXCEPT ![t] = label]

\* what m times back() and pop_back() yield, and what they leave
Popped(s, m)   == [i \in 1 .. m |-> s[Len(s) + 1 - i]]
Unpopped(s, m) == SubSeq(s, 1, Len(s) - m)

LeastOf(x, y)    == IF x < y THEN x ELSE y
GreatestOf(x, y) == IF x > y THEN x ELSE y

-----------------------------------------------------------------------------
(* The spinlock: the swap that returns 0, and the store of 0.  Inside and  *)
(* Outside give the label after a label that acquires or releases.         *)

Inside  == [lock_put |-> "push", lock_fetch |-> "take", lock_check |-> "size"]
Outside == [pushed |-> "put", taken |-> "fetched", none |-> "poll", checked |-> "finish"]

Acquire(t) ==
  /\ pc[t] \in DOMAIN Inside
  /\ q_lock = 0
  /\ q_lock' = 1
  /\ Goto(t, Inside[pc[t]])
  /\ UNCHANGED <<the_q, work_sheet, all_finished, work_queue_empty, local, scan, b>>

Release(t) ==
  /\ pc[t] \in DOMAIN Outside
  /\ q_lock' = 0
  /\ Goto(t, Outside[pc[t]])
  /\ UNCHANGED <<the_q, work_sheet, all_finished, work_queue_empty, local, scan, b>>

-----------------------------------------------------------------------------
(* void work_q_fetch_N(int id, int N, std::vector<my_work*>& works): from  *)
(* "set_idle" to "fetched", with my_works[t] for works                     *)

SetIdle(t) ==                  \* lines 121-124
  /\ pc[t] = "set_idle"
  /\ work_sheet' = [work_sheet EXCEPT ![t] = 0]
  /\ Goto(t, "poll")
  /\ UNCHANGED <<q_lock, the_q, all_finished, work_queue_empty, local, scan, b>>

Poll(t) ==                     \* line 127
  /\ pc[t] = "poll"
  /\ \/ all_finished /\ Goto(t, "fetched")
     \/ ~all_finished /\ Goto(t, "peek")
  /\ UNCHANGED <<q_lock, the_q, work_sheet, all_finished, work_queue_empty, local, scan, b>>

Peek(t) ==                     \* lines 129-135; my_sleep, then again from "poll"
  /\ pc[t] = "peek"
  /\ \/ work_queue_empty /\ t = 0 /\ Goto(t, "check")
     \/ work_queue_empty /\ t # 0 /\ Goto(t, "poll")
     \/ ~work_queue_empty /\ Goto(t, "lock_fetch")
  /\ UNCHANGED <<q_lock, the_q, work_sheet, all_finished, work_queue_empty, local, scan, b>>

\* at most N/2 items, and at least one
Share == LeastOf(GreatestOf(LocalItems \div 2, 1), Len(the_q))

BugWorking(t) == 0
Working(t)    == 1

BugEmptied(m) == FALSE
Emptied(m)    == Len(the_q) = m

Take(t) ==                     \* lines 139-155, under the lock
  /\ pc[t] = "take"
  /\ \/ /\ the_q = <<>>
        /\ work_queue_empty' = TRUE
        /\ Goto(t, "none")
        /\ UNCHANGED <<the_q, work_sheet, my_works>>
     \/ /\ the_q # <<>>
        /\ my_works' = [my_works EXCEPT ![t] = @ \o Popped(the_q, Share)]
        /\ the_q' = Unpopped(the_q, Share)
        /\ work_sheet' = [work_sheet EXCEPT ![t] = Working(t)]
        /\ work_queue_empty' = (work_queue_empty \/ Emptied(Share))
        /\ Goto(t, "taken")
  /\ UNCHANGED <<q_lock, all_finished, new_works, scan, b>>

-----------------------------------------------------------------------------
(* static bool check_if_all_finished(), called by thread 0 only            *)

Check(t) ==                    \* line 39
  /\ pc[t] = "check"
  /\ \/ work_queue_empty /\ Goto(t, "lock_check")
     \/ ~work_queue_empty /\ Goto(t, "poll")
  /\ UNCHANGED <<q_lock, the_q, work_sheet, all_finished, work_queue_empty, local, scan, b>>

Size(t) ==                     \* lines 42-46, under the lock
  /\ pc[t] = "size"
  /\ \/ the_q # <<>> /\ b' = FALSE /\ work_queue_empty' = FALSE /\ Goto(t, "checked")
     \/ the_q = <<>> /\ b' = TRUE /\ Goto(t, "scan") /\ UNCHANGED work_queue_empty
  /\ scan' = 0
  /\ UNCHANGED <<q_lock, the_q, work_sheet, all_finished, local>>

Scan(t) ==                     \* lines 47-52: one work_sheet[i*8], a thread may leave meanwhile
  /\ pc[t] = "scan"
  /\ \/ scan = NWorkers /\ Goto(t, "checked") /\ UNCHANGED <<scan, b>>
     \/ /\ scan < NWorkers /\ work_sheet[scan] = 1
        /\ b' = FALSE
        /\ Goto(t, "checked")
        /\ UNCHANGED scan
     \/ /\ scan < NWorkers /\ work_sheet[scan] # 1
        /\ scan' = scan + 1
        /\ UNCHANGED <<b, pc>>
  /\ UNCHANGED <<q_lock, the_q, work_sheet, all_finished, work_queue_empty, local>>

BugFinished == all_finished
Finished    == all_finished \/ b

Finish(t) ==                   \* lines 56-57 and 132, after the release
  /\ pc[t] = "finish"
  /\ all_finished' = Finished
  /\ Goto(t, "poll")
  /\ UNCHANGED <<q_lock, the_q, work_sheet, work_queue_empty, local, scan, b>>

-----------------------------------------------------------------------------
(* void work_q_put_all(int thread_id, std::vector<my_work*>& work): from   *)
(* "lock_put" to "put", with new_works[t] for work                         *)

Push(t) ==                     \* lines 167-174, under the lock
  /\ pc[t] = "push"
  /\ the_q' = the_q \o new_works[t]
  /\ work_queue_empty' = (work_queue_empty /\ new_works[t] = <<>>)
  /\ Goto(t, "pushed")
  /\ UNCHANGED <<q_lock, work_sheet, all_finished, local, scan, b>>

QueueStep(t) ==
  \/ Acquire(t) \/ Release(t)
  \/ SetIdle(t) \/ Poll(t) \/ Peek(t) \/ Take(t)
  \/ Check(t) \/ Size(t) \/ Scan(t) \/ Finish(t)
  \/ Push(t)

-----------------------------------------------------------------------------
(* Properties                                                              *)

QueueLabel == DOMAIN Inside \cup DOMAIN Outside \cup
  {"set_idle", "poll", "peek", "take", "check", "size", "scan", "finish", "push", "put", "fetched"}

\* The type invariant, for the labels of the caller and the set of its items.
QTypeOK(Label, Item) ==
  /\ q_lock \in {0, 1}
  /\ the_q \in Seq(Item)
  /\ work_sheet \in [Worker -> {0, 1}]
  /\ all_finished \in BOOLEAN /\ work_queue_empty \in BOOLEAN
  /\ my_works \in [Worker -> Seq(Item)] /\ new_works \in [Worker -> Seq(Item)]
  /\ pc \in [Worker -> QueueLabel \cup Label]
  /\ scan \in 0 .. NWorkers
  /\ b \in BOOLEAN

\* The threads between gm_spinlock_acquire and gm_spinlock_release.
Locked(t) == pc[t] \in {"push", "take", "size", "scan"} \cup DOMAIN Outside

\* work_queue_empty, which the threads read without the lock to decide whether
\* to look into the queue, tells whether the_q is empty whenever q_lock is free.
FlagExact == q_lock = 0 => (work_queue_empty <=> the_q = <<>>)

\* What thread t still has to hand to the queue: new_works is cleared only after
\* its items are in the_q, where others may have taken them.
Pending(t) == IF pc[t] \in {"pushed", "put"} THEN <<>> ELSE new_works[t]

\* Once check_if_all_finished has decided that all threads are idle - at line 56,
\* after the lock was released, and on sheets read one after the other - no item
\* exists anywhere and none ever will: no thread that leaves abandons work.
Quiescent ==
  (all_finished \/ \E t \in Worker : pc[t] = "finish" /\ b)
    => the_q = <<>> /\ \A t \in Worker : my_works[t] = <<>> /\ Pending(t) = <<>>
=============================================================================
