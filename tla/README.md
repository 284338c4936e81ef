# TLA+ models of hong-ufscc

This directory models and verifies the parallel strongly-connected-component (SCC) program in
`src/`: the UFSCC algorithm (`src/src/scc_ufscc.cc`), Hong's FW-BW methods with their shared work
queue, and the graph library they stand on. TLC checks small instances of every module, TLAPS proves
the main facts for every instance. Everything here is translated from the source; line numbers in the
modules and below are lines of the file named with them.

- [The system](#the-system) - [What is modelled where](#what-is-modelled-where)
- [How the code is turned into actions](#how-the-code-is-turned-into-actions)
- [Runs](#runs) - [Fairness](#fairness) - [Proofs](#proofs)
- [Disagreements found](#disagreements-found) - [Not modelled](#not-modelled)
- [Plan](#plan)

## The system

`scc <graph> <threads> <method>` loads a graph and writes, in the global array `G_SCC`, the
representative of the SCC of every node. The method selects a pipeline (`scc_main.cc`):

| method | pipeline |
|---|---|
| 0 `do_baseline` | trim1 in passes, then FW-BW tasks from a shared queue |
| 1, 2 `do_global_*` | trim1, one FW-BW split by all threads (BFS), trim again (2: trim2 and WCC), then tasks |
| 3, 4 `do_tarjan*` | Tarjan by one thread (4: after trim1) |
| 5 `do_ufscc_all` | UFSCC by all threads |

The threads are OpenMP threads: parallel regions with an implicit barrier at the end, no messages and
no processes. Components communicate through global arrays (`G_Color`, `G_SCC`, `uf_array`, the
queue); nothing is persistent, nothing crashes and restarts, no message can be lost. What is hard is
therefore **interleaving** (racy reads, compare-and-swap loops, spinlocks), **publication order** of two
fields written one after the other, and **detecting that all is done**.

| component | state | operations | correct when | hard because |
|---|---|---|---|---|
| UFSCC union-find (`scc_ufscc.cc` 54-535) | `uf_array`: parent, worker set, cyclic list, two statuses that double as locks | `find`, `make_claim`, `sameset`, `unite`, `pick_from_list`, `remove_from_list`, `mark_dead`, `lock_uf`, `lock_list` | sets only merge; a set's list reaches all its unexplored states; every worker that has claimed a state of the set has its bit at the root | `find` compresses without a lock; `unite` publishes parent, list and workers in three places; statuses are CASed by some and stored by others |
| UFSCC search (537-729) | per worker: two explicit stacks | `scc_ufscc_recurse`, `do_ufscc_all` | partition = SCCs; each SCC completed once and only when its successors are | a worker's roots stack is invalidated by other workers' unions |
| Work queue (`my_work_queue.cc`, `gm_lock.cc`) | `the_q`, `work_sheet`, `all_finished`, `work_queue_empty`, the spinlock | `work_q_put_all`, `work_q_fetch_N`, `check_if_all_finished` | no item lost or taken twice; ends exactly when nothing is left | flags are read outside the lock; idle threads are counted sheet by sheet |
| FW-BW tasks (`scc_fb_seq*.cc`) | items (colour, count, set), per-thread vectors | `start_workers_fw_bw`, `do_fw_bw_single_thread` | a task identifies the whole SCC of its pivot and leaves a partition of the rest | tasks recolour nodes while other tasks read them; small classes carry a set, large ones do not |
| Trim1 / Trim2 (`scc_trim*.cc`) | `G_Color`, `G_SCC`, `trim_targets` | `repeat_global_trim1`, `do_global_trim2_new` | only SCCs of size 1 (2) are removed | neighbours are being trimmed meanwhile; two threads meet one pair from its two ends |
| Global FW-BW (`scc_fb_global.cc`) | counters per thread, colours of the parts | `do_fw_bw_global_main`, `create_works_after_bfs_trim` | same split as a task's, by all threads | counts of a level added up while others may still count |
| Colours (`scc_color.cc`) | `_the_color`, a chunk per thread | `get_new_color`, `choose_pivot_from_color`, `generate_compact_set` | a colour is given once | threads take chunks of their own |
| WCC (`scc_weak.cc`) | labels, node-set pool | `do_global_wcc`, `create_work_items_from_wcc` | ends; never cuts an SCC | labels are read while they are lowered |
| Tarjan (`scc_tarjan.cc`) | `G_Color` as index, stack | `do_tarjan_all` | SCCs | colours are index, lowlink and mark at once |
| BFS and DFS templates (`gm_bfs_template.h`, `gm_dfs_template.h`) | level queue, bitmap, levels, hash map of small visits; stack | `do_bfs_forward`, `do_dfs` | every node that the navigator allows is visited once | four ways to expand a level, chosen anew at each level; bytes of the bitmap written without an atomic operation |
| `gm_graph` and its files | flexible and frozen form, CSR and reverse arrays, flags | `add_edge`, `freeze`, `thaw`, `do_semi_sort`, `make_reverse_edges`, `load_binary`, `store_binary` | the graph is what was added; reverse edges mirror the edges | lifecycle flags; parallel placing of reverse edges |
| Pipeline (`scc_main.cc`, `common_main.h`), post analysis | counts of the phases, statics that outlive a session | `run`, `prepare`, `post_process`, `create_histogram_and_print` | every node has its SCC when a method returns | counts decide which phases are left out |
| Loaders of text, containers, tools | - | input and output, unused containers | - | - |

`PROJECT.json` lists every component with its status, and under `hazards` each place where this code is
hard to test, with the properties that would catch it or the reason why none does.

## What is modelled where

```
SCCPartition        what a concurrent SCC decomposition promises (abstract)
   ^ refined by
UnionFind  <- UFSCC           method 5, every shared access a step
           <- UFPaths         the union-find alone under three workers on paths
UFStoreBuffer                 unite against make_claim with store buffers

FwBw                what trimming, FW-BW splitting, Trim2 and WCC promise (abstract)
   ^ refined by
WorkQueue  <- Baseline        method 0: trim1, then the workers and their queue
Colors     <- FwBwTasks       the searches inside the tasks, breadth and depth first
           <- Wcc             the labels of method 2
Trim                          trim1, its compaction, trim2, neighbour by neighbour
   its operators used by
Bfs        <- GlobalFwBw      the split by all threads, on the BFS template
Methods                       the methods 0 to 5 put together from their phases
Tarjan                        methods 3 and 4
GmGraph                       the graph object and its file

UFSetsProofs                               what holds of the union-find whoever calls it
UFSCCProofs <- UFSearchProofs                           theorems and proofs about method 5
UFPathsProofs                                           about unite on paths
FwBwProofs, BaselineProofs                              about method 0
FwBwTasksProofs                                         about the tasks and their colours
WccProofs                                               about the labels of method 2
MC...                         instances for TLC
```

**UnionFind** holds `uf_array` (`uf`, a function from slots to records), `G_Color`, and for each worker
its program counter, stack of return labels, returned value and the locals of the running function.
Each method is a group of actions named after it: `FindRead`/`FindCompress`, `Claim*`, `Same*`,
`Pick*`, `Remove*`, `MarkDead*`, `Unite*`, `LockUf*`, `LockList*`. Callers push a return label with
`Call...`; `Return` hands back a code and a node. `worker_set` is the set of the bits set;
`w_id(w) == {w % WordBits}` keeps the width of `1ULL << worker`.

**UFSCC** adds `scc_ufscc_recurse`: per worker `tls` (initial state `i`, `roots` stack, the
recursion stack `rec` of frames, `v`, `v_p`, `w`, `k`, the count `unique`), the loop over initial
states with the static schedule of OpenMP (`ChunkFirst`), the barrier and the final pass that fills
`G_SCC`. Nodes are 1..N (slot `v+1` of the code). The rotation of the edge order by thread id
(line 582) is kept, so two workers on the same state go round its edges from different starts.

**UFPaths** drives the same union-find actions from a smaller caller: each worker claims the states of
a path and unites them from its end, as the search does when it closes a cycle. Dropping pick, remove
and completion makes three workers on four states affordable; only there does a representative get
united away while another worker is still adding bits to it.

**UFStoreBuffer** has the end of `unite` and `make_claim` once more, with a buffer per worker between its
plain stores and the memory, as on x86: what `UnionFind` leaves out (see
[Disagreements found](#disagreements-found)).

**SCCPartition** has one step per merge of two parts inside one SCC, per completion of an SCC with
completed successors, and one for the report. **FwBw** has `Trim` (a class loses a node that is an SCC
by itself), `Trim2` (a pair that is one), `Split` (a pivot's SCC is identified and the class falls into at
most three) and `Separate` (a class is cut where no edge comes back). Both are
the specifications a reader of the repository wants the program to satisfy.

**WorkQueue** and **Baseline**: per thread the label of its next access in `work_q_fetch_N`,
`check_if_all_finished`, `work_q_put_all` or `start_workers_fw_bw`, its `my_works` and `new_works`
vectors; the shared queue, flags, sheets and lock word. A task (`Process`) is one step: it identifies
the SCC of any pivot of its item and leaves up to three parts, split between the own vector and the
queue as lines 335-343 do. Trimming examines the nodes of a pass in any order.

**FwBwTasks** opens that step: two threads run `do_fw_bw_single_thread` (or `do_fw_bw_dfs`) at once on one
`G_Color`, one neighbour at a time: the navigator reads colours that the other thread is changing, the
visits recolour and count, sets shrink, grow and are dropped. `Refinement` maps a running task to one
class until its last step, so the theorem about `FwBw` holds for what the searches do together
(proved: `TasksImplementFwBw`, `TasksFindSCCs`).
**Colors** is `get_new_color` with its chunks, shared with **Wcc**.

**Trim** has a pass of `do_global_trim1`, of the compacted form and both forms of trim2 as a list of loops
(`Plans`); a thread reads one neighbour's colour per step and stores `G_Color` and `G_SCC` apart. The
compaction copies the targets of each thread to its offset. `Refinement` maps each *decision* of a thread to
a `Trim` or `Trim2` of `FwBw`, although its stores come later.

**Wcc** propagates labels node by node and neighbour by neighbour with two threads (`HookRead`, `Shortcut`),
until a round changes nothing; then the threads give the roots colours and sets from the pool, any free thread any
root that is left in each of the two loops, and make the items. The labels follow the successors only, so its classes are "the same smallest node reached", not weak components;
`Separate` of `FwBw` says why they still hold whole SCCs.

**Bfs** is the search of `gm_bfs_template.h` with its states SMALL, QUE, RD and RRD, thread-local queues,
the bitmap in bytes (`BYTE` nodes each), and levels of a type that wraps at `HALF`. **GlobalFwBw** puts the
two searches, the navigator, the visits and the counters of `scc_fb_global.cc` on it, from any pivot of what
trimming can leave.

**Methods** has a step per phase. A phase does in one step what the module of the phase shows of it,
with all its nondeterminism (which nodes a trimming takes, which pivots, which pairs, which labels are
flagged), and hands its counts, colours and items to the next; statics survive into the second session.

**Tarjan** is `do_tarjan_all` as a step machine with its stacks, run on all nodes (method 3) or on what passes of
trimming leave (method 4): all that can be trimmed at their start is gone, and any of what can be trimmed after that.
**GmGraph** has one step per call of the library, where `Locations` is every order in which the threads of
`make_reverse_edges` can place the edges. `clear_graph` is a call like the others: the history variable `stale` names the
flags that it has left set and that no later `thaw` has reset.

## How the code is turned into actions

- The memory is sequentially consistent. A step makes **one access to shared memory** (a read, a store, a
  CAS) plus the local code up to the next one. Where a step makes more, its comment says why
  no other thread can tell: accesses to a list entry under its lock, or to `the_q` under `q_lock`.
- A busy wait is a guard; a wait that other code depends on (`Poll`, `Peek`, `Check`) has its own steps.
- An operator `Bug...` beside a definition is a plausible mistake in that code, used to show that the
  properties notice it (`PROJECT.json`, `mutants`). No specification uses one.
- In `Baseline` a task and the examination of a node by trimming are one step; `FwBwTasks` and `Trim` show
  that they may be: both refine the same steps of `FwBw`, read by read.

## Runs

| run | instance | properties | what it shows |
|---|---|---|---|
| `ufscc` | 2 fair workers, three graphs of 3 nodes | `TypeOK`, `ParentIncreasing`, `LocksOwned`, `StacksInBounds`, `ExploredClosed`, `DeadExplored`, `ListCovers`, `SamesetSound`, `FoundOnRoots`, `UniqueCounted`, `Monotone`, `Refinement`, `Termination` | the statuses work as locks although `unlock` is a plain store; lists are changed under them; stacks stay within the arrays; the reasons UFSCC is correct; it implements `SCCPartition`; no retry loop or lock wait lasts for ever |
| `ufpaths` | 3 workers, 4 states, three assignments of paths | `BitsAtRoot`, `UniteJoins`, `ClosesInTime` | no worker bit is lost under a concurrent unite; `unite` returns with its two states in one set; the pop of line 633 never empties the stack |
| `ufscc_tso` | one `unite`, one `make_claim`, store buffers | `BitAtRepresentative` (violated) | see [Disagreements found](#disagreements-found) |
| `fwbw` | every graph of 4 nodes without self-loops, every pivot | `WholeSCCs`, `Identified` | trimming, pairs, splitting and labels never cut an SCC; what is recorded is the SCC |
| `baseline` | 3 fair threads, 6 nodes, three graphs, `N` = 1 | `TypeOK`, `FlagExact`, `Quiescent`, `OneItem`, `AllIdentified`, `Refinement`, `EndsUnlessStarved` | the queue protocol and the end detection; one or several trimming passes that leave all, some or no nodes; method 0 implements `FwBw`, and all threads return unless thread 0 starves one at the lock |
| `tasks` | 2 threads, 5 nodes, 3 graphs, breadth and depth first | `ItemsExact`, `UniqueColors`, `Refinement` | racing searches are atomic splits; counts and sets of items agree, dropped sets included |
| `trim` | 2 threads, 4 nodes, 4 graphs, 3 lists of passes | `PassExact`, `Refinement` | decisions on colours that change are right; a pair found from both ends is counted once; compaction loses nothing |
| `global` | 2 threads, 8 nodes, 5 graphs, 6 choices of when levels count as small and wide | `VisitedOnce`, `Outcome` | whatever states the levels are searched in, each node is visited once and colours, components and counts are right, at negative levels too |
| `wcc` | 2 threads, 6 nodes, 3 graphs, every pivot before | `Labelled`, `Refinement`, `Termination` | the labels end as the smallest reached, each makes one item, and no SCC is cut |
| `methods` | methods 0 to 5, 2 sessions, seven graphs of 6 nodes | `Answers` | no count or static of another phase or session makes a method skip work or lose a colour |
| `tarjan` | the graphs of 4 nodes with at most two successors each and no self-loops, untrimmed or after any trimming | `Correct`, `LowlinkSound` | components are right when they are written, lowlinks are reached nodes on the stack |
| `graph` | 3 nodes, 3 edges, two files | `Represents`, `FindsEdge` | the edges survive every sequence of the modelled calls, `clear_graph` included; unless that has left a flag set, buckets called sorted are, edges are mirrored, and the searches find them |

**Bounds and why they are enough.** Two workers and three states contain every pair of concurrent
method calls on one set; the graphs of `ufscc` have an SCC of two cycles that share a state, so that `unite` is called for
roots that are no longer representatives, an SCC below another and a
self-loop. What needs three workers (a representative that goes away under a second union) is
`ufpaths`, whose assignments make find paths of three steps. `WordBits` = `NWorkers` stands for 64 bits and at
most 64 threads.

Graphs of four nodes (`fwbw`, all of them; `tarjan`, those with at most two successors of a node) contain a class that
falls into three parts and an SCC with both predecessors and successors in its class, and a chain whose
trimming cascades. In `baseline` six nodes let a task leave three items with three threads,
so that refill, put and concurrent fetches all happen, and threads go idle, come back and go idle again.
`TRIM_STOP` is 100 in the code and 1 here, so that a second pass happens on six nodes.

In `tasks` `DROP` and `COMPACT` are 2 (a hundredth of the nodes in the code): sets are made, dropped while
they grow, and missing; `COLOR_CHUNK` is 3 (1024), so a task's colours may be of two chunks. The graphs
of `trim` have a pair into a pair, a pair whose neighbour is trimmed while it is looked at, and a chain trimmed from both
ends. In `global` `Limits` are the sizes at which a search leaves the small state (128 in the code) and takes a
level for wide (a share of the nodes), small enough on eight nodes for all its transitions; chunks and bytes have 2 nodes, so two threads meet in a byte.
`HALF` is 4 (32768), so that the levels 4 and 5 of the graph `Deep` are the negative -4 and -3, in the queue state and in the
reverse read.
In `wcc` `LARGE` is 3 edges (50), and one graph has a flagged label; `POOL` has a set for each node. The seven
graphs of `methods` leave, between them, nothing, one node or more for each phase. In `graph` `INSERTION` is 2 and `LINEAR` 0 (both
16), so that buckets of three and five are sorted by partition and searched by halves.

No bound cuts behaviour off inside an instance: the models have no counter that grows for ever and no
state constraint, except that `graph` stops adding at `MaxNodes` and `MaxEdges` and `methods` after two sessions.
`CHECK_DEADLOCK FALSE` is used for `fwbw`, where the abstract specification stops
when every class is gone, and for `trim`, `wcc` and `ufscc_tso`, whose phases end where the next module begins. The other
specifications end in an explicit step, so that a deadlock of the threads would be reported.

**TLC versus the code's unbounded parts.** `my_sleep`'s loop lengths, statistics, timing and printing
have no counterpart.

## Fairness

`UFSCC!FairSpec`: weak fairness for each worker's next step and for the final pass. OpenMP threads are
scheduled by the operating system, each of them runs again and again. Nothing stronger is assumed: a
busy wait is a guard, and a worker whose CAS fails retries, so `Termination` also says that the
failures come to an end.

`Baseline!FairSpec`: weak fairness for each thread and for the trimming phase, no more: `gm_spinlock_acquire` is an unfair
test-and-set (`gm_lock.cc:8`), so a thread that spins may find the lock taken every time it looks. That all threads
return is therefore false, and not checked. While the queue is empty, thread 0 may take the lock to look at the sheets, find a thread
that is not idle, release it and come back, for ever, while that thread spins before `work_q_put_all`; the pauses of
`my_sleep` between two looks make this unlikely at first, but after 100000 rounds there are none
(`my_work_queue.cc:62`). `EndsUnlessStarved` says that this is the only way not to end: either all return, or thread 0 looks at
the sheets again and again while a thread waits for ever to put its items into the empty queue. A lost flag, a missed
end, a thread that waits to fetch for ever, or thread 0 kept from the lock would break it.

`Wcc!FairSpec`: weak fairness of the next-state relation: some thread goes on. No step of a thread there waits for
another, so nothing more is needed for the rounds to end. The other specifications are not checked for liveness.

## Proofs

All proofs are checked by TLAPS for every value of the constants (`N`, `NWorkers`, `WordBits`, `LocalItems`
>= 1, `COLOR_CHUNK` >= 1, `DROP` >= 1, `TRIM_STOP` and `COMPACT` any naturals, any set of graphs, `Node` any finite set without
`NIL`; for `FwBwTasks` it is not empty, its nodes are numbers, as in the code, since the labels of method 2 are the smallest
node reached (`Label`), and `NULL` is no set of nodes; for `Wcc`, `NNodes`, `LARGE` and `POOL` are any naturals) with no other
assumption, but for one: the theorems of `UFSearchProofs` say `NWorkers <= WordBits`, that every worker has a bit of its own. The code needs it too: with more workers than bits the search goes wrong (`w_id`, line 219, see
[Disagreements found](#disagreements-found)). `ClaimsAreCounted` has the hypothesis because its proof rests on `Search`; on
the graphs of `ufscc`, with two workers that share one bit, TLC finds no miscount.

**UFSCC** (`UFSetsProofs`, `UFSCCProofs`).
`TypeCorrect`: `Spec => []TypeOK`. The inductive invariant `Types` is stronger than `TypeOK`: no return
stack holds a label of `find`, which is the only function that needs its `path` to be non-empty, so
`Return`, which writes a popped label into `pc`, never jumps into it. `ChunkBounds` shows that the
static schedule of the initial states stays in 1..N+1.

`ParentsIncrease`: parents have a higher index, so the forest never has a cycle and `find` terminates
in at most N steps. The invariant adds `Upward`: each worker's find path and the two roots of a running
`unite` are ascending, so that a compression, which stores a root found long ago, and a link, which
uses roots read before the lock, both point upwards. It also needs `Locked`: the slots a worker holds locked
are `LOCK`, so that only their holder writes `LIVE` over them.

`NothingIsUndone`: the action property `Monotone` from the same invariant. The interesting case is the
plain stores of `unlock_uf` and `unlock_list`: without `Locked` they could write `LIVE` over `DEAD`
or `TOMB`.

**Sets** (`UFSetsProofs`, for any program that calls the union-find as `CallerStep` says). `Root` is a recursive function:
that it exists is shown from `ParentIncreasing` with a least counterexample (`LeastNumber`, from the well-foundedness of
the naturals), as is every fact about all states of a set. The inductive invariant `SetsInv` says for each worker which
function it is in (`InCall`), that the states on its `path` are of one set and none but the last is a
representative (`PathOne`), that its q stays a representative from the check under the lock to the union (`QRoot`), and
what its open `unite` has found of the sets of its arguments (`UniteSets`). From it every step only ever joins sets
(`Coarser`), and what a worker found once it may use later. `SamesetIsSound` (`SamesetSound`): an answer "same" is
true, although the two calls of `find` are not atomic and the roots they gave may have been united away. `BitsStayAtRoots`
(`BitsAtRoot`): `BitsInv` says of every bit of a state's set that the state is a representative, or a state of its set
with a higher index has the bit too, or a worker is just bringing it there (`Carries`).

**Lists** (`UFSetsProofs`, likewise for any caller). `HomeInv`: what `pick_from_list` and `unite` hold of a list are entries
of the sets they were called for, and an entry leads into its own set, but for the two of a `unite` between its swap (line 345)
and its union (348). `ListInv`: there is a ghost `s`, the successors as they were when nobody shortened them, and a
name `c` for each cycle, such that the entries of a cycle are one set, an entry that is not explored leads to its `s`, and an
explored one skips along `s` over explored entries only (`Skips`). A swap of two successors splices two cycles
(`CyclesSpliced`), a write of line 148 stays on one, and a pick that comes back to where it started has passed all entries, so
all are explored when it marks the set `DEAD`. That `s` makes one cycle of a set is `Passes`: a set of entries that `s` does
not leave holds them all.

**Search** (`UFSCCProofs`, from the walk of a worker on, and `UFSearchProofs`). `Search` is inductive for the whole program (`SearchHolds`).
Next to the invariants above it says of the graph, in `SetsRight`, that the states of a set reach each other (`Sound`), that
a completed set is a whole component (`Whole`) whose edges lead to completed ones (`DeadClosed`), and that every edge of an
explored state stays in its set or leads to a completed one (`TombClosed`, hence `EdgesOfExplored`; with `ListInv`,
`CompletedExplored`). Of each worker it says three things.

- `Stands`: the states of the recursion are a trail along edges, the edges before the current one are done, and the trail is a
  `Walk` through the sets: the roots lie at ascending positions of it, and each state without a root there is in the set of
  an earlier one, or is guarded by one that a later cycle must unite. Nothing simpler is kept by every step: line 644
  compares states, not positions, so the worker may take a root off the stack that belongs to an earlier entry of the same state.
- `BitsHome`: a set that has the worker's bit has a root on its stack, or is completed, or is just being claimed. From this
  `FindsOnRoots`: what `make_claim` calls found has a root, so the loop of line 631 stops; and with the walk
  `StacksAreInBounds`: the trail is no longer than the number of states with the worker's bit (`Marked`).
- `Calls`: what each function that runs knows when it returns. The hard one is `sameset`, which may answer "different" after
  another worker has united the two sets. `Differs` and `TwoRoots` say that the roots on top may be united all the same: the
  walk without the top root is right for the sets with the two as one.

**Locks** (`UFSearchProofs`). `LocksAreOwned` is both directions of `LocksOwned`. A locked slot has an owner because the returns
of `unite` at lines 327 and 331, which leave q locked, are never met (`Finds`): they need a completed set, but the two sets
of a `unite` are parts of one component, and a completed set is a whole one. `ListsCover` follows from `ListInv`.

**The end** (`UFSearchProofs`). `Ends` says what the search leaves behind: a state is `Taken` once a worker's bit is in its set or
the set is completed; each worker has taken the states of its chunk it has passed (`Past`), and what it skipped because
of its colour another has taken (`Colored`). After the barrier no worker has roots, so by `BitsHome`
every taken state is in a completed set, and every state is taken because the chunks cover all.
`ImplementsPartition`: UFSCC implements `SCCPartition`. The store of a parent in `unite` is a merge of two parts of one
component (`LinkMerges`), the mark of a set a completion (`MarkCompletes`), the end of the collection the report
(`ReportRefines`), and every other step changes nothing there. `Decomposes` says the
result without the abstract specification: once reported, the nodes with the `G_SCC` of a node are its SCC.

**The counts** (`UFSearchProofs`). `ClaimsAreCounted` is `UniqueCounted`. `CountInv` adds to `Search` the count itself
(`Counted`) and `CountKnown`. A bit is set by `make_claim` on the representative only (line 235), or copied there by
`unite` (line 355), which might give a state its first bits while nobody holds a first claim of it. Hence `Together`: in a set of
several states all have been claimed; so a `unite` gives no state its first bit, which needs that all that a
worker stacks or unites is `Occupied`, claimed or in a completed set (`RootsOccupied`). `BitsGained` and `OwnHolds`: a
step gives a state its first bit exactly when its worker comes to hold a first claim (`Holds`); the caller then counts
it (`CallerCounted`), and Join moves its count to the total. The sum over the workers is a `FoldFunction`, whose definition is a
`CHOOSE` of a recursive function. `SumExists` shows by a least counterexample that there is one, and `SumChanges` how the sum follows the change of one
value.

**Paths** (`UFPathsProofs`), for any paths and any number of workers, as long as nothing is explored.
`UniteIsDone` (`UniteJoins`): `unite` returns only with its states in one set. `ClosesBeforeTheEnd` (`ClosesInTime`):
`sameset` never finds two states of one set to differ (`Meets`: the second root it looks at is the higher one), so the
worker stops before its stack is used up. `BitsFollow` is `BitsAtRoot` for this caller.

**FW-BW** (`FwBwProofs`). `Correct`: a recorded representative identifies exactly the nodes of its
SCC, on every graph. The invariant is `TypeOK`, `Partitioned`, `WholeSCCs` and `Identified` together: a
class must hold whole SCCs for the SCC computed *inside the class* to be the SCC of the graph. The heart is
lemma `ComponentInside`: a path inside the component of p never leaves a class that holds the
component. Reachability is defined as membership in every closed set, so no induction on the length
of a path is needed. `PairWhole` shows the same of a pair that trim2 takes, `FinalWhole` and `Cut` of the labels of WCC:
a set that no edge leaves holds every SCC that it meets, and so does the difference of two of them.

**Method 0** (`BaselineProofs`), for any number of threads and any bound on the own
vectors. The inductive invariant has `QueueInv` (five parts about the queue) and three parts about its
caller. `EndIsReal` rests on two of them: `Items`, a thread whose sheet is 0 has no items, neither in
`my_works` nor still to be put; and `Ends`, while thread 0 scans, the queue and the first `scan` sheets
are empty. A thread needs the lock to get items and thread 0 holds it during the scan, so a sheet already
seen idle stays idle; and with the queue empty and all idle no step can make an item, so what was true
under the lock is still true when `all_finished` is written after it. `FlagIsTrue` follows from `Flag`:
the flag changes in the same critical section as the queue. `LockHeld` is mutual exclusion of the spinlock.
`Trimmed` says that the counters of the passes add up to the nodes that are gone, so the workers are
started exactly if a node is left; `Called` that a thread returns only when all is idle.

`Implements` (the refinement of `FwBw`) adds `Separate`: no two items anywhere share a node. Queue operations move
items between vectors (`Moves`), a task replaces its item, which is nowhere else because it is not empty
(`ItemOnce`), by its parts. `AllNodesIdentified` and `RecordsSCCs` put the pieces together: by `Implements`
the invariant of `FwBwProofs` holds of the items in the queue and the threads; when all have returned there
are none, so no node is left without an SCC; and what is recorded is the SCC of the node in the whole graph.
`NodesInOneItem` (`OneItem`) counts: of the three sums of items that hold a node one is 1 and the others are 0, by `Separate`
and because the items are the classes of `FwBw`.

**Colours** (`FwBwTasksProofs`). `TasksImplementColors`: whatever the tasks do, they use the colours only as
`get_new_color` does; `ColorsAreUnique`: no colour is given twice, nor -1 or -2, for any number of threads and
size of a chunk. The invariant says where chunks lie: the rest of a chunk is below `_the_color` (`InChunk`), of two
chunks one lies below what the other has given out (`ChunksApart`), and what was given out is in no rest (`GivenBelow`).
Integers are unbounded there: the wrap of the 32-bit `_the_color` after 2^31 colours is out of the model.

**Tasks** (`FwBwTasksProofs`), for any number of threads, breadth and depth first, on every graph and whatever sizes drop
a set. The inductive invariant `TasksInv` has three kinds of parts.

- `TaskHolds`, of each running task: its nodes are four parts, those that keep its colour, the forward ones, the backward ones
  and the SCC found, and its counts and sets are those of the parts (`Tally`). Its search stands as `SearchOK` says:
  with the nodes already recoloured, an edge out of one leads to a node visited or still waiting in a frame of the stack
  (`Entering`, `Descending`) or in the queue (`Spreading`). So when nothing waits, what is recoloured is all that is reached
  inside the task (`EndedReached`), and the backward search, which goes through the rest of the task and its forward part, has marked the component of the
  pivot (`EndSplits`).
- Of the colours: those of one task differ (`OwnApart`), no two items or tasks share one (`ColorsApart`), each has been given out
  (`ColorsUsed`), so that a new one is fresh, and every colour of a node is that of an item or a task (`ColorsOwned`).
- Of the results: `Marks`, `PivotsApart` and the exact items (`ItemsOK`).

What the threads do to each other is the heart. `NavigatorStays`: a search goes on exactly at the nodes of its task that it has
not recoloured, since no other thread gives a node a colour of this task, or takes one of its nodes. And what another
thread does to its own nodes leaves all that is said of this task as it was (`OthersAfter`). From
the invariant: `ItemsAreExact` (`ItemsExact`), and `TasksImplementFwBw` (`Refinement`): a pivot of an item of one node is a
`Trim` of `FwBw`, the end of a task a `Split`, and every other step, the recolourings included, changes no class. With the
invariant of `FwBwProofs` this gives `TasksFindSCCs` (`SCCsFound`): when no item and no task is left, two nodes have the
same representative exactly if they are in one SCC of the graph, and it is one of them.

**WCC** (`WccProofs`), for any number of threads. The inductive invariant is `WccInv`. During the rounds it says of a label only
what no thread can make wrong: it is the own label of a node reached in the colour, and not above the node's own (`May`). A
thread that reads while others write takes one that its node may have (`MayPass`), and a copy of the root's label keeps
this whatever the root has by then (`ShortcutStep`). What makes the end right is `finished`: as long as it is true nobody has found a
smaller label, so nothing has been written but what was there, and each node that is handed out and done is `Settled`, not
above its successors. At the end all are, so what has labels not below that of v is closed under edges and holds all that v
reaches (`LabelsLeast`): the label is the least. `LabelsAreRight` (`Labelled`) adds the items: the roots take colours that
are fresh (`NextIsFresh`), hence different, so the sets of two roots are two items, as many as sets were taken from the pool.

`WccImplementsFwBw` (`Refinement`): by `Ordered` the nodes of a class with labels from that of a root on are `Final`, and so are those
above it; a root that takes its colour cuts out the difference, the nodes that have its label (`RootCuts`). The
rounds, and the copy of the roots' colours, change no class (`ClassesStay`). The start, after the global FW-BW, satisfies the
invariant of `FwBwProofs` (`StartWhole`), so `WccKeepsSCCs`: no item holds a part of an SCC only.

**Only model-checked.** Termination and everything under fairness (TLAPS has no rule for `ENABLED`); the refinement of `FwBw` by
`Trim`, and its `PassExact` (whose prefix sums are a fold); and everything about `Bfs`, `GlobalFwBw`, `Methods`, `Tarjan` and `GmGraph`.
The induction theorems of the library take an operator as parameter, which the installed provers cannot instantiate; where an
induction is needed (`Root`, `Total`), a least counterexample replaces it. The only `RECURSIVE` operators are those of `GmGraph` (sorting and
binary search), about which nothing is proved.

## Disagreements found

`ufscc_tso`: `make_claim` is to "Add our worker ID to the set, and ensure it is the UF representative" (line 234 of
`scc_ufscc.cc`). `unite` stores the parent of q with a plain store (348) and then reads the workers of q (351),
with no fence between them; on x86 that read may be done while the store is still in the store buffer.
A `fetch_or` of `make_claim` (235) after that read, with its read of the parent (236) before the store
arrives, leaves the bit at q only: `unite` has not seen it, and `make_claim` takes q for the root. In
`UnionFind`, with one memory for all, one of the two always sees the other (`BitsAtRoot`).

Met while reading, outside what the runs show:

- `w_id = 1ULL << worker` (`scc_ufscc.cc:219`) has no bound on `worker`, `MAX_THREADS` is 1024 (`scc.h:14`): from 65 threads on,
  two workers share a bit, and `make_claim` answers `CLAIM_FOUND`, "we have visited its SCC before" (line 213), for a set that
  only the other has visited. With `WordBits` = 1 in `ufscc.cfg`, TLC finds `FoundOnRoots` violated at once.
- `get_node_set_from_pool` (`scc_weak.cc:24`) asserts `pool_cnt > 0` behind its return. With more roots than sets in the pool
  (65536) it reads `node_set_pool` below its start. With `POOL` = 1 in `wcc.cfg`, `pool_cnt >= 0` is violated; `wcc` has sets enough.
- `scc_size_counted` (`scc_post_analyze.cc:50`) stays set when `G_scc_size` is made anew: from the second session of the
  exploration mode on, the histogram that `-a` promises (`scc_main.cc:64`) has sizes of 0 only. `Answers` has the
  histogram of the first session; with `session > 0` in `HistogramRight` it is violated.
- `clear_graph` (`gm_graph.cc:483`) is to "invalidate everything and make the graph empty" (`gm_graph.h:405`), but leaves
  `_semi_sorted` and `_reverse_edge` set: a file that is loaded then is not sorted and gets no reverse edges, although
  `load_binary` asks for no more than an empty object (`gm_graph.h:275`). `Represents` and `FindsEdge` hold for all but these
  flags (`stale`); without the exception TLC finds both violated.
- The level of a BFS is a `short` (`scc_fb_global.cc:29`): a search 65534 levels deep would reach `__INVALID_LEVEL`. With
  `HALF` = 3 in `global.cfg`, `Outcome` is violated. `gm_bfs_template.h:730` names the assumption: "small_world graph".
- The lock of the work queue can starve a thread that has items to put: see [Fairness](#fairness).
- `thaw` (`gm_graph.cc:116`) takes the ID of every edge from index 0: nothing advances `e_idx`. The SCC program uses no edge IDs.

## Not modelled

- **Weak memory** beyond `UFStoreBuffer`: the other modules have one memory for all.
- **Compiler freedom.** `all_finished`, `work_queue_empty` and `work_sheet` are plain variables read in loops, and after
  100000 rounds `my_sleep` (`my_work_queue.cc:127`) has no barrier: a build may keep them in registers. The models read memory every time.
- **Code no method calls**: the print and debug methods of `unionfind`, `work_q_fetch`, `do_local_trim1` and
  `repeat_local_trim1`, `do_tarjan_parallel_color`, `do_bfs_reverse` and `save_child` of the BFS template,
  `check_WCC`, `prepare_external_creation`, node keys and undirected graphs of `gm_graph`, the branch `create_work_items` of
  `do_fw_bw_global_main`, and the containers `gm_map.h`, `gm_set.h`, `gm_seq.h`, `gm_order.h`, `gm_collection.h`.
- **Input and output**: text loaders, edge lists, HDFS, property files, arguments, timing, printing.
- **Limits of types**: the wrap of colours and of edge counts after 2^31.

## Plan

1. *(done)* `UnionFind`, `UFSCC`, `UFPaths`, `SCCPartition`; `FwBw`, `WorkQueue`, `Baseline`; their theorems.
2. *(done)* The rest of Hong's pipeline: `FwBwTasks` with `Colors`, `Trim`, `Bfs` with `GlobalFwBw`, `Wcc`, `Methods`;
   `Tarjan`, `GmGraph`, `UFStoreBuffer`; the theorem about the colours.
3. *(done)* UFSCC as a whole: its search, lists, locks, the refinement of `SCCPartition`.
4. *(done)* The tasks node by node: `FwBwTasks` implements `FwBw`.
5. *(done)* The labels of method 2: `Wcc` implements `FwBw`.
6. A theorem still wanted: that `Trim` implements `FwBw`, first for trim1.
7. A composition of `WorkQueue` with `FwBwTasks`, which now meet in the abstract task of `Baseline` only.
