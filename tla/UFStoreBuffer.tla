--------------------------- MODULE UFStoreBuffer ---------------------------
(***************************************************************************)
(* The end of unite against make_claim (src/src/scc_ufscc.cc) on a         *)
(* processor with store buffers, x86: atomic_write is a plain store that   *)
(* others see when it leaves the buffer, fetch_or and cas empty it first.  *)
(* UnionFind models the same code with one memory for all.                 *)
(***************************************************************************)
EXTENDS Integers, Sequences, FiniteSets

CONSTANTS
  N,          \* nodes 1 .. N, 0 is no parent
  Uniter,     \* the workers in unite, with a lock on the node they put below another
  Claimer     \* the workers in make_claim

VARIABLES
  parent, workers,   \* uf_array in memory
  buffer,            \* per worker: stores <<node, parent>> not yet in memory
  pc,
  q, r, q_w,         \* unite
  f                  \* make_claim

Node   == 1 .. N
Worker == Uniter \cup Claimer
vars == <<parent, workers, buffer, pc, q, r, q_w, f>>

\* what w reads: its own last store, else memory
Parent(w, n) ==
  LET own == {i \in DOMAIN buffer[w] : buffer[w][i][1] = n}
  IN  IF own = {} THEN parent[n] ELSE buffer[w][CHOOSE i \in own : \A j \in own : j <= i][2]

\* find, without the path compression
Find(w, n) == LET up[m \in Node] == IF Parent(w, m) = 0 THEN m ELSE up[Parent(w, m)]
              IN  up[n]

fetch_or(w, n, set) == buffer[w] = <<>> /\ workers' = [workers EXCEPT ![n] = @ \cup set]

\* Uniters hold locks on different roots, and have claimed what they unite.
Init ==
  /\ parent = [n \in Node |-> 0]
  /\ workers = [n \in Node |-> Uniter]
  /\ buffer = [w \in Worker |-> <<>>]
  /\ pc = [w \in Worker |-> IF w \in Uniter THEN "set_parent" ELSE "find"]
  /\ q \in [Uniter -> Node] /\ r \in [Uniter -> Node]
  /\ \A w \in Uniter : q[w] < r[w] /\ \A x \in Uniter \ {w} : q[w] # q[x]
  /\ q_w = [w \in Uniter |-> {}]
  /\ f \in [Claimer -> Node]

Goto(w, at) == pc' = [pc EXCEPT ![w] = at]

-----------------------------------------------------------------------------
SetParent(w) ==
  /\ pc[w] = "set_parent" /\ Goto(w, "read_workers")
  /\ buffer' = [buffer EXCEPT ![w] = Append(@, <<q[w], r[w]>>)]
  /\ UNCHANGED <<parent, workers, q, r, q_w, f>>

ReadWorkers(w) ==
  /\ pc[w] = "read_workers" /\ Goto(w, "compare")
  /\ q_w' = [q_w EXCEPT ![w] = workers[q[w]]]
  /\ UNCHANGED <<parent, workers, buffer, q, r, f>>

Compare(w) ==
  /\ pc[w] = "compare"
  /\ Goto(w, IF q_w[w] \subseteq workers[r[w]] THEN "done" ELSE "add_workers")
  /\ UNCHANGED <<parent, workers, buffer, q, r, q_w, f>>

AddWorkers(w) ==
  /\ pc[w] = "add_workers" /\ Goto(w, "check_root")
  /\ fetch_or(w, r[w], q_w[w])
  /\ UNCHANGED <<parent, buffer, q, r, q_w, f>>

CheckRoot(w) ==
  /\ pc[w] = "check_root"
  /\ r' = [r EXCEPT ![w] = Find(w, r[w])]
  /\ Goto(w, IF r'[w] = r[w] THEN "done" ELSE "add_workers")
  /\ UNCHANGED <<parent, workers, buffer, q, q_w, f>>

-----------------------------------------------------------------------------
FindRoot(w) ==
  /\ pc[w] = "find"
  /\ f' = [f EXCEPT ![w] = Find(w, f[w])]
  /\ Goto(w, IF w \in workers[f'[w]] THEN "done" ELSE "claim")
  /\ UNCHANGED <<parent, workers, buffer, q, r, q_w>>

Claim(w) ==
  /\ pc[w] = "claim" /\ Goto(w, "check")
  /\ fetch_or(w, f[w], {w})
  /\ UNCHANGED <<parent, buffer, q, r, q_w, f>>

Check(w) ==
  /\ pc[w] = "check"
  /\ f' = [f EXCEPT ![w] = Find(w, f[w])]
  /\ Goto(w, IF f'[w] = f[w] THEN "done" ELSE "claim")
  /\ UNCHANGED <<parent, workers, buffer, q, r, q_w>>

\* the oldest store of w reaches memory
Drain(w) ==
  /\ buffer[w] # <<>>
  /\ parent' = [parent EXCEPT ![Head(buffer[w])[1]] = Head(buffer[w])[2]]
  /\ buffer' = [buffer EXCEPT ![w] = Tail(@)]
  /\ UNCHANGED <<workers, pc, q, r, q_w, f>>

Next ==
  \/ \E w \in Uniter : SetParent(w) \/ ReadWorkers(w) \/ Compare(w) \/ AddWorkers(w) \/ CheckRoot(w)
  \/ \E w \in Claimer : FindRoot(w) \/ Claim(w) \/ Check(w)
  \/ \E w \in Worker : Drain(w)

Spec == Init /\ [][Next]_vars

-----------------------------------------------------------------------------
\* "Add our worker ID to the set, and ensure it is the UF representative"
\* (scc_ufscc.cc:234): when the calls have returned and the stores have arrived, the
\* root of what was claimed has the bit of the worker.
BitAtRepresentative ==
  (\A w \in Worker : pc[w] = "done" /\ buffer[w] = <<>>) =>
    \A w \in Claimer : w \in workers[Find(w, f[w])]
=============================================================================
