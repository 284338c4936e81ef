------------------------------- MODULE Colors -------------------------------
(***************************************************************************)
(* The colours of src/src/scc_color.cc: each thread hands out the colours  *)
(* of a chunk of its own and takes the next chunk with one atomic addition *)
(* when the chunk is used up.                                              *)
(***************************************************************************)
EXTENDS Integers

CONSTANTS
  NThreads,     \* gm_rt_get_num_threads(): the threads are 0 .. NThreads - 1
  COLOR_CHUNK   \* CHUNK: 1024

ASSUME ColorsAssumption == NThreads \in Nat \ {0} /\ COLOR_CHUNK \in Nat \ {0}

Thread == 0 .. NThreads - 1

VARIABLES
  the_color,    \* _the_color: the last colour of the last chunk
  the_colors,   \* per thread: used, and max_assigned
  given         \* history: the colours each thread has handed out

colorVars == <<the_color, the_colors, given>>

initialize_color ==
  /\ the_color = -1
  /\ the_colors = [t \in Thread |-> [used |-> -1, max |-> -1]]
  /\ given = [t \in Thread |-> {}]

\* what get_new_color returns to thread t
Exhausted(t)   == the_colors[t].used = the_colors[t].max
BugNewColor(t) == IF Exhausted(t) THEN the_color + 1 ELSE the_colors[t].used
NewColor(t)    == IF Exhausted(t) THEN the_color + 1 ELSE the_colors[t].used + 1

get_new_color(t) ==
  /\ \/ /\ Exhausted(t)
        /\ the_color' = the_color + COLOR_CHUNK
        /\ the_colors' = [the_colors EXCEPT ![t] = [used |-> the_color' - COLOR_CHUNK + 1,
                                                    max |-> the_color']]
     \/ /\ ~Exhausted(t)
        /\ the_colors' = [the_colors EXCEPT ![t].used = @ + 1]
        /\ UNCHANGED the_color
  /\ given' = [given EXCEPT ![t] = @ \cup {NewColor(t)}]

\* The main thread asks get_curr_color before it takes a colour: it is -1.
get_curr_color == the_colors[0].used

ColorSpec == initialize_color /\ [][\E t \in Thread : get_new_color(t)]_colorVars

-----------------------------------------------------------------------------
(* Properties                                                              *)

ColorTypeOK ==
  /\ the_color \in Int
  /\ the_colors \in [Thread -> [used : Int, max : Int]]
  /\ given \in [Thread -> SUBSET Int]

\* A colour is handed out once: no thread has one of another, none is the colour
\* -1 of the nodes at the start or -2 of those with an SCC, and the next colour of
\* any thread is new, wherever the threads are in their chunks.
UniqueColors ==
  /\ \A t, u \in Thread : t # u => given[t] \cap given[u] = {}
  /\ \A t, u \in Thread : NewColor(t) >= 0 /\ NewColor(t) \notin given[u]
=============================================================================
