---------------------------- MODULE ParallelFor ----------------------------
(***************************************************************************)
(* What avpriv_slicethread_execute promises: a parallel loop over 0..n-1   *)
(* whose iterations run once each, several at a time, each under a thread  *)
(* number no other running iteration has.                                  *)
(***************************************************************************)
EXTENDS Naturals, FiniteSets

CONSTANTS MaxN, MaxThreads

VARIABLES
    open,      \* a loop is being executed
    n,         \* its number of iterations
    todo,      \* the iterations that have not begun
    running    \* the iterations begun and not ended, with their thread number

vars == <<open, n, todo, running>>

Init == ~open /\ n = 0 /\ todo = {} /\ running = {}

Call ==
    /\ ~open /\ open' = TRUE
    /\ n' \in 1..MaxN
    /\ todo' = 0 .. n' - 1
    /\ UNCHANGED running

Begin ==
    /\ open
    /\ \E j \in todo : \E nr \in 0 .. MaxThreads - 1 :
          /\ nr < n
          /\ \A x \in running : x.nr # nr
          /\ todo' = todo \ {j}
          /\ running' = running \cup {[job |-> j, nr |-> nr]}
    /\ UNCHANGED <<open, n>>

End ==
    /\ \E x \in running : running' = running \ {x}
    /\ UNCHANGED <<open, n, todo>>

Return ==
    /\ open /\ todo = {} /\ running = {}
    /\ open' = FALSE
    /\ UNCHANGED <<n, todo, running>>

\* A new pool has no loop yet.
Reset == ~open /\ open' = FALSE /\ n' = 0 /\ UNCHANGED <<todo, running>>

Next == Call \/ Begin \/ End \/ Return \/ Reset

Spec == Init /\ [][Next]_vars /\ WF_vars(Begin \/ End \/ Return)
=============================================================================
