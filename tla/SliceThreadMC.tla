--------------------------- MODULE SliceThreadMC ---------------------------
(***************************************************************************)
(* SliceThread for TLC, and the refinement of ParallelFor.                 *)
(***************************************************************************)
EXTENDS SliceThread

\* An execute is open from its call to its return.  A runner's job and number
\* count from the atomic fetch that gave it the job to the callback's return.
Loop == INSTANCE ParallelFor WITH
    MaxN <- MaxJobs, MaxThreads <- NThreads,
    open <- pc[Main] \in {"wake", "mainfunc", "run", "job", "claim",
                          "wait", "sleepdone", "wokendone"},
    n <- nb_jobs,
    todo <- 0 .. nb_jobs - 1 \ begun,
    running <- {[job |-> loc[r].cur, nr |-> loc[r].nr] :
                   r \in {q \in Runners : pc[q] = "job"}}

\* libavutil/slicethread.c runs every job of an execute once, on at most one
\* thread per number, and execute returns.
ImplementsParallelFor == Loop!Spec
=============================================================================
