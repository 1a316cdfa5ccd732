---------------------------- MODULE SliceThread ----------------------------
(***************************************************************************)
(* libavutil/slicethread.c: the pool of worker threads on which slice      *)
(* decoding and filter slices run.  One call of avpriv_slicethread_execute *)
(* hands out nb_jobs jobs to the workers and to the calling thread with    *)
(* two atomic counters, and returns when all jobs are done.                *)
(*                                                                         *)
(* A worker holds its w->mutex all the time except inside                  *)
(* pthread_cond_wait, so the mutex is part of the worker's pc.  The steps  *)
(* between two accesses to shared state are separate actions.              *)
(***************************************************************************)
EXTENDS Integers, FiniteSets

CONSTANTS
    NThreads,   \* bound: the most threads of a pool, its owner included
    MaxJobs     \* bound: the largest nb_jobs of an execute

ASSUME NThreadsAssumption == NThreads \in Nat \ {0}
ASSUME MaxJobsAssumption == MaxJobs \in Nat \ {0}

Workers == 0 .. NThreads - 2
Main    == NThreads                       \* the thread that owns the pool
Runners == Workers \cup {Main}

VARIABLES
    pc,           \* where each thread is
    wdone,        \* w->done of each worker
    main_func,    \* the pool has a main_func
    nb_threads, nb_active, nb_jobs,
    first_job, current_job,               \* the atomic counters
    done, finished,
    loc,          \* the locals of run_jobs, per runner
    i,            \* the loop index of the owner
    execute_main, \* the owner runs main_func in the execute in progress
    begun         \* history: the jobs begun in this execute

vars == <<pc, wdone, main_func, nb_threads, nb_active, nb_jobs, first_job, current_job,
          done, finished, loc, i, execute_main, begun>>
pool == <<main_func, nb_threads, nb_active, nb_jobs, first_job, current_job, done, finished>>

NoLocals == [jobs |-> 0, active |-> 0, nr |-> 0, cur |-> 0]

\* The points at which a worker waits for, or does not yet hold, w->mutex.
MutexFree(w) == pc[w] \in {"start", "parked", "woken", "exited", "none"}

\* nb_workers of a pool: without a main_func the caller is one of the threads.
NbWorkers == IF main_func THEN nb_threads ELSE nb_threads - 1

Goto(r, label) == pc' = [pc EXCEPT ![r] = label]

-----------------------------------------------------------------------------
Init ==
    /\ pc = [r \in Runners |-> "none"]
    /\ wdone = [w \in Workers |-> 0]
    /\ main_func = FALSE
    /\ nb_threads = 0 /\ nb_active = 0 /\ nb_jobs = 0
    /\ first_job = 0 /\ current_job = 0
    /\ done = 0 /\ finished = 0
    /\ loc = [r \in Runners |-> NoLocals]
    /\ i = 0 /\ execute_main = FALSE
    /\ begun = {}

\* avpriv_slicethread_create up to the loop that starts the workers.
Create(n, mf) ==
    /\ pc[Main] = "none"
    /\ Goto(Main, "create")
    /\ nb_threads' = n /\ main_func' = mf
    /\ NbWorkers' < NThreads
    /\ nb_active' = 0 /\ nb_jobs' = 0 /\ finished' = 0
    /\ first_job' = 0 /\ current_job' = 0 /\ done' = 0
    /\ wdone' = [w \in Workers |-> 0]
    /\ i' = 0
    /\ begun' = {} /\ execute_main' = FALSE
    /\ UNCHANGED loc

\* pthread_create of worker i: the owner holds w->mutex until it waits, so the
\* thread starts for good only then.
CreateWorker ==
    /\ pc[Main] = "create" /\ i < NbWorkers
    /\ pc' = [pc EXCEPT ![Main] = "created", ![i] = "start"]
    /\ UNCHANGED <<wdone, pool, loc, i, execute_main, begun>>

\* pthread_create fails: only the i workers already started are freed.  Without a
\* main_func the owner counts as a thread.
StartedThreads == IF main_func THEN i ELSE i + 1
CreateWorkerFails ==
    /\ pc[Main] = "create" /\ i < NbWorkers
    /\ nb_threads' = StartedThreads
    /\ Goto(Main, "free")
    /\ UNCHANGED <<wdone, main_func, nb_active, nb_jobs, first_job, current_job, done,
                   finished, loc, i, execute_main, begun>>

\* thread_worker up to its first pthread_cond_wait.
WorkerStarts(w) ==
    /\ pc[w] = "start"
    /\ wdone' = [wdone EXCEPT ![w] = 1]
    /\ Goto(w, "parked")
    /\ UNCHANGED <<pool, loc, i, execute_main, begun>>

\* while (!w->done) pthread_cond_wait
WorkerCreated ==
    /\ pc[Main] = "created" /\ wdone[i] = 1
    /\ i' = i + 1
    /\ Goto(Main, "create")
    /\ UNCHANGED <<wdone, pool, loc, execute_main, begun>>

CreateDone ==
    /\ pc[Main] = "create" /\ i = NbWorkers
    /\ Goto(Main, "idle")
    /\ UNCHANGED <<wdone, pool, loc, i, execute_main, begun>>

-----------------------------------------------------------------------------
MinOf(a, b) == IF a <= b THEN a ELSE b

\* The workers an execute wakes up: one job runner is the owner itself, unless
\* it runs main_func instead.  The variant forgets the owner.
WakeOneTooMany == MinOf(nb_active, NbWorkers)
WorkersToWake == IF execute_main THEN nb_active ELSE nb_active - 1

\* avpriv_slicethread_execute up to the loop that wakes the workers.  The
\* variant hands job number nb_active - 1 out twice.
FirstUnassignedLow(n) == MinOf(n, nb_threads) - 1
FirstUnassigned(n) == MinOf(n, nb_threads)
Execute(n, em) ==
    /\ pc[Main] = "idle"
    /\ nb_jobs' = n /\ nb_active' = MinOf(n, nb_threads)
    /\ first_job' = 0 /\ current_job' = FirstUnassigned(n)
    /\ execute_main' = (main_func /\ em)
    /\ i' = 0
    /\ Goto(Main, "wake")
    /\ begun' = {}
    /\ UNCHANGED <<wdone, main_func, nb_threads, done, finished, loc>>

\* Clear w->done and signal w->cond under w->mutex.  The variant signals
\* without clearing.
SignalOnly(w) ==
    /\ pc' = [pc EXCEPT ![w] = IF @ = "parked" THEN "woken" ELSE @]
    /\ UNCHANGED wdone
WakeUp(w) ==
    /\ pc' = [pc EXCEPT ![w] = IF @ = "parked" THEN "woken" ELSE @]
    /\ wdone' = [wdone EXCEPT ![w] = 0]

WakeWorker ==
    /\ pc[Main] = "wake" /\ i < WorkersToWake /\ MutexFree(i)
    /\ WakeUp(i)
    /\ i' = i + 1
    /\ UNCHANGED <<pool, loc, execute_main, begun>>

\* All workers are awake: the owner runs main_func, or jobs like a worker.
AllAwake ==
    /\ pc[Main] = "wake" /\ i = WorkersToWake
    /\ Goto(Main, IF execute_main THEN "mainfunc" ELSE "run")
    /\ UNCHANGED <<wdone, pool, loc, i, execute_main, begun>>

MainFuncReturns ==
    /\ pc[Main] = "mainfunc"
    /\ Goto(Main, "wait")
    /\ UNCHANGED <<wdone, pool, loc, i, execute_main, begun>>

\* while (!ctx->done) pthread_cond_wait(&ctx->done_cond)
WaitDone ==
    /\ pc[Main] \in {"wait", "wokendone"}
    /\ IF done = 1
       THEN done' = 0 /\ Goto(Main, "idle")
       ELSE UNCHANGED done /\ Goto(Main, "sleepdone")
    /\ UNCHANGED <<wdone, main_func, nb_threads, nb_active, nb_jobs, first_job, current_job,
                   finished, loc, i, execute_main, begun>>

-----------------------------------------------------------------------------
\* The worker gets w->mutex back in pthread_cond_wait and re-tests w->done.
WorkerResumes(w) ==
    /\ pc[w] = "woken"
    /\ Goto(w, IF wdone[w] = 1 THEN "parked" ELSE IF finished = 1 THEN "exited" ELSE "run")
    /\ UNCHANGED <<wdone, pool, loc, i, execute_main, begun>>

SpuriousWakeup(r) ==
    /\ \/ pc[r] = "parked" /\ Goto(r, "woken")
       \/ pc[r] = "sleepdone" /\ Goto(r, "wokendone")
    /\ UNCHANGED <<wdone, pool, loc, i, execute_main, begun>>

\* run_jobs: the atomic fetch of first_job gives the runner its thread number
\* and its first job, which it begins.
FirstJob(r) ==
    /\ pc[r] = "run"
    /\ loc' = [loc EXCEPT ![r] = [jobs |-> nb_jobs, active |-> nb_active,
                                  nr |-> first_job, cur |-> first_job]]
    /\ first_job' = first_job + 1
    /\ begun' = begun \cup {first_job}
    /\ Goto(r, "job")
    /\ UNCHANGED <<wdone, main_func, nb_threads, nb_active, nb_jobs, current_job, done,
                   finished, i, execute_main>>

\* worker_func returns.
JobReturns(r) ==
    /\ pc[r] = "job"
    /\ Goto(r, "claim")
    /\ UNCHANGED <<wdone, pool, loc, i, execute_main, begun>>

\* The runner that takes the last value of current_job is the last one to leave
\* the execute.  The variant takes the first one for it.
IsFirstOut(r) == current_job = loc[r].jobs
IsLast(r) == current_job = loc[r].jobs + loc[r].active - 1

\* The atomic fetch of current_job: the next job, or the end of run_jobs.
ClaimJob(r) ==
    /\ pc[r] = "claim"
    /\ current_job' = current_job + 1
    /\ IF current_job < loc[r].jobs
       THEN /\ loc' = [loc EXCEPT ![r].cur = current_job]
            /\ begun' = begun \cup {current_job}
            /\ Goto(r, "job")
       ELSE /\ Goto(r, IF r = Main THEN IF IsLast(r) THEN "idle" ELSE "wait"
                                   ELSE IF IsLast(r) THEN "report" ELSE "park")
            /\ loc' = [loc EXCEPT ![r] = NoLocals]
            /\ UNCHANGED begun
    /\ UNCHANGED <<wdone, main_func, nb_threads, nb_active, nb_jobs, first_job, done,
                   finished, i, execute_main>>

\* The last worker sets ctx->done and signals done_cond under done_mutex.  The
\* variant forgets the signal.
ReportSilently(w) == Goto(w, "park")
Report(w) ==
    pc' = [pc EXCEPT ![w] = "park",
                     ![Main] = IF @ = "sleepdone" THEN "wokendone" ELSE @]
ReportDone(w) ==
    /\ pc[w] = "report"
    /\ done' = 1
    /\ Report(w)
    /\ UNCHANGED <<wdone, main_func, nb_threads, nb_active, nb_jobs, first_job, current_job,
                   finished, loc, i, execute_main, begun>>

\* Back at the top of the loop of thread_worker.
Park(w) ==
    /\ pc[w] = "park"
    /\ wdone' = [wdone EXCEPT ![w] = 1]
    /\ Goto(w, "parked")
    /\ UNCHANGED <<pool, loc, i, execute_main, begun>>

-----------------------------------------------------------------------------
\* avpriv_slicethread_free: called by the owner of the idle pool, and by create
\* when it fails (pc "free").
Free ==
    /\ pc[Main] \in {"idle", "free"}
    /\ finished' = 1
    /\ i' = 0
    /\ Goto(Main, "stop")
    /\ UNCHANGED <<wdone, main_func, nb_threads, nb_active, nb_jobs, first_job, current_job,
                   done, loc, execute_main, begun>>

StopWorker ==
    /\ pc[Main] = "stop" /\ i < NbWorkers /\ MutexFree(i)
    /\ WakeUp(i)
    /\ i' = i + 1
    /\ UNCHANGED <<pool, loc, execute_main, begun>>

AllStopped ==
    /\ pc[Main] = "stop" /\ i = NbWorkers
    /\ i' = 0
    /\ Goto(Main, "join")
    /\ UNCHANGED <<wdone, pool, loc, execute_main, begun>>

JoinWorker ==
    /\ pc[Main] = "join" /\ i < NbWorkers /\ pc[i] = "exited"
    /\ Goto(i, "none")
    /\ i' = i + 1
    /\ UNCHANGED <<wdone, pool, loc, execute_main, begun>>

Freed ==
    /\ pc[Main] = "join" /\ i = NbWorkers
    /\ Goto(Main, "none")
    /\ UNCHANGED <<wdone, pool, loc, i, execute_main, begun>>

-----------------------------------------------------------------------------
RunJobs(r) == FirstJob(r) \/ JobReturns(r) \/ ClaimJob(r)

WorkerStep(w) ==
    \/ WorkerStarts(w)
    \/ WorkerResumes(w)
    \/ RunJobs(w)
    \/ ReportDone(w)
    \/ Park(w)

\* The steps by which the owner carries on with the call it is in.
OwnerStep ==
    \/ CreateWorker \/ WorkerCreated \/ CreateDone
    \/ WakeWorker \/ AllAwake \/ MainFuncReturns \/ RunJobs(Main) \/ WaitDone
    \/ pc[Main] = "free" /\ Free
    \/ StopWorker \/ AllStopped \/ JoinWorker \/ Freed

Next ==
    \/ \E n \in 1..NThreads : \E mf \in BOOLEAN : Create(n, mf)
    \/ CreateWorkerFails
    \/ OwnerStep
    \/ \E n \in 1..MaxJobs : \E em \in BOOLEAN : Execute(n, em)
    \/ pc[Main] = "idle" /\ Free
    \/ \E w \in Workers : WorkerStep(w)
    \/ \E r \in Runners : SpuriousWakeup(r)

\* Threads are scheduled, mutexes are released, and the callbacks worker_func
\* and main_func return.  The owner need not call execute or free.
Fairness ==
    /\ WF_vars(OwnerStep)
    /\ \A w \in Workers : WF_vars(WorkerStep(w))

Spec == Init /\ [][Next]_vars
FairSpec == Spec /\ Fairness

-----------------------------------------------------------------------------
\* The runners inside the run_jobs of an execute.
InJobs == {r \in Runners : pc[r] \in {"job", "claim"}}

\* The types of the variables.
TypeOK ==
    /\ pc \in [Runners -> {"none", "create", "created", "free", "idle", "wake",
                           "mainfunc", "wait", "sleepdone", "wokendone", "stop", "join",
                           "start", "parked", "woken", "exited", "run", "job", "claim",
                           "report", "park"}]
    /\ wdone \in [Workers -> {0, 1}]
    /\ nb_threads \in 0..NThreads /\ nb_active \in 0..NThreads /\ nb_jobs \in 0..MaxJobs
    /\ first_job \in 0..nb_active /\ current_job \in 0..(nb_jobs + nb_active)
    /\ done \in {0, 1} /\ finished \in {0, 1}
    /\ loc \in [Runners -> [jobs : 0..MaxJobs, active : 0..NThreads,
                            nr : 0..NThreads, cur : 0..MaxJobs]]
    /\ i \in 0..NThreads /\ {main_func, execute_main} \subseteq BOOLEAN
    /\ begun \subseteq 0 .. nb_jobs - 1

\* worker_func's per-thread scratch is indexed by threadnr: two runners that are
\* inside jobs at the same time have different numbers, all below nb_active.
DistinctThreadNumbers ==
    \A r, q \in InJobs :
        /\ loc[r].nr < nb_active
        /\ r # q => loc[r].nr # loc[q].nr

\* No worker is late: once execute has returned, none can touch first_job,
\* current_job or ctx->done of the next execute, which are reset without a lock.
NoStraggler ==
    pc[Main] = "idle" =>
        /\ done = 0
        /\ \A w \in Workers : w < NbWorkers => pc[w] \in {"park", "parked", "woken"}

\* Whoever frees the pool joins every thread that was ever started, after a
\* create that failed half way too.
FreeLeavesNoThread ==
    pc[Main] = "none" => \A w \in Workers : pc[w] = "none"

\* No worker is still at work for a call that has returned.
NoWorkerLeftBehind == NoStraggler /\ FreeLeavesNoThread

\* The calls of the owner end: no wakeup between owner and workers is lost.
CallsEnd == pc[Main] \notin {"none", "idle"} ~> pc[Main] \in {"none", "idle"}
=============================================================================
