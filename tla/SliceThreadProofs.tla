-------------------------- MODULE SliceThreadProofs --------------------------
(***************************************************************************)
(* Proofs about SliceThread, for any size of the pool and any number of    *)
(* jobs: the execute of the pool is a parallel loop and a barrier.         *)
(*                                                                         *)
(* The two atomic counters are the cardinalities of sets of runners: those *)
(* that came into run_jobs, and those that left it (Counted).  The last to *)
(* leave is therefore the one that completes the set of runners an execute *)
(* uses (LeavesCount), and when it is out nobody is busy (NobodyBusy).     *)
(***************************************************************************)
EXTENDS SliceThreadMC, FiniteSetTheorems, TLAPS

Open == pc[Main] \in {"wake", "mainfunc", "run", "job", "claim", "wait", "sleepdone", "wokendone"}

\* A worker that waits for the next execute, and one that has been woken for this one.
Quiet(w) == pc[w] = "park" \/ (pc[w] \in {"parked", "woken"} /\ wdone[w] = 1)
Busy(w) == pc[w] \in {"run", "job", "claim", "report"} \/ (pc[w] = "woken" /\ wdone[w] = 0)
Stopping(w) == pc[w] = "exited" \/ (pc[w] = "woken" /\ wdone[w] = 0)

\* The types of the variables but for the bounds that Ranges states.
Labels == {"none", "create", "created", "free", "idle", "wake", "mainfunc", "wait", "sleepdone",
           "wokendone", "stop", "join", "start", "parked", "woken", "exited", "run", "job",
           "claim", "report", "park"}
Locals == [jobs : 0 .. MaxJobs, active : 0 .. NThreads, nr : 0 .. NThreads, cur : 0 .. MaxJobs]
Types ==
    /\ pc \in [Runners -> Labels]
    /\ wdone \in [Workers -> {0, 1}]
    /\ nb_threads \in 0 .. NThreads /\ nb_active \in 0 .. NThreads /\ nb_jobs \in 0 .. MaxJobs
    /\ first_job \in Nat /\ current_job \in Nat
    /\ done \in {0, 1} /\ finished \in {0, 1}
    /\ loc \in [Runners -> Locals]
    /\ i \in 0 .. NThreads
Flags == main_func \in BOOLEAN /\ execute_main \in BOOLEAN

\* Where the owner is, and what it knows there.
Owner ==
    /\ pc[Main] \in {"none", "create", "created", "free", "idle", "wake", "mainfunc", "wait",
                     "sleepdone", "wokendone", "stop", "join", "run", "job", "claim"}
    /\ pc[Main] # "none" => NbWorkers \in 0 .. NThreads - 1
    /\ pc[Main] \in {"stop", "join"} => finished = 1
    /\ pc[Main] \notin {"none", "stop", "join"} => finished = 0
    /\ pc[Main] \in {"create", "created", "stop", "join"} => i <= NbWorkers
    /\ pc[Main] = "created" => i < NbWorkers
    /\ pc[Main] \in {"create", "created", "idle"} \/ Open => nb_threads >= 1
    /\ execute_main => main_func
    /\ pc[Main] \in {"run", "job", "claim"} => ~execute_main
    /\ pc[Main] = "mainfunc" => execute_main
    /\ Open => /\ nb_jobs >= 1 /\ nb_active = MinOf(nb_jobs, nb_threads)
               /\ IF pc[Main] = "wake" THEN i <= WorkersToWake ELSE i = WorkersToWake

\* Where a worker is while the owner is there.
Hand(w) ==
    /\ pc[w] \in {"none", "start", "parked", "woken", "exited", "run", "job", "claim", "report",
                  "park"}
    /\ pc[w] = "parked" => wdone[w] = 1
    /\ pc[w] \in {"run", "job", "claim", "report", "park", "exited"} => wdone[w] = 0
    /\ w >= NbWorkers \/ pc[Main] = "none" => pc[w] = "none"
    /\ pc[Main] \in {"create", "created"} /\ pc[w] \in {"none", "start"} => wdone[w] = 0
    /\ pc[Main] = "create" => IF w < i THEN Quiet(w) ELSE pc[w] = "none"
    /\ pc[Main] = "created" => IF w < i THEN Quiet(w)
                               ELSE IF w = i THEN pc[w] = "start" \/ Quiet(w) ELSE pc[w] = "none"
    /\ pc[Main] \in {"free", "idle"} /\ w < NbWorkers => Quiet(w)
    /\ Open /\ w < NbWorkers => Quiet(w) \/ (Busy(w) /\ w < i)
    /\ pc[Main] = "stop" /\ w < NbWorkers => IF w < i THEN Stopping(w) ELSE Quiet(w)
    /\ pc[Main] = "join" /\ w < NbWorkers => IF w < i THEN pc[w] = "none" ELSE Stopping(w)
Hands == \A w \in Workers : Hand(w)

\* The runners an execute uses, and those that have left run_jobs.
Takes(r) == IF r = Main THEN ~execute_main ELSE r < WorkersToWake
Participants == {r \in Runners : Takes(r)}
HasLeft(r) ==
    IF r = Main THEN ~execute_main /\ pc[Main] \in {"wait", "sleepdone", "wokendone"}
    ELSE r < i /\ (Quiet(r) \/ pc[r] = "report")
Left == {r \in Runners : HasLeft(r)}

\* The two atomic counters count the runners that came in, and that have left.
Counted ==
    Open =>
        /\ first_job = Cardinality(InJobs \cup Left)
        /\ current_job >= nb_active
        /\ Cardinality(Left) = IF current_job <= nb_jobs THEN 0 ELSE current_job - nb_jobs

\* Only the last runner reports, and only if it is a worker.
Reports ==
    /\ ~Open => done = 0
    /\ done = 1 \/ (\E w \in Workers : pc[w] = "report") => Left = Participants
    /\ \A w \in Workers : pc[w] = "report" =>
          done = 0 /\ \A v \in Workers : pc[v] = "report" => v = w

\* The jobs begun, and the numbers of the runners inside jobs.
Jobs ==
    /\ begun = IF Open THEN {j \in 0 .. nb_jobs - 1 : j < first_job \/ (nb_active <= j /\ j < current_job)}
               ELSE 0 .. nb_jobs - 1
    /\ \A r \in InJobs :
          /\ loc[r].jobs = nb_jobs /\ loc[r].active = nb_active /\ loc[r].nr < first_job
          /\ \A q \in InJobs : loc[q].nr = loc[r].nr => q = r

Ranges == first_job <= nb_active /\ current_job <= nb_jobs + nb_active

\* The inductive invariant.
Inv == Types /\ Flags /\ Owner /\ Hands /\ Counted /\ Reports /\ Jobs /\ Ranges

LEMMA Threads ==
  /\ Main \in Runners /\ Main \notin Workers /\ Workers \subseteq Runners
  /\ \A w \in Workers : w \in Int /\ w >= 0 /\ w <= NThreads - 2
  /\ \A r \in Runners : r = Main \/ r \in Workers
  /\ NThreads \in Nat /\ NThreads >= 1 /\ MaxJobs \in Nat /\ MaxJobs >= 1
BY NThreadsAssumption, MaxJobsAssumption DEF Main, Workers, Runners

\* What the owner does between calls.
LEMMA CreateKeeps ==
  ASSUME Inv, NEW n \in 1 .. NThreads, NEW mf \in BOOLEAN, Create(n, mf)
  PROVE  Types' /\ Flags' /\ Owner' /\ Hands'
<1> USE Threads DEF Inv, Create, Goto
<1>1. Types'
  BY DEF Types, Labels
<1>2. Owner'
  BY DEF Types, Owner, Open, NbWorkers
<1>3. Hands'
  BY DEF Types, Hands, Hand, Open, NbWorkers, Quiet, Busy, Stopping
<1>4. Flags'
  BY Zenon DEF Flags
<1> QED BY <1>4, <1>1, <1>2, <1>3

\* Whoever is inside run_jobs is there for an execute that has not returned, and
\* is one of the runners it uses.
LEMMA InsideIsOpen ==
  ASSUME Inv, NEW r \in Runners, pc[r] \in {"run", "job", "claim", "report"}
  PROVE  Open /\ Takes(r) /\ (r # Main => r < i)
<1> USE Threads DEF Inv
<1>1. Open /\ (r # Main => r < i)
  BY DEF Owner, Hands, Hand, Open, Quiet, Stopping
<1>2. Takes(r)
  BY <1>1 DEF Takes, Owner, Types, WorkersToWake
<1> QED BY <1>1, <1>2

LEMMA FiniteSets ==
  /\ IsFiniteSet(Participants) /\ IsFiniteSet(InJobs) /\ IsFiniteSet(Left)
  /\ IsFiniteSet(InJobs \cup Left)
<1>1. IsFiniteSet(0 .. NThreads)
  BY Threads, FS_Interval
<1>2. Runners \subseteq 0 .. NThreads
  BY Threads DEF Main
<1>3. \A S \in SUBSET (0 .. NThreads) : IsFiniteSet(S)
  BY <1>1, FS_Subset
<1> QED
  BY <1>2, <1>3 DEF Participants, InJobs, Left

\* An execute uses as many runners as nb_active says.
LEMMA ParticipantsCount ==
  ASSUME Inv, Open
  PROVE  Cardinality(Participants) = nb_active
<1> USE Threads DEF Inv
<1>1. /\ nb_active \in Nat /\ nb_active >= 1 /\ nb_active <= nb_threads
      /\ nb_threads \in Nat /\ nb_threads <= NThreads
      /\ NbWorkers <= NThreads - 1
  BY DEF Owner, Types, MinOf, Open
<1>2. CASE execute_main
  <2>1. nb_active - 1 <= NThreads - 2
    BY <1>1, <1>2 DEF Owner, NbWorkers
  <2>2. Participants = 0 .. nb_active - 1
    BY <1>1, <1>2, <2>1 DEF Participants, Takes, Runners, Workers, Main, WorkersToWake
  <2> QED
    BY <1>1, <2>2, FS_Interval
<1>3. CASE ~execute_main
  <2>1. Participants = (0 .. nb_active - 2) \cup {Main}
    BY <1>1, <1>3 DEF Participants, Takes, Runners, Workers, Main, WorkersToWake
  <2>2. IsFiniteSet(0 .. nb_active - 2) /\ Cardinality(0 .. nb_active - 2) = nb_active - 1
    BY <1>1, FS_Interval
  <2>3. Main \notin 0 .. nb_active - 2
    BY <1>1 DEF Main
  <2>4. Cardinality((0 .. nb_active - 2) \cup {Main}) = (nb_active - 1) + 1
    BY <2>2, <2>3, FS_AddElement
  <2> QED
    BY <1>1, <2>1, <2>4
<1> QED BY <1>2, <1>3

LEMMA PartsOfParticipants ==
  ASSUME Inv, Open
  PROVE  InJobs \subseteq Participants /\ Left \subseteq Participants
<1> USE Threads DEF Inv
<1>1. InJobs \subseteq Participants
  BY InsideIsOpen DEF InJobs, Participants
<1>2. ASSUME NEW r \in Runners, HasLeft(r) PROVE Takes(r)
  BY <1>2 DEF HasLeft, Takes, Owner, Types, WorkersToWake
<1> QED BY <1>1, <1>2 DEF Left, Participants

\* A runner that enters run_jobs finds a thread number that is free.
LEMMA EntersCount ==
  ASSUME Inv, NEW r \in Runners, pc[r] = "run"
  PROVE  /\ r \notin InJobs /\ r \notin Left
         /\ Cardinality((InJobs \cup Left) \cup {r}) = first_job + 1
         /\ first_job < nb_active
<1> USE Threads DEF Inv
<1>1. Open /\ Takes(r) BY InsideIsOpen
<1>2. r \notin InJobs /\ r \notin Left
  BY DEF InJobs, Left, HasLeft, Quiet
<1>3. Cardinality((InJobs \cup Left) \cup {r}) = first_job + 1
  BY <1>1, <1>2, FiniteSets, FS_AddElement DEF Counted
<1>4. (InJobs \cup Left) \cup {r} \in SUBSET Participants
  BY <1>1, PartsOfParticipants DEF Participants
<1>5. first_job + 1 <= nb_active
  BY <1>1, <1>3, <1>4, FiniteSets, ParticipantsCount, FS_Subset
<1> QED BY <1>2, <1>3, <1>5 DEF Types

\* A runner that finds no job left leaves; it is the last to leave exactly if
\* IsLast holds.
LEMMA LeavesCount ==
  ASSUME Inv, NEW r \in Runners, pc[r] = "claim", current_job >= nb_jobs
  PROVE  /\ r \notin Left /\ loc[r].jobs = nb_jobs /\ loc[r].active = nb_active
         /\ Cardinality(Left \cup {r}) = current_job + 1 - nb_jobs
         /\ current_job + 1 <= nb_jobs + nb_active
         /\ IsLast(r) <=> Left \cup {r} = Participants
<1> USE Threads DEF Inv
<1>1. Open /\ Takes(r) BY InsideIsOpen
<1>2. r \notin Left /\ loc[r].jobs = nb_jobs /\ loc[r].active = nb_active
  BY DEF InJobs, Left, HasLeft, Quiet, Jobs
<1>3. Cardinality(Left) = current_job - nb_jobs
  BY <1>1 DEF Counted, Types
<1>4. Cardinality(Left \cup {r}) = current_job + 1 - nb_jobs
  <2>1. Cardinality(Left \cup {r}) = Cardinality(Left) + 1
    BY <1>2, FiniteSets, FS_AddElement
  <2> QED
    BY <1>3, <2>1 DEF Types
<1>5. Left \cup {r} \in SUBSET Participants
  BY <1>1, PartsOfParticipants DEF Participants
<1>6. /\ Cardinality(Left \cup {r}) <= nb_active
      /\ nb_active = Cardinality(Left \cup {r}) => Participants = Left \cup {r}
  BY <1>1, <1>5, FiniteSets, ParticipantsCount, FS_Subset
<1>7. IsLast(r) <=> current_job = nb_jobs + nb_active - 1
  BY <1>2 DEF IsLast
<1>8. Left \cup {r} = Participants => nb_active = Cardinality(Left \cup {r})
  BY <1>1, ParticipantsCount
<1> QED BY <1>2, <1>4, <1>6, <1>7, <1>8 DEF Types

\* Once everybody has left, nobody is busy.
LEMMA NobodyBusy ==
  ASSUME Inv, Open, pc[Main] # "wake", Participants \subseteq Left \cup {Main},
         \A w \in Workers : pc[w] # "report"
  PROVE  \A w \in Workers : w < NbWorkers => Quiet(w)
<1> USE Threads DEF Inv
<1> TAKE w \in Workers
<1> HAVE w < NbWorkers
<1>1. CASE Quiet(w) BY <1>1
<1>2. CASE w < i
  <2>1. w < WorkersToWake
    BY <1>2 DEF Owner
  <2>2. w \in Participants
    BY <2>1 DEF Participants, Takes
  <2>3. HasLeft(w)
    BY <2>2 DEF Left
  <2> QED BY <2>3 DEF HasLeft
<1> QED BY <1>1, <1>2 DEF Hands, Hand

LEMMA CreateWorkerKeeps ==
  ASSUME Inv, CreateWorker
  PROVE  Types' /\ Flags' /\ Owner' /\ Hands'
<1> USE Threads DEF Inv, CreateWorker, Goto, pool
<1>1. Types'
  BY DEF Types, Labels, Owner, NbWorkers, MinOf, Open, WorkersToWake
<1>2. Flags'
  BY Zenon DEF Flags
<1>3. Owner'
  BY DEF Types, Owner, Open, NbWorkers, MinOf, WorkersToWake, Hands, Hand
<1>4. Hands'
  BY DEF Types, Owner, Hands, Hand, Open, NbWorkers, Quiet, Busy, Stopping, MinOf, WorkersToWake
<1> QED BY <1>1, <1>2, <1>3, <1>4

LEMMA CreateWorkerFailsKeeps ==
  ASSUME Inv, CreateWorkerFails
  PROVE  Types' /\ Flags' /\ Owner' /\ Hands'
<1> USE Threads DEF Inv, CreateWorkerFails, Goto, pool, StartedThreads
<1>1. Types'
  BY DEF Types, Labels, Owner, NbWorkers, MinOf, Open, WorkersToWake
<1>2. Flags'
  BY Zenon DEF Flags
<1>3. Owner'
  BY DEF Types, Owner, Open, NbWorkers, MinOf, WorkersToWake, Hands, Hand
<1>4. Hands'
  BY DEF Types, Owner, Hands, Hand, Open, NbWorkers, Quiet, Busy, Stopping, MinOf, WorkersToWake
<1> QED BY <1>1, <1>2, <1>3, <1>4

LEMMA WorkerCreatedKeeps ==
  ASSUME Inv, WorkerCreated
  PROVE  Types' /\ Flags' /\ Owner' /\ Hands'
<1> USE Threads DEF Inv, WorkerCreated, Goto, pool
<1>1. Types'
  BY DEF Types, Labels, Owner, NbWorkers, MinOf, Open, WorkersToWake
<1>2. Flags'
  BY Zenon DEF Flags
<1>3. Owner'
  BY DEF Types, Owner, Open, NbWorkers, MinOf, WorkersToWake, Hands, Hand
<1>4. Hands'
  BY DEF Types, Owner, Hands, Hand, Open, NbWorkers, Quiet, Busy, Stopping, MinOf, WorkersToWake
<1> QED BY <1>1, <1>2, <1>3, <1>4

LEMMA CreateDoneKeeps ==
  ASSUME Inv, CreateDone
  PROVE  Types' /\ Flags' /\ Owner' /\ Hands'
<1> USE Threads DEF Inv, CreateDone, Goto, pool
<1>1. Types'
  BY DEF Types, Labels, Owner, NbWorkers, MinOf, Open, WorkersToWake
<1>2. Flags'
  BY Zenon DEF Flags
<1>3. Owner'
  BY DEF Types, Owner, Open, NbWorkers, MinOf, WorkersToWake, Hands, Hand
<1>4. Hands'
  BY DEF Types, Owner, Hands, Hand, Open, NbWorkers, Quiet, Busy, Stopping, MinOf, WorkersToWake
<1> QED BY <1>1, <1>2, <1>3, <1>4

LEMMA ExecuteKeeps ==
  ASSUME Inv, NEW n \in 1 .. MaxJobs, NEW em \in BOOLEAN, Execute(n, em)
  PROVE  Types' /\ Flags' /\ Owner' /\ Hands'
<1> USE Threads DEF Inv, Execute, Goto, pool, FirstUnassigned
<1>1. Types'
  BY DEF Types, Labels, Owner, NbWorkers, MinOf, Open, WorkersToWake
<1>2. Flags'
  BY Zenon DEF Flags
<1>3. Owner'
  <2>1. execute_main' => main_func'
    BY Zenon
  <2>2. /\ nb_jobs' >= 1 /\ nb_active' = MinOf(nb_jobs', nb_threads') /\ i' = 0
        /\ UNCHANGED <<main_func, nb_threads, finished>>
        /\ pc'[Main] = "wake" /\ nb_active' >= 1 /\ nb_active' \in Int
    BY DEF Types, Owner, MinOf
  <2>3. 0 <= WorkersToWake'
    BY <2>2 DEF WorkersToWake
  <2>4. /\ NbWorkers' \in 0 .. NThreads - 1 /\ finished = 0 /\ nb_threads >= 1
    BY DEF Owner, NbWorkers
  <2> HIDE DEF Execute
  <2> QED BY <2>1, <2>2, <2>3, <2>4 DEF Owner, Open
<1>4. Hands'
  BY DEF Types, Owner, Hands, Hand, Open, NbWorkers, Quiet, Busy, Stopping, MinOf, WorkersToWake
<1> QED BY <1>1, <1>2, <1>3, <1>4

LEMMA WakeWorkerKeeps ==
  ASSUME Inv, WakeWorker
  PROVE  Types' /\ Flags' /\ Owner' /\ Hands'
<1> USE Threads DEF Inv, WakeWorker, Goto, pool, WakeUp, MutexFree
<1>1. Types'
  <2>1. i' \in 0 .. NThreads
    BY DEF Types, Owner, NbWorkers, MinOf, Open, WorkersToWake
  <2>2. pc' \in [Runners -> Labels]
    BY DEF Types, Labels
  <2>3. wdone' \in [Workers -> {0, 1}]
    BY DEF Types
  <2> QED BY <2>1, <2>2, <2>3 DEF Types
<1>2. Flags'
  BY Zenon DEF Flags
<1>3. Owner'
  BY DEF Types, Owner, Open, NbWorkers, MinOf, WorkersToWake, Hands, Hand
<1>4. Hands'
  BY DEF Types, Owner, Hands, Hand, Open, NbWorkers, Quiet, Busy, Stopping, MinOf, WorkersToWake
<1> QED BY <1>1, <1>2, <1>3, <1>4

LEMMA AllAwakeKeeps ==
  ASSUME Inv, AllAwake
  PROVE  Types' /\ Flags' /\ Owner' /\ Hands'
<1> USE Threads DEF Inv, AllAwake, Goto, pool
<1>1. Types'
  BY DEF Types, Labels, Owner, NbWorkers, MinOf, Open, WorkersToWake
<1>2. Flags'
  BY Zenon DEF Flags
<1>3. Owner'
  BY DEF Types, Owner, Open, NbWorkers, MinOf, WorkersToWake, Hands, Hand
<1>4. Hands'
  BY DEF Types, Owner, Hands, Hand, Open, NbWorkers, Quiet, Busy, Stopping, MinOf, WorkersToWake
<1> QED BY <1>1, <1>2, <1>3, <1>4

LEMMA MainFuncReturnsKeeps ==
  ASSUME Inv, MainFuncReturns
  PROVE  Types' /\ Flags' /\ Owner' /\ Hands'
<1> USE Threads DEF Inv, MainFuncReturns, Goto, pool
<1>1. Types'
  BY DEF Types, Labels, Owner, NbWorkers, MinOf, Open, WorkersToWake
<1>2. Flags'
  BY Zenon DEF Flags
<1>3. Owner'
  BY DEF Types, Owner, Open, NbWorkers, MinOf, WorkersToWake, Hands, Hand
<1>4. Hands'
  BY DEF Types, Owner, Hands, Hand, Open, NbWorkers, Quiet, Busy, Stopping, MinOf, WorkersToWake
<1> QED BY <1>1, <1>2, <1>3, <1>4

LEMMA WaitDoneKeeps ==
  ASSUME Inv, WaitDone
  PROVE  Types' /\ Flags' /\ Owner' /\ Hands'
<1> USE Threads DEF Inv, WaitDone, Goto, pool
<1>1. Types'
  BY DEF Types, Labels, Owner, NbWorkers, MinOf, Open, WorkersToWake
<1>2. Flags'
  BY Zenon DEF Flags
<1>3. Owner'
  BY DEF Types, Owner, Open, NbWorkers, MinOf, WorkersToWake, Hands, Hand
<1>4. Hands'
  <2>1. CASE done = 1
    <3>1. Open /\ Left = Participants /\ \A w \in Workers : pc[w] # "report"
      BY <2>1 DEF Open, Reports
    <3>2. \A w \in Workers : w < NbWorkers => Quiet(w)
      BY <3>1, NobodyBusy
    <3>3. pc' = [pc EXCEPT ![Main] = "idle"]
      BY <2>1
    <3> QED
      BY <3>1, <3>2, <3>3 DEF Types, Hands, Hand, Open, NbWorkers, Quiet
  <2>2. CASE done # 1
    BY <2>2 DEF Types, Owner, Hands, Hand, Open, NbWorkers, Quiet, Busy, Stopping
  <2> QED BY <2>1, <2>2
<1> QED BY <1>1, <1>2, <1>3, <1>4

LEMMA FreeKeeps ==
  ASSUME Inv, Free
  PROVE  Types' /\ Flags' /\ Owner' /\ Hands'
<1> USE Threads DEF Inv, Free, Goto, pool
<1>1. Types'
  BY DEF Types, Labels, Owner, NbWorkers, MinOf, Open, WorkersToWake
<1>2. Flags'
  BY Zenon DEF Flags
<1>3. Owner'
  BY DEF Types, Owner, Open, NbWorkers, MinOf, WorkersToWake, Hands, Hand
<1>4. Hands'
  BY DEF Types, Owner, Hands, Hand, Open, NbWorkers, Quiet, Busy, Stopping, MinOf, WorkersToWake
<1> QED BY <1>1, <1>2, <1>3, <1>4

LEMMA StopWorkerKeeps ==
  ASSUME Inv, StopWorker
  PROVE  Types' /\ Flags' /\ Owner' /\ Hands'
<1> USE Threads DEF Inv, StopWorker, Goto, pool, WakeUp, MutexFree
<1>1. Types'
  <2>1. i' \in 0 .. NThreads
    BY DEF Types, Owner, NbWorkers, MinOf, Open, WorkersToWake
  <2>2. pc' \in [Runners -> Labels]
    BY DEF Types, Labels
  <2>3. wdone' \in [Workers -> {0, 1}]
    BY DEF Types
  <2> QED BY <2>1, <2>2, <2>3 DEF Types
<1>2. Flags'
  BY Zenon DEF Flags
<1>3. Owner'
  BY DEF Types, Owner, Open, NbWorkers, MinOf, WorkersToWake, Hands, Hand
<1>4. Hands'
  BY DEF Types, Owner, Hands, Hand, Open, NbWorkers, Quiet, Busy, Stopping, MinOf, WorkersToWake
<1> QED BY <1>1, <1>2, <1>3, <1>4

LEMMA AllStoppedKeeps ==
  ASSUME Inv, AllStopped
  PROVE  Types' /\ Flags' /\ Owner' /\ Hands'
<1> USE Threads DEF Inv, AllStopped, Goto, pool
<1>1. Types'
  BY DEF Types, Labels, Owner, NbWorkers, MinOf, Open, WorkersToWake
<1>2. Flags'
  BY Zenon DEF Flags
<1>3. Owner'
  BY DEF Types, Owner, Open, NbWorkers, MinOf, WorkersToWake, Hands, Hand
<1>4. Hands'
  BY DEF Types, Owner, Hands, Hand, Open, NbWorkers, Quiet, Busy, Stopping, MinOf, WorkersToWake
<1> QED BY <1>1, <1>2, <1>3, <1>4

LEMMA JoinWorkerKeeps ==
  ASSUME Inv, JoinWorker
  PROVE  Types' /\ Flags' /\ Owner' /\ Hands'
<1> USE Threads DEF Inv, JoinWorker, Goto, pool
<1>1. Types'
  <2>1. i' \in 0 .. NThreads
    BY DEF Types, Owner, NbWorkers
  <2>2. pc' \in [Runners -> Labels]
    BY DEF Types, Labels
  <2> QED BY <2>1, <2>2 DEF Types
<1>2. Flags'
  BY Zenon DEF Flags
<1>3. Owner'
  BY DEF Types, Owner, Open, NbWorkers, MinOf, WorkersToWake, Hands, Hand
<1>4. Hands'
  BY DEF Types, Owner, Hands, Hand, Open, NbWorkers, Quiet, Busy, Stopping, MinOf, WorkersToWake
<1> QED BY <1>1, <1>2, <1>3, <1>4

LEMMA FreedKeeps ==
  ASSUME Inv, Freed
  PROVE  Types' /\ Flags' /\ Owner' /\ Hands'
<1> USE Threads DEF Inv, Freed, Goto, pool
<1>1. Types'
  BY DEF Types, Labels, Owner, NbWorkers, MinOf, Open, WorkersToWake
<1>2. Flags'
  BY Zenon DEF Flags
<1>3. Owner'
  BY DEF Types, Owner, Open, NbWorkers, MinOf, WorkersToWake, Hands, Hand
<1>4. Hands'
  BY DEF Types, Owner, Hands, Hand, Open, NbWorkers, Quiet, Busy, Stopping, MinOf, WorkersToWake
<1> QED BY <1>1, <1>2, <1>3, <1>4

LEMMA WorkerStartsKeeps ==
  ASSUME Inv, NEW w \in Workers, WorkerStarts(w)
  PROVE  Types' /\ Flags' /\ Owner' /\ Hands'
<1> USE Threads DEF Inv, WorkerStarts, Goto, pool
<1>1. Types'
  BY DEF Types, Labels, Owner, NbWorkers, MinOf, Open, WorkersToWake
<1>2. Flags'
  BY Zenon DEF Flags
<1>3. Owner'
  BY DEF Types, Owner, Open, NbWorkers, MinOf, WorkersToWake, Hands, Hand
<1>4. Hands'
  BY DEF Types, Owner, Hands, Hand, Open, NbWorkers, Quiet, Busy, Stopping, MinOf, WorkersToWake
<1> QED BY <1>1, <1>2, <1>3, <1>4

LEMMA WorkerResumesKeeps ==
  ASSUME Inv, NEW w \in Workers, WorkerResumes(w)
  PROVE  Types' /\ Flags' /\ Owner' /\ Hands'
<1> USE Threads DEF Inv, WorkerResumes, Goto, pool
<1>1. Types'
  BY DEF Types, Labels, Owner, NbWorkers, MinOf, Open, WorkersToWake
<1>2. Flags'
  BY Zenon DEF Flags
<1>3. Owner'
  BY DEF Types, Owner, Open, NbWorkers, MinOf, WorkersToWake, Hands, Hand
<1>4. Hands'
  BY DEF Types, Owner, Hands, Hand, Open, NbWorkers, Quiet, Busy, Stopping, MinOf, WorkersToWake
<1> QED BY <1>1, <1>2, <1>3, <1>4

LEMMA JobReturnsKeeps ==
  ASSUME Inv, NEW r \in Runners, JobReturns(r)
  PROVE  Types' /\ Flags' /\ Owner' /\ Hands'
<1> USE Threads DEF Inv, JobReturns, Goto, pool
<1>1. Types'
  BY DEF Types, Labels, Owner, NbWorkers, MinOf, Open, WorkersToWake
<1>2. Flags'
  BY Zenon DEF Flags
<1>3. Owner'
  BY DEF Types, Owner, Open, NbWorkers, MinOf, WorkersToWake, Hands, Hand
<1>4. Hands'
  BY DEF Types, Owner, Hands, Hand, Open, NbWorkers, Quiet, Busy, Stopping, MinOf, WorkersToWake
<1> QED BY <1>1, <1>2, <1>3, <1>4

LEMMA FirstJobKeeps ==
  ASSUME Inv, NEW r \in Runners, FirstJob(r)
  PROVE  Types' /\ Flags' /\ Owner' /\ Hands'
<1> USE Threads DEF Inv, FirstJob, Goto, pool
<1>1. Types'
  <2>1. first_job < nb_active /\ Open
    BY EntersCount, InsideIsOpen
  <2>2. first_job \in 0 .. NThreads /\ first_job \in 0 .. MaxJobs
    BY <2>1 DEF Types, Owner, MinOf
  <2>3. [jobs |-> nb_jobs, active |-> nb_active, nr |-> first_job, cur |-> first_job] \in Locals
    BY <2>2 DEF Types, Locals
  <2> QED BY <2>3 DEF Types, Labels
<1>2. Flags'
  BY Zenon DEF Flags
<1>3. Owner'
  BY DEF Types, Owner, Open, NbWorkers, MinOf, WorkersToWake, Hands, Hand
<1>4. Hands'
  BY DEF Types, Owner, Hands, Hand, Open, NbWorkers, Quiet, Busy, Stopping, MinOf, WorkersToWake
<1> QED BY <1>1, <1>2, <1>3, <1>4

LEMMA ClaimJobKeeps ==
  ASSUME Inv, NEW r \in Runners, ClaimJob(r)
  PROVE  Types' /\ Flags' /\ Owner' /\ Hands'
<1> USE Threads DEF Inv, ClaimJob, Goto, pool
<1>1. Types'
  <2>1. pc' \in [Runners -> Labels]
    BY DEF Types, Labels
  <2>2. loc' \in [Runners -> Locals]
    <3>1. CASE current_job < loc[r].jobs
      <4>1. loc[r] \in Locals /\ loc \in [Runners -> Locals] /\ current_job \in Nat
        BY DEF Types
      <4>2. [loc[r] EXCEPT !.cur = current_job] \in Locals
        BY <3>1, <4>1 DEF Locals
      <4>3. loc' = [loc EXCEPT ![r] = [loc[r] EXCEPT !.cur = current_job]]
        BY <3>1, <4>1
      <4> QED BY <4>1, <4>2, <4>3
    <3>2. CASE ~ current_job < loc[r].jobs
      <4>1. NoLocals \in Locals
        BY DEF NoLocals, Locals
      <4>2. loc' = [loc EXCEPT ![r] = NoLocals]
        BY <3>2
      <4> QED BY <4>1, <4>2 DEF Types
    <3> QED BY <3>1, <3>2
  <2> QED BY <2>1, <2>2 DEF Types
<1>2. Flags'
  BY Zenon DEF Flags
<1>3. Owner'
  BY DEF Types, Owner, Open, NbWorkers, MinOf, WorkersToWake, Hands, Hand
<1>4. Hands'
  <2>1. Open /\ loc[r].jobs = nb_jobs
    BY InsideIsOpen DEF InJobs, Jobs
  <2>2. CASE r # Main \/ current_job < nb_jobs \/ ~IsLast(r)
    BY <2>1, <2>2 DEF Types, Owner, Hands, Hand, Open, NbWorkers, Quiet, Busy, Stopping,
       MinOf, WorkersToWake
  <2>3. CASE r = Main /\ ~ current_job < nb_jobs /\ IsLast(r)
    <3>0. current_job >= nb_jobs
      BY <2>3 DEF Types
    <3>1. Left \cup {Main} = Participants
      BY <2>3, <3>0, LeavesCount, Zenon
    <3>2. Main \notin Left
      BY <2>3 DEF Left, HasLeft
    <3>3. Main \in Participants
      BY <2>3 DEF Participants, Takes, Owner
    <3>4. \A w \in Workers : pc[w] # "report"
      BY <3>2, <3>3 DEF Reports
    <3>5. \A w \in Workers : w < NbWorkers => Quiet(w)
      BY <2>1, <2>3, <3>1, <3>4, NobodyBusy
    <3>6. pc' = [pc EXCEPT ![Main] = "idle"] /\ UNCHANGED <<main_func, nb_threads, wdone, i>>
      BY <2>1, <2>3
    <3> HIDE DEF ClaimJob
    <3> QED
      BY <3>5, <3>6, <2>1 DEF Types, Hands, Hand, Open, NbWorkers, Quiet
  <2> QED BY <2>2, <2>3
<1> QED BY <1>1, <1>2, <1>3, <1>4

LEMMA ReportDoneKeeps ==
  ASSUME Inv, NEW w \in Workers, ReportDone(w)
  PROVE  Types' /\ Flags' /\ Owner' /\ Hands'
<1> USE Threads DEF Inv, ReportDone, Goto, pool, Report
<1>1. Types'
  BY DEF Types, Labels, Owner, NbWorkers, MinOf, Open, WorkersToWake
<1>2. Flags'
  BY Zenon DEF Flags
<1>3. Owner'
  BY DEF Types, Owner, Open, NbWorkers, MinOf, WorkersToWake, Hands, Hand
<1>4. Hands'
  BY DEF Types, Owner, Hands, Hand, Open, NbWorkers, Quiet, Busy, Stopping, MinOf, WorkersToWake
<1> QED BY <1>1, <1>2, <1>3, <1>4

LEMMA ParkKeeps ==
  ASSUME Inv, NEW w \in Workers, Park(w)
  PROVE  Types' /\ Flags' /\ Owner' /\ Hands'
<1> USE Threads DEF Inv, Park, Goto, pool
<1>1. Types'
  BY DEF Types, Labels, Owner, NbWorkers, MinOf, Open, WorkersToWake
<1>2. Flags'
  BY Zenon DEF Flags
<1>3. Owner'
  BY DEF Types, Owner, Open, NbWorkers, MinOf, WorkersToWake, Hands, Hand
<1>4. Hands'
  BY DEF Types, Owner, Hands, Hand, Open, NbWorkers, Quiet, Busy, Stopping, MinOf, WorkersToWake
<1> QED BY <1>1, <1>2, <1>3, <1>4

LEMMA SpuriousWakeupKeeps ==
  ASSUME Inv, NEW r \in Runners, SpuriousWakeup(r)
  PROVE  Types' /\ Flags' /\ Owner' /\ Hands'
<1> USE Threads DEF Inv, SpuriousWakeup, Goto, pool
<1>1. Types'
  BY DEF Types, Labels, Owner, NbWorkers, MinOf, Open, WorkersToWake
<1>2. Flags'
  BY Zenon DEF Flags
<1>3. Owner'
  BY DEF Types, Owner, Open, NbWorkers, MinOf, WorkersToWake, Hands, Hand
<1>4. Hands'
  BY DEF Types, Owner, Hands, Hand, Open, NbWorkers, Quiet, Busy, Stopping, MinOf, WorkersToWake
<1> QED BY <1>1, <1>2, <1>3, <1>4

CountInv == Counted /\ Reports /\ Jobs /\ Ranges

\* Between two executes there is nobody to count.
LEMMA ClosedCounts ==
  ASSUME Types', Owner', Hands', ~Open', begun' = 0 .. nb_jobs' - 1, done' = 0,
         first_job' <= nb_active', current_job' <= nb_jobs' + nb_active'
  PROVE  CountInv'
<1> USE Threads
<1>1. \A w \in Workers : pc'[w] \notin {"job", "claim", "report"}
  BY DEF Hands, Hand, Owner, Open, Quiet, Stopping
<1>2. pc'[Main] \notin {"job", "claim"}
  BY DEF Open
<1>3. InJobs' = {}
  BY <1>1, <1>2 DEF InJobs
<1>4. Counted' /\ Ranges'
  BY DEF Counted, Ranges
<1>5. Reports'
  BY <1>1 DEF Reports
<1>6. Jobs'
  BY <1>3 DEF Jobs
<1> QED BY <1>4, <1>5, <1>6 DEF CountInv

\* A step that takes nobody in or out of run_jobs changes no count.
LEMMA SameCounts ==
  ASSUME Inv, UNCHANGED <<nb_active, nb_jobs, first_job, current_job, loc, begun>>,
         UNCHANGED <<nb_threads, main_func, execute_main>>,
         Open' <=> Open,
         \A r \in Runners : pc'[r] \in {"job", "claim"} <=> pc[r] \in {"job", "claim"},
         Open => \A r \in Runners : HasLeft(r)' <=> HasLeft(r)
  PROVE  Counted' /\ Jobs' /\ Ranges' /\ (Open => Left' = Left) /\ Participants' = Participants
<1>1. InJobs' = InJobs
  BY DEF InJobs
<1>2. Open => Left' = Left
  BY DEF Left
<1>3. Counted'
  BY <1>1, <1>2 DEF Counted, Inv
<1>4. Jobs'
  BY <1>1, Zenon DEF Jobs, Inv
<1>5. Ranges'
  BY DEF Ranges, Inv
<1>6. Participants' = Participants
  BY Zenon DEF Participants, Takes, WorkersToWake
<1> QED BY <1>2, <1>3, <1>4, <1>5, <1>6

\* Nor does it change who has reported, if nobody enters or leaves "report".
LEMMA SameReports ==
  ASSUME Inv, Open => Left' = Left, Participants' = Participants, done' = done,
         Open' <=> Open, Types', Owner', Hands',
         \A w \in Workers : pc'[w] = "report" <=> pc[w] = "report"
  PROVE  Reports'
<1> USE Threads
<1>1. CASE Open
  BY <1>1, Zenon DEF Reports, Inv
<1>2. CASE ~Open
  <2>1. \A w \in Workers : pc'[w] # "report"
    BY <1>2 DEF Hands, Hand, Owner, Open, Quiet, Stopping
  <2> QED BY <1>2, <2>1 DEF Reports, Inv
<1> QED BY <1>1, <1>2

\* The steps of the owner outside an execute.
LEMMA ClosedSteps ==
  ASSUME Inv, \/ \E n \in 1 .. NThreads : \E mf \in BOOLEAN : Create(n, mf)
              \/ CreateWorker \/ CreateWorkerFails \/ WorkerCreated \/ CreateDone
              \/ Free \/ StopWorker \/ AllStopped \/ JoinWorker \/ Freed
  PROVE  Inv'
<1> USE Threads DEF Inv
<1>0. CASE \E n \in 1 .. NThreads : \E mf \in BOOLEAN : Create(n, mf)
  <2>0. PICK n \in 1 .. NThreads, mf \in BOOLEAN : Create(n, mf)
    BY <1>0
  <2>1. Types' /\ Flags' /\ Owner' /\ Hands'
    BY <2>0, CreateKeeps
  <2>2. /\ pc'[Main] = "create" /\ begun' = {} /\ nb_jobs' = 0 /\ done' = 0
        /\ first_job' = 0 /\ current_job' = 0 /\ nb_active' = 0
    BY <2>0 DEF Create, Goto, Types
  <2>3. CountInv'
    BY <2>1, <2>2, ClosedCounts DEF Open
  <2> QED BY <2>1, <2>3 DEF CountInv
<1>1. CASE CreateWorker
  <2>1. Types' /\ Flags' /\ Owner' /\ Hands'
    BY <1>1, CreateWorkerKeeps
  <2>2. ~Open /\ ~Open'
    BY <1>1 DEF CreateWorker, Goto, Types, Owner, Workers, Main, NbWorkers, Open
  <2>3. UNCHANGED <<begun, nb_jobs, done, first_job, current_job, nb_active>>
    BY <1>1 DEF CreateWorker, pool
  <2>4. CountInv'
    BY <2>1, <2>2, <2>3, ClosedCounts DEF Jobs, Reports, Ranges
  <2> QED BY <2>1, <2>4 DEF CountInv
<1>2. CASE CreateWorkerFails
  <2>1. Types' /\ Flags' /\ Owner' /\ Hands'
    BY <1>2, CreateWorkerFailsKeeps
  <2>2. ~Open /\ ~Open'
    BY <1>2 DEF CreateWorkerFails, Goto, Types, Owner, Workers, Main, NbWorkers, Open
  <2>3. UNCHANGED <<begun, nb_jobs, done, first_job, current_job, nb_active>>
    BY <1>2 DEF CreateWorkerFails, pool
  <2>4. CountInv'
    BY <2>1, <2>2, <2>3, ClosedCounts DEF Jobs, Reports, Ranges
  <2> QED BY <2>1, <2>4 DEF CountInv
<1>3. CASE WorkerCreated
  <2>1. Types' /\ Flags' /\ Owner' /\ Hands'
    BY <1>3, WorkerCreatedKeeps
  <2>2. ~Open /\ ~Open'
    BY <1>3 DEF WorkerCreated, Goto, Types, Owner, Workers, Main, NbWorkers, Open
  <2>3. UNCHANGED <<begun, nb_jobs, done, first_job, current_job, nb_active>>
    BY <1>3 DEF WorkerCreated, pool
  <2>4. CountInv'
    BY <2>1, <2>2, <2>3, ClosedCounts DEF Jobs, Reports, Ranges
  <2> QED BY <2>1, <2>4 DEF CountInv
<1>4. CASE CreateDone
  <2>1. Types' /\ Flags' /\ Owner' /\ Hands'
    BY <1>4, CreateDoneKeeps
  <2>2. ~Open /\ ~Open'
    BY <1>4 DEF CreateDone, Goto, Types, Owner, Workers, Main, NbWorkers, Open
  <2>3. UNCHANGED <<begun, nb_jobs, done, first_job, current_job, nb_active>>
    BY <1>4 DEF CreateDone, pool
  <2>4. CountInv'
    BY <2>1, <2>2, <2>3, ClosedCounts DEF Jobs, Reports, Ranges
  <2> QED BY <2>1, <2>4 DEF CountInv
<1>5. CASE Free
  <2>1. Types' /\ Flags' /\ Owner' /\ Hands'
    BY <1>5, FreeKeeps
  <2>2. ~Open /\ ~Open'
    BY <1>5 DEF Free, Goto, Types, Owner, Workers, Main, NbWorkers, Open
  <2>3. UNCHANGED <<begun, nb_jobs, done, first_job, current_job, nb_active>>
    BY <1>5 DEF Free, pool
  <2>4. CountInv'
    BY <2>1, <2>2, <2>3, ClosedCounts DEF Jobs, Reports, Ranges
  <2> QED BY <2>1, <2>4 DEF CountInv
<1>6. CASE StopWorker
  <2>1. Types' /\ Flags' /\ Owner' /\ Hands'
    BY <1>6, StopWorkerKeeps
  <2>2. ~Open /\ ~Open'
    BY <1>6 DEF StopWorker, WakeUp, Goto, Types, Owner, Workers, Main, NbWorkers, Open
  <2>3. UNCHANGED <<begun, nb_jobs, done, first_job, current_job, nb_active>>
    BY <1>6 DEF StopWorker, pool
  <2>4. CountInv'
    BY <2>1, <2>2, <2>3, ClosedCounts DEF Jobs, Reports, Ranges
  <2> QED BY <2>1, <2>4 DEF CountInv
<1>7. CASE AllStopped
  <2>1. Types' /\ Flags' /\ Owner' /\ Hands'
    BY <1>7, AllStoppedKeeps
  <2>2. ~Open /\ ~Open'
    BY <1>7 DEF AllStopped, Goto, Types, Owner, Workers, Main, NbWorkers, Open
  <2>3. UNCHANGED <<begun, nb_jobs, done, first_job, current_job, nb_active>>
    BY <1>7 DEF AllStopped, pool
  <2>4. CountInv'
    BY <2>1, <2>2, <2>3, ClosedCounts DEF Jobs, Reports, Ranges
  <2> QED BY <2>1, <2>4 DEF CountInv
<1>8. CASE JoinWorker
  <2>1. Types' /\ Flags' /\ Owner' /\ Hands'
    BY <1>8, JoinWorkerKeeps
  <2>2. ~Open /\ ~Open'
    BY <1>8 DEF JoinWorker, Goto, Types, Owner, Workers, Main, NbWorkers, Open
  <2>3. UNCHANGED <<begun, nb_jobs, done, first_job, current_job, nb_active>>
    BY <1>8 DEF JoinWorker, pool
  <2>4. CountInv'
    BY <2>1, <2>2, <2>3, ClosedCounts DEF Jobs, Reports, Ranges
  <2> QED BY <2>1, <2>4 DEF CountInv
<1>9. CASE Freed
  <2>1. Types' /\ Flags' /\ Owner' /\ Hands'
    BY <1>9, FreedKeeps
  <2>2. ~Open /\ ~Open'
    BY <1>9 DEF Freed, Goto, Types, Owner, Workers, Main, NbWorkers, Open
  <2>3. UNCHANGED <<begun, nb_jobs, done, first_job, current_job, nb_active>>
    BY <1>9 DEF Freed, pool
  <2>4. CountInv'
    BY <2>1, <2>2, <2>3, ClosedCounts DEF Jobs, Reports, Ranges
  <2> QED BY <2>1, <2>4 DEF CountInv
<1> QED BY <1>0, <1>1, <1>2, <1>3, <1>4, <1>5, <1>6, <1>7, <1>8, <1>9

\* The steps inside an execute, or of idle workers, that count nobody in or out.
LEMMA SilentSteps ==
  ASSUME Inv, \/ WakeWorker \/ AllAwake \/ MainFuncReturns
              \/ \E w \in Workers : WorkerStarts(w) \/ WorkerResumes(w) \/ Park(w)
              \/ \E r \in Runners : JobReturns(r) \/ SpuriousWakeup(r)
  PROVE  Inv'
<1> USE Threads DEF Inv
<1>1. CASE WakeWorker
  <2>1. Types' /\ Flags' /\ Owner' /\ Hands'
    BY <1>1, WakeWorkerKeeps
  <2>2. /\ UNCHANGED <<nb_active, nb_jobs, first_job, current_job, loc, begun>>
        /\ UNCHANGED <<nb_threads, main_func, execute_main, done>>
    BY <1>1 DEF WakeWorker, pool
  <2>3. Open' <=> Open
    BY <1>1 DEF WakeWorker, WakeUp, MutexFree, Goto, Types, Open
  <2>4. \A q \in Runners : /\ pc'[q] \in {"job", "claim"} <=> pc[q] \in {"job", "claim"}
                           /\ pc'[q] = "report" <=> pc[q] = "report"
    BY <1>1 DEF WakeWorker, WakeUp, MutexFree, Goto, Types, Owner, Hands, Hand
  <2>5. Open => \A q \in Runners : HasLeft(q)' <=> HasLeft(q)
    BY <1>1, <2>2 DEF WakeWorker, WakeUp, MutexFree, Goto, Types, Owner, Hands, Hand, Open, HasLeft, Quiet, WorkersToWake
  <2>6. Counted' /\ Jobs' /\ Ranges' /\ (Open => Left' = Left) /\ Participants' = Participants
    BY <2>2, <2>3, <2>4, <2>5, SameCounts
  <2>7. Reports'
    BY <2>1, <2>2, <2>3, <2>4, <2>6, SameReports
  <2> QED BY <2>1, <2>6, <2>7
<1>2. CASE AllAwake
  <2>1. Types' /\ Flags' /\ Owner' /\ Hands'
    BY <1>2, AllAwakeKeeps
  <2>2. /\ UNCHANGED <<nb_active, nb_jobs, first_job, current_job, loc, begun>>
        /\ UNCHANGED <<nb_threads, main_func, execute_main, done>>
    BY <1>2 DEF AllAwake, pool
  <2>3. Open' <=> Open
    BY <1>2 DEF AllAwake, Goto, Types, Open
  <2>4. \A q \in Runners : /\ pc'[q] \in {"job", "claim"} <=> pc[q] \in {"job", "claim"}
                           /\ pc'[q] = "report" <=> pc[q] = "report"
    BY <1>2 DEF AllAwake, Goto, Types, Owner, Hands, Hand
  <2>5. Open => \A q \in Runners : HasLeft(q)' <=> HasLeft(q)
    BY <1>2, <2>2 DEF AllAwake, Goto, Types, Owner, Hands, Hand, Open, HasLeft, Quiet, WorkersToWake
  <2>6. Counted' /\ Jobs' /\ Ranges' /\ (Open => Left' = Left) /\ Participants' = Participants
    BY <2>2, <2>3, <2>4, <2>5, SameCounts
  <2>7. Reports'
    BY <2>1, <2>2, <2>3, <2>4, <2>6, SameReports
  <2> QED BY <2>1, <2>6, <2>7
<1>3. CASE MainFuncReturns
  <2>1. Types' /\ Flags' /\ Owner' /\ Hands'
    BY <1>3, MainFuncReturnsKeeps
  <2>2. /\ UNCHANGED <<nb_active, nb_jobs, first_job, current_job, loc, begun>>
        /\ UNCHANGED <<nb_threads, main_func, execute_main, done>>
    BY <1>3 DEF MainFuncReturns, pool
  <2>3. Open' <=> Open
    BY <1>3 DEF MainFuncReturns, Goto, Types, Open
  <2>4. \A q \in Runners : /\ pc'[q] \in {"job", "claim"} <=> pc[q] \in {"job", "claim"}
                           /\ pc'[q] = "report" <=> pc[q] = "report"
    BY <1>3 DEF MainFuncReturns, Goto, Types, Owner, Hands, Hand
  <2>5. Open => \A q \in Runners : HasLeft(q)' <=> HasLeft(q)
    BY <1>3, <2>2 DEF MainFuncReturns, Goto, Types, Owner, Hands, Hand, Open, HasLeft, Quiet, WorkersToWake
  <2>6. Counted' /\ Jobs' /\ Ranges' /\ (Open => Left' = Left) /\ Participants' = Participants
    BY <2>2, <2>3, <2>4, <2>5, SameCounts
  <2>7. Reports'
    BY <2>1, <2>2, <2>3, <2>4, <2>6, SameReports
  <2> QED BY <2>1, <2>6, <2>7
<1>4. ASSUME NEW w \in Workers, WorkerStarts(w) PROVE Inv'
  <2>1. Types' /\ Flags' /\ Owner' /\ Hands'
    BY <1>4, WorkerStartsKeeps
  <2>2. /\ UNCHANGED <<nb_active, nb_jobs, first_job, current_job, loc, begun>>
        /\ UNCHANGED <<nb_threads, main_func, execute_main, done>>
    BY <1>4 DEF WorkerStarts, pool
  <2>3. Open' <=> Open
    BY <1>4 DEF WorkerStarts, Goto, Types, Open
  <2>4. \A q \in Runners : /\ pc'[q] \in {"job", "claim"} <=> pc[q] \in {"job", "claim"}
                           /\ pc'[q] = "report" <=> pc[q] = "report"
    BY <1>4 DEF WorkerStarts, Goto, Types, Owner, Hands, Hand
  <2>5. ~Open
    BY <1>4 DEF WorkerStarts, Owner, Hands, Hand, Open, Quiet, Busy
  <2>6. Counted' /\ Jobs' /\ Ranges' /\ (Open => Left' = Left) /\ Participants' = Participants
    BY <2>2, <2>3, <2>4, <2>5, SameCounts
  <2>7. Reports'
    BY <2>1, <2>2, <2>3, <2>4, <2>6, SameReports
  <2> QED BY <2>1, <2>6, <2>7
<1>5. ASSUME NEW w \in Workers, WorkerResumes(w) PROVE Inv'
  <2>1. Types' /\ Flags' /\ Owner' /\ Hands'
    BY <1>5, WorkerResumesKeeps
  <2>2. /\ UNCHANGED <<nb_active, nb_jobs, first_job, current_job, loc, begun>>
        /\ UNCHANGED <<nb_threads, main_func, execute_main, done>>
    BY <1>5 DEF WorkerResumes, pool
  <2>3. Open' <=> Open
    BY <1>5 DEF WorkerResumes, Goto, Types, Open
  <2>4. \A q \in Runners : /\ pc'[q] \in {"job", "claim"} <=> pc[q] \in {"job", "claim"}
                           /\ pc'[q] = "report" <=> pc[q] = "report"
    BY <1>5 DEF WorkerResumes, Goto, Types, Owner, Hands, Hand
  <2>5. Open => \A q \in Runners : HasLeft(q)' <=> HasLeft(q)
    BY <1>5, <2>2 DEF WorkerResumes, Goto, Types, Owner, Hands, Hand, Open, HasLeft, Quiet, WorkersToWake
  <2>6. Counted' /\ Jobs' /\ Ranges' /\ (Open => Left' = Left) /\ Participants' = Participants
    BY <2>2, <2>3, <2>4, <2>5, SameCounts
  <2>7. Reports'
    BY <2>1, <2>2, <2>3, <2>4, <2>6, SameReports
  <2> QED BY <2>1, <2>6, <2>7
<1>6. ASSUME NEW w \in Workers, Park(w) PROVE Inv'
  <2>1. Types' /\ Flags' /\ Owner' /\ Hands'
    BY <1>6, ParkKeeps
  <2>2. /\ UNCHANGED <<nb_active, nb_jobs, first_job, current_job, loc, begun>>
        /\ UNCHANGED <<nb_threads, main_func, execute_main, done>>
    BY <1>6 DEF Park, pool
  <2>3. Open' <=> Open
    BY <1>6 DEF Park, Goto, Types, Open
  <2>4. \A q \in Runners : /\ pc'[q] \in {"job", "claim"} <=> pc[q] \in {"job", "claim"}
                           /\ pc'[q] = "report" <=> pc[q] = "report"
    BY <1>6 DEF Park, Goto, Types, Owner, Hands, Hand
  <2>5. Open => \A q \in Runners : HasLeft(q)' <=> HasLeft(q)
    BY <1>6, <2>2 DEF Park, Goto, Types, Owner, Hands, Hand, Open, HasLeft, Quiet, WorkersToWake
  <2>6. Counted' /\ Jobs' /\ Ranges' /\ (Open => Left' = Left) /\ Participants' = Participants
    BY <2>2, <2>3, <2>4, <2>5, SameCounts
  <2>7. Reports'
    BY <2>1, <2>2, <2>3, <2>4, <2>6, SameReports
  <2> QED BY <2>1, <2>6, <2>7
<1>7. ASSUME NEW r \in Runners, JobReturns(r) PROVE Inv'
  <2>1. Types' /\ Flags' /\ Owner' /\ Hands'
    BY <1>7, JobReturnsKeeps
  <2>2. /\ UNCHANGED <<nb_active, nb_jobs, first_job, current_job, loc, begun>>
        /\ UNCHANGED <<nb_threads, main_func, execute_main, done>>
    BY <1>7 DEF JobReturns, pool
  <2>3. Open' <=> Open
    BY <1>7 DEF JobReturns, Goto, Types, Open
  <2>4. \A q \in Runners : /\ pc'[q] \in {"job", "claim"} <=> pc[q] \in {"job", "claim"}
                           /\ pc'[q] = "report" <=> pc[q] = "report"
    BY <1>7 DEF JobReturns, Goto, Types, Owner, Hands, Hand
  <2>5. Open => \A q \in Runners : HasLeft(q)' <=> HasLeft(q)
    BY <1>7, <2>2 DEF JobReturns, Goto, Types, Owner, Hands, Hand, Open, HasLeft, Quiet, WorkersToWake
  <2>6. Counted' /\ Jobs' /\ Ranges' /\ (Open => Left' = Left) /\ Participants' = Participants
    BY <2>2, <2>3, <2>4, <2>5, SameCounts
  <2>7. Reports'
    BY <2>1, <2>2, <2>3, <2>4, <2>6, SameReports
  <2> QED BY <2>1, <2>6, <2>7
<1>8. ASSUME NEW r \in Runners, SpuriousWakeup(r) PROVE Inv'
  <2>1. Types' /\ Flags' /\ Owner' /\ Hands'
    BY <1>8, SpuriousWakeupKeeps
  <2>2. /\ UNCHANGED <<nb_active, nb_jobs, first_job, current_job, loc, begun>>
        /\ UNCHANGED <<nb_threads, main_func, execute_main, done>>
    BY <1>8 DEF SpuriousWakeup, pool
  <2>3. Open' <=> Open
    BY <1>8 DEF SpuriousWakeup, Goto, Types, Open
  <2>4. \A q \in Runners : /\ pc'[q] \in {"job", "claim"} <=> pc[q] \in {"job", "claim"}
                           /\ pc'[q] = "report" <=> pc[q] = "report"
    BY <1>8 DEF SpuriousWakeup, Goto, Types, Owner, Hands, Hand
  <2>5. Open => \A q \in Runners : HasLeft(q)' <=> HasLeft(q)
    BY <1>8, <2>2 DEF SpuriousWakeup, Goto, Types, Owner, Hands, Hand, Open, HasLeft, Quiet, WorkersToWake
  <2>6. Counted' /\ Jobs' /\ Ranges' /\ (Open => Left' = Left) /\ Participants' = Participants
    BY <2>2, <2>3, <2>4, <2>5, SameCounts
  <2>7. Reports'
    BY <2>1, <2>2, <2>3, <2>4, <2>6, SameReports
  <2> QED BY <2>1, <2>6, <2>7
<1> QED BY <1>1, <1>2, <1>3, <1>4, <1>5, <1>6, <1>7, <1>8

LEMMA ReportDoneStep ==
  ASSUME Inv, NEW w \in Workers, ReportDone(w)
  PROVE  Inv'
<1> USE Threads DEF Inv
<1>1. Types' /\ Flags' /\ Owner' /\ Hands'
  BY ReportDoneKeeps
<1>2. Open /\ Takes(w) /\ w < i
  BY InsideIsOpen DEF ReportDone
<1>3. /\ UNCHANGED <<nb_active, nb_jobs, first_job, current_job, loc, begun>>
      /\ UNCHANGED <<nb_threads, main_func, execute_main>>
  BY DEF ReportDone, pool
<1>4. Open' <=> Open
  BY DEF ReportDone, Report, Types, Open
<1>5. \A q \in Runners : pc'[q] \in {"job", "claim"} <=> pc[q] \in {"job", "claim"}
  BY DEF ReportDone, Report, Types
<1>6. \A q \in Runners : HasLeft(q)' <=> HasLeft(q)
  BY <1>2, <1>3 DEF ReportDone, Report, Types, Owner, Open, HasLeft, Quiet
<1>7. Counted' /\ Jobs' /\ Ranges' /\ Left' = Left /\ Participants' = Participants
  BY <1>2, <1>3, <1>4, <1>5, <1>6, SameCounts
<1>8. Left = Participants
  BY DEF Reports, ReportDone
<1>9. \A v \in Workers : pc'[v] # "report"
  BY DEF Reports, ReportDone, Report, Types
<1>10. Reports'
  BY <1>2, <1>4, <1>7, <1>8, <1>9 DEF Reports
<1> QED BY <1>1, <1>7, <1>10

\* avpriv_slicethread_execute: everything is counted anew.
LEMMA ExecuteStep ==
  ASSUME Inv, NEW n \in 1 .. MaxJobs, NEW em \in BOOLEAN, Execute(n, em)
  PROVE  Inv'
<1> USE Threads DEF Inv
<1>1. Types' /\ Flags' /\ Owner' /\ Hands'
  BY ExecuteKeeps
<1>2. /\ pc[Main] = "idle" /\ pc' = [pc EXCEPT ![Main] = "wake"]
      /\ nb_jobs' = n /\ nb_active' = MinOf(n, nb_threads) /\ first_job' = 0
      /\ current_job' = nb_active' /\ i' = 0 /\ begun' = {} /\ done' = done /\ wdone' = wdone
  BY DEF Execute, Goto, FirstUnassigned
<1>3. nb_active' \in Nat /\ nb_active' >= 1 /\ nb_active' <= nb_jobs' /\ nb_jobs' \in Nat
  BY <1>2 DEF MinOf, Types, Owner
<1>4. Open' /\ ~Open /\ pc'[Main] = "wake"
  BY <1>2 DEF Open, Types
<1>5. \A w \in Workers : pc'[w] \notin {"job", "claim", "report"}
  BY <1>2 DEF Hands, Hand, Types, Quiet, Owner
<1>6. InJobs' = {}
  BY <1>4, <1>5 DEF InJobs
<1>7. \A r \in Runners : ~HasLeft(r)'
  BY <1>2, <1>4 DEF HasLeft
<1>8. Left' = {}
  BY <1>7 DEF Left
<1>9. Cardinality({}) = 0
  BY FS_EmptySet
<1>10. Counted'
  <2>1. InJobs' \cup Left' = {}
    BY <1>6, <1>8
  <2> QED
    BY <1>2, <1>3, <1>8, <1>9, <2>1 DEF Counted
<1>11. Reports'
  BY <1>2, <1>4, <1>5 DEF Reports
<1>12. Jobs'
  BY <1>2, <1>3, <1>4, <1>6 DEF Jobs
<1>13. Ranges'
  BY <1>2, <1>3 DEF Ranges
<1> QED BY <1>1, <1>10, <1>11, <1>12, <1>13

\* When the last runner has left, or is about to, every job has begun.
LEMMA AllBegun ==
  ASSUME Inv, Open, InJobs \cup Left = Participants, current_job >= nb_jobs
  PROVE  begun = 0 .. nb_jobs - 1
<1> USE DEF Inv
<1>1. first_job = nb_active
  BY ParticipantsCount DEF Counted
<1>2. \A j \in 0 .. nb_jobs - 1 : j < nb_active \/ (nb_active <= j /\ j < current_job)
  BY DEF Types
<1> QED
  BY <1>1, <1>2 DEF Jobs

LEMMA WaitDoneStep ==
  ASSUME Inv, WaitDone
  PROVE  Inv'
<1> USE Threads DEF Inv
<1>1. Types' /\ Flags' /\ Owner' /\ Hands'
  BY WaitDoneKeeps
<1>2. /\ UNCHANGED <<nb_active, nb_jobs, first_job, current_job, loc, begun, wdone, i>>
      /\ UNCHANGED <<nb_threads, main_func, execute_main>>
      /\ Open
  BY DEF WaitDone, pool, Open
<1>3. CASE done = 1
  <2>1. Left = Participants
    BY <1>3 DEF Reports
  <2>2. InJobs \cup Left = Participants
    BY <2>1, <1>2, PartsOfParticipants
  <2>3. Cardinality(Left) = nb_active
    BY <1>2, <2>1, ParticipantsCount
  <2>4. current_job >= nb_jobs
    BY <1>2, <2>3 DEF Counted, Owner, Types, MinOf
  <2>5. begun = 0 .. nb_jobs - 1
    BY <1>2, <2>2, <2>4, AllBegun
  <2>6. done' = 0 /\ ~Open'
    BY <1>3 DEF WaitDone, Goto, Open, Types
  <2>7. CountInv'
    BY <1>1, <1>2, <2>5, <2>6, ClosedCounts DEF Ranges
  <2> QED BY <1>1, <2>7 DEF CountInv
<1>4. CASE done # 1
  <2>1. pc' = [pc EXCEPT ![Main] = "sleepdone"] /\ done' = done
    BY <1>4 DEF WaitDone, Goto
  <2>2. Open' <=> Open
    BY <1>2, <2>1 DEF Open, Types
  <2>3. \A q \in Runners : /\ pc'[q] \in {"job", "claim"} <=> pc[q] \in {"job", "claim"}
                           /\ pc'[q] = "report" <=> pc[q] = "report"
    BY <2>1 DEF Types, WaitDone
  <2>4. \A q \in Runners : HasLeft(q)' <=> HasLeft(q)
    BY <1>2, <2>1 DEF WaitDone, Types, Owner, Hands, Hand, Open, HasLeft, Quiet
  <2>5. Counted' /\ Jobs' /\ Ranges' /\ (Open => Left' = Left) /\ Participants' = Participants
    BY <1>2, <2>2, <2>3, <2>4, SameCounts
  <2>6. Reports'
    BY <1>1, <2>1, <2>2, <2>3, <2>5, SameReports
  <2> QED BY <1>1, <2>5, <2>6
<1> QED BY <1>3, <1>4

\* A runner enters run_jobs.
LEMMA FirstJobStep ==
  ASSUME Inv, NEW r \in Runners, FirstJob(r)
  PROVE  Inv'
<1> USE Threads DEF Inv
<1>1. Types' /\ Flags' /\ Owner' /\ Hands'
  BY FirstJobKeeps
<1>2. /\ pc[r] = "run" /\ pc' = [pc EXCEPT ![r] = "job"]
      /\ first_job' = first_job + 1 /\ begun' = begun \cup {first_job}
      /\ UNCHANGED <<nb_active, nb_jobs, current_job, nb_threads, main_func, execute_main, done,
                     i, wdone>>
  BY DEF FirstJob, Goto
<1>3. /\ r \notin InJobs /\ r \notin Left /\ first_job < nb_active
      /\ Cardinality((InJobs \cup Left) \cup {r}) = first_job + 1
  BY <1>2, EntersCount
<1>4. Open /\ Open'
  BY <1>2, InsideIsOpen DEF Open, Types
<1>5. InJobs' = InJobs \cup {r}
  BY <1>2 DEF InJobs, Types
<1>6. \A q \in Runners : HasLeft(q)' <=> HasLeft(q)
  BY <1>2 DEF HasLeft, Quiet, Types
<1>7. Left' = Left
  BY <1>6 DEF Left
<1>8. Participants' = Participants
  BY <1>2, Zenon DEF Participants, Takes, WorkersToWake
<1>9. Counted'
  <2>1. InJobs' \cup Left' = (InJobs \cup Left) \cup {r}
    BY <1>5, <1>7
  <2>2. first_job' = Cardinality(InJobs' \cup Left')
    BY <1>2, <1>3, <2>1
  <2> QED
    BY <1>2, <1>4, <1>7, <2>2 DEF Counted
<1>10. Reports'
  <2>1. \A w \in Workers : pc'[w] = "report" <=> pc[w] = "report"
    BY <1>2 DEF Types
  <2> QED
    BY <1>1, <1>2, <1>4, <1>7, <1>8, <2>1, SameReports
<1>11. Jobs'
  <2>1. first_job \in 0 .. nb_jobs - 1
    BY <1>3, <1>4 DEF Types, Owner, MinOf
  <2>2. begun' = {j \in 0 .. nb_jobs' - 1 :
                     j < first_job' \/ (nb_active' <= j /\ j < current_job')}
    BY <1>2, <1>3, <1>4, <2>1 DEF Jobs, Types
  <2>3. \A q \in InJobs : loc'[q] = loc[q] /\ q # r
    BY <1>2, <1>3 DEF FirstJob, Types, InJobs
  <2>4. loc'[r] = [jobs |-> nb_jobs, active |-> nb_active, nr |-> first_job, cur |-> first_job]
    BY DEF FirstJob, Types
  <2>5. \A q \in InJobs : loc[q].nr < first_job /\ loc[q].nr \in Int
    BY DEF Jobs, Types, Locals, InJobs
  <2>6. \A q \in InJobs' : loc'[q].jobs = nb_jobs' /\ loc'[q].active = nb_active'
                           /\ loc'[q].nr < first_job'
    BY <1>2, <1>5, <2>3, <2>4, <2>5 DEF Jobs, Types
  <2>7. \A q, p \in InJobs' : loc'[p].nr = loc'[q].nr => p = q
    BY <1>2, <1>5, <2>3, <2>4, <2>5 DEF Jobs, Types
  <2> QED BY <1>4, <2>2, <2>6, <2>7 DEF Jobs
<1>12. Ranges'
  BY <1>2, <1>3 DEF Ranges, Types
<1> QED BY <1>1, <1>9, <1>10, <1>11, <1>12

\* A runner takes its next job, or leaves run_jobs.
LEMMA ClaimJobStep ==
  ASSUME Inv, NEW r \in Runners, ClaimJob(r)
  PROVE  Inv'
<1> USE Threads DEF Inv
<1>1. Types' /\ Flags' /\ Owner' /\ Hands'
  BY ClaimJobKeeps
<1>2. /\ pc[r] = "claim" /\ current_job' = current_job + 1
      /\ UNCHANGED <<nb_active, nb_jobs, first_job, nb_threads, main_func, execute_main, done,
                     i, wdone>>
  BY DEF ClaimJob
<1>3. Open /\ Takes(r) /\ (r # Main => r < i) /\ r \in InJobs
  BY <1>2, InsideIsOpen DEF InJobs
<1>4. loc[r].jobs = nb_jobs /\ loc[r].active = nb_active
  BY <1>3 DEF Jobs
<1>5. Participants' = Participants
  BY <1>2, Zenon DEF Participants, Takes, WorkersToWake
<1>6. CASE current_job < nb_jobs
  <2>1. pc' = [pc EXCEPT ![r] = "job"] /\ begun' = begun \cup {current_job}
        /\ loc' = [loc EXCEPT ![r].cur = current_job]
    BY <1>4, <1>6 DEF ClaimJob, Goto
  <2>2. Open' <=> Open
    BY <2>1, <1>2 DEF Open, Types
  <2>3. InJobs' = InJobs
    BY <2>1, <1>2 DEF InJobs, Types
  <2>4. \A q \in Runners : HasLeft(q)' <=> HasLeft(q)
    BY <1>2, <2>1 DEF HasLeft, Quiet, Types
  <2>5. Left' = Left
    BY <2>4 DEF Left
  <2>6. Counted'
    BY <1>2, <1>3, <1>6, <2>3, <2>5 DEF Counted, Types
  <2>7. Reports'
    <3>1. \A w \in Workers : pc'[w] = "report" <=> pc[w] = "report"
      BY <1>2, <2>1 DEF Types
    <3> QED
      BY <1>1, <1>2, <1>5, <2>2, <2>5, <3>1, SameReports
  <2>8. Jobs'
    <3>1. current_job \in 0 .. nb_jobs - 1 /\ current_job >= nb_active
      BY <1>3, <1>6 DEF Types, Counted
    <3>2. begun' = {j \in 0 .. nb_jobs' - 1 :
                       j < first_job' \/ (nb_active' <= j /\ j < current_job')}
      <4>1. begun = {j \in 0 .. nb_jobs - 1 :
                        j < first_job \/ (nb_active <= j /\ j < current_job)}
        BY <1>3 DEF Jobs
      <4>2. \A j \in 0 .. nb_jobs - 1 : j < current_job + 1 <=> j < current_job \/ j = current_job
        BY DEF Types
      <4> QED BY <1>2, <2>1, <3>1, <4>1, <4>2
    <3>3. \A q \in Runners : loc'[q].jobs = loc[q].jobs /\ loc'[q].active = loc[q].active
                             /\ loc'[q].nr = loc[q].nr
      BY <2>1 DEF Types, Locals
    <3> QED
      BY <1>2, <1>3, <2>2, <2>3, <3>2, <3>3, Zenon DEF Jobs, InJobs
  <2>9. Ranges'
    BY <1>2, <1>6 DEF Ranges, Types
  <2> QED BY <1>1, <2>6, <2>7, <2>8, <2>9
<1>7. CASE ~ current_job < nb_jobs
  <2>0. current_job >= nb_jobs
    BY <1>7 DEF Types
  <2>1. /\ r \notin Left
        /\ Cardinality(Left \cup {r}) = current_job + 1 - nb_jobs
        /\ current_job + 1 <= nb_jobs + nb_active
        /\ IsLast(r) <=> Left \cup {r} = Participants
    BY <1>2, <2>0, LeavesCount
  <2>2. Left # Participants
    BY <1>3, <2>1 DEF Participants
  <2>3. done = 0 /\ \A w \in Workers : pc[w] # "report"
    BY <2>2 DEF Reports, Types
  <2>4. /\ begun' = begun
        /\ loc' = [loc EXCEPT ![r] = NoLocals]
        /\ pc' = [pc EXCEPT ![r] = IF r = Main THEN IF IsLast(r) THEN "idle" ELSE "wait"
                                   ELSE IF IsLast(r) THEN "report" ELSE "park"]
    BY <1>4, <1>7 DEF ClaimJob, Goto
  <2>5. CASE r = Main /\ IsLast(r)
    <3>1. pc' = [pc EXCEPT ![Main] = "idle"]
      BY <2>4, <2>5
    <3>2. ~Open'
      BY <3>1 DEF Open, Types
    <3>3. InJobs \cup Left = Participants
      BY <1>3, <2>1, <2>5, PartsOfParticipants
    <3>4. begun = 0 .. nb_jobs - 1
      BY <1>3, <2>0, <3>3, AllBegun
    <3>5. CountInv'
      BY <1>1, <1>2, <2>1, <2>3, <2>4, <3>2, <3>4, ClosedCounts DEF Ranges
    <3> QED BY <1>1, <3>5 DEF CountInv
  <2>6. CASE ~(r = Main /\ IsLast(r))
    <3>1. \/ r = Main /\ pc' = [pc EXCEPT ![r] = "wait"]
          \/ r # Main /\ IsLast(r) /\ pc' = [pc EXCEPT ![r] = "report"]
          \/ r # Main /\ ~IsLast(r) /\ pc' = [pc EXCEPT ![r] = "park"]
      BY <2>4, <2>6, Zenon
    <3>2. Open'
      BY <1>2, <1>3, <3>1 DEF Open, Types
    <3>3. InJobs' = InJobs \ {r}
      BY <1>2, <3>1 DEF InJobs, Types
    <3>4. HasLeft(r)'
      BY <1>2, <1>3, <3>1 DEF HasLeft, Quiet, Types, Takes
    <3>5. \A q \in Runners \ {r} : HasLeft(q)' <=> HasLeft(q)
      BY <1>2, <3>1 DEF HasLeft, Quiet, Types
    <3>6. Left' = Left \cup {r}
      BY <3>4, <3>5 DEF Left
    <3>7. Counted'
      <4>1. InJobs' \cup Left' = InJobs \cup Left
        BY <1>3, <3>3, <3>6
      <4>2. first_job' = Cardinality(InJobs' \cup Left')
        BY <1>2, <1>3, <4>1 DEF Counted
      <4>3. /\ Cardinality(Left') = current_job' - nb_jobs'
            /\ current_job' > nb_jobs' /\ current_job' >= nb_active'
        BY <1>2, <1>3, <2>0, <2>1, <3>6 DEF Counted, Types
      <4>4. ~ (current_job' <= nb_jobs')
        BY <1>1, <4>3 DEF Types
      <4> QED
        BY <4>2, <4>3, <4>4, Zenon DEF Counted
    <3>8. Reports'
      <4>1. \A w \in Workers : pc'[w] = "report" => w = r /\ IsLast(r)
        BY <2>3, <3>1 DEF Types
      <4> QED
        BY <1>2, <1>5, <2>1, <2>3, <3>2, <3>6, <4>1 DEF Reports
    <3>9. Jobs'
      <4>1. begun' = {j \in 0 .. nb_jobs' - 1 :
                         j < first_job' \/ (nb_active' <= j /\ j < current_job')}
        BY <1>2, <1>3, <2>0, <2>4 DEF Jobs, Types
      <4>2. \A q \in InJobs' : q \in InJobs /\ loc'[q] = loc[q]
        BY <2>4, <3>3 DEF Types, InJobs
      <4> QED
        BY <1>2, <3>2, <4>1, <4>2, Zenon DEF Jobs
    <3>10. Ranges'
      BY <1>2, <2>1 DEF Ranges, Types
    <3> QED BY <1>1, <3>7, <3>8, <3>9, <3>10
  <2> QED BY <2>5, <2>6
<1> QED BY <1>6, <1>7

LEMMA InvInit == Init => Inv
<1> SUFFICES ASSUME Init PROVE Inv
  OBVIOUS
<1> USE Threads DEF Init
<1>1. Types
  BY DEF Types, Labels, NoLocals, Locals
<1>2. Flags
  BY Zenon DEF Flags
<1>3. ~Open
  BY DEF Open
<1>4. Owner /\ Hands
  BY <1>3 DEF Owner, Hands, Hand, Open
<1>5. InJobs = {}
  BY DEF InJobs
<1>6. Counted /\ Reports /\ Jobs /\ Ranges
  BY <1>3, <1>5 DEF Counted, Reports, Jobs, Ranges
<1> QED BY <1>1, <1>2, <1>4, <1>6 DEF Inv

LEMMA InvStep == Inv /\ [Next]_vars => Inv'
<1> SUFFICES ASSUME Inv, [Next]_vars PROVE Inv'
  OBVIOUS
<1>1. ASSUME NEW w \in Workers, WorkerStep(w) PROVE Inv'
  BY <1>1, SilentSteps, FirstJobStep, ClaimJobStep, ReportDoneStep, Threads, Zenon
     DEF WorkerStep, RunJobs
<1>2. CASE OwnerStep
  BY <1>2, ClosedSteps, SilentSteps, FirstJobStep, ClaimJobStep, WaitDoneStep, Threads, Zenon
     DEF OwnerStep, RunJobs
<1>3. CASE \E n \in 1 .. NThreads : \E mf \in BOOLEAN : Create(n, mf)
  BY <1>3, ClosedSteps, Zenon
<1>4. CASE CreateWorkerFails \/ (pc[Main] = "idle" /\ Free)
  BY <1>4, ClosedSteps, Zenon
<1>5. CASE \E n \in 1 .. MaxJobs : \E em \in BOOLEAN : Execute(n, em)
  BY <1>5, ExecuteStep, Zenon
<1>6. CASE \E r \in Runners : SpuriousWakeup(r)
  BY <1>6, SilentSteps, Zenon
<1>7. CASE UNCHANGED vars
  BY <1>7 DEF vars, Inv, Types, Flags, Owner, Hands, Hand, Counted, Reports, Jobs, Ranges, Open,
     NbWorkers, WorkersToWake, Quiet, Busy, Stopping, InJobs, Left, HasLeft, Participants, Takes
<1> QED
  BY <1>1, <1>2, <1>3, <1>4, <1>5, <1>6, <1>7, Zenon DEF Next

LEMMA Invariant == Spec => []Inv
BY InvInit, InvStep, PTL DEF Spec

\* The atomic counters of slicethread.c stay within the bounds that make the last
\* runner recognisable, and the other variables within their types.
THEOREM TypesHold == Spec => []TypeOK
<1>1. Inv => TypeOK
  <2> SUFFICES ASSUME Inv PROVE TypeOK
    OBVIOUS
  <2>1. {main_func, execute_main} \subseteq BOOLEAN
    BY Zenon DEF Inv, Flags
  <2>2. /\ first_job \in 0 .. nb_active /\ current_job \in 0 .. (nb_jobs + nb_active)
        /\ begun \subseteq 0 .. nb_jobs - 1
    BY DEF Inv, Types, Ranges, Jobs
  <2> QED
    BY <2>1, <2>2, Zenon DEF TypeOK, Inv, Types, Labels, Locals
<1> QED BY <1>1, Invariant, PTL

\* No two threads run jobs of one execute under the same thread number.
THEOREM NumbersDistinct == Spec => []DistinctThreadNumbers
<1>1. Inv => DistinctThreadNumbers
  <2> SUFFICES ASSUME Inv, NEW r \in InJobs, NEW q \in InJobs
               PROVE  loc[r].nr < nb_active /\ (r # q => loc[r].nr # loc[q].nr)
    BY DEF DistinctThreadNumbers
  <2>1. loc[r].nr < first_job /\ first_job <= nb_active
    BY DEF Inv, Jobs, Ranges
  <2>2. loc[r].nr \in Int
    BY DEF Inv, Types, Locals, InJobs
  <2> QED
    BY <2>1, <2>2 DEF Inv, Jobs, Types
<1> QED BY <1>1, Invariant, PTL

\* When avpriv_slicethread_execute has returned no worker can still touch its
\* counters, and when avpriv_slicethread_free has no thread is left.
THEOREM NobodyLeftBehind == Spec => []NoWorkerLeftBehind
<1>1. Inv => NoWorkerLeftBehind
  <2> SUFFICES ASSUME Inv PROVE NoStraggler /\ FreeLeavesNoThread
    BY DEF NoWorkerLeftBehind
  <2>1. NoStraggler
    BY DEF NoStraggler, Inv, Hands, Hand, Quiet, Reports, Open
  <2>2. FreeLeavesNoThread
    BY DEF FreeLeavesNoThread, Inv, Hands, Hand
  <2> QED BY <2>1, <2>2
<1> QED BY <1>1, Invariant, PTL

-----------------------------------------------------------------------------
(***************************************************************************)
(* Every step of the pool is a step of the parallel loop or leaves it as it*)
(* is.                                                                     *)
(***************************************************************************)
Todo == 0 .. nb_jobs - 1 \ begun
Iteration(r) == [job |-> loc[r].cur, nr |-> loc[r].nr]
InJob == {r \in Runners : pc[r] = "job"}
Running == {Iteration(r) : r \in InJob}
loop == <<Open, nb_jobs, Todo, Running>>

LEMMA SameIterations ==
  ASSUME \A r \in Runners : /\ pc'[r] = "job" <=> pc[r] = "job"
                            /\ pc[r] = "job" => loc'[r] = loc[r]
  PROVE  Running' = Running
<1>1. InJob' = InJob
  BY DEF InJob
<1>2. \A r \in InJob : loc'[r] = loc[r]
  BY DEF InJob
<1> QED
  BY <1>1, <1>2, Zenon DEF Running, Iteration

\* Between two executes no job runs, and none is left to do.
LEMMA ClosedLoop ==
  ASSUME Inv, ~Open
  PROVE  Todo = {} /\ Running = {}
<1> USE Threads DEF Inv
<1>1. \A r \in Runners : pc[r] # "job"
  BY InsideIsOpen
<1>2. Running = {}
  BY <1>1 DEF Running, InJob
<1> QED BY <1>2 DEF Todo, Jobs

LEMMA ClosedLoopNext ==
  ASSUME Inv', ~Open'
  PROVE  Todo' = {} /\ Running' = {}
<1> USE Threads DEF Inv
<1>1. \A r \in Runners : pc'[r] # "job"
  BY DEF Hands, Hand, Owner, Open, Quiet, Stopping
<1>2. Running' = {}
  BY <1>1 DEF Running, InJob
<1> QED BY <1>2 DEF Todo, Jobs

\* Outside an execute the loop stays closed; a new pool has a new one.
LEMMA ClosedMaps ==
  ASSUME Inv, Inv', ~Open, ~Open', nb_jobs' = nb_jobs \/ nb_jobs' = 0
  PROVE  Loop!Reset \/ UNCHANGED loop
BY ClosedLoop, ClosedLoopNext DEF Loop!Reset, loop, Open, Todo, Running, InJob, Iteration

\* The actions of ParallelFor in terms of the pool.
LEMMA IsCall ==
  ASSUME ~Open, Open', nb_jobs' \in 1 .. MaxJobs, Todo' = 0 .. nb_jobs' - 1, Running' = Running
  PROVE  Loop!Call
BY Zenon DEF Loop!Call, Open, Todo, Running, InJob, Iteration

LEMMA IsBegin ==
  ASSUME NEW j \in Todo, NEW k \in 0 .. NThreads - 1,
         Open, Open', nb_jobs' = nb_jobs, k < nb_jobs, \A x \in Running : x.nr # k,
         Todo' = Todo \ {j}, Running' = Running \cup {[job |-> j, nr |-> k]}
  PROVE  Loop!Begin
<1>1. Open' = Open
  BY DEF Open
<1> QED
  BY <1>1, Zenon DEF Loop!Begin, Open, Todo, Running, InJob, Iteration

LEMMA IsEnd ==
  ASSUME NEW x \in Running,
         Open, Open', nb_jobs' = nb_jobs, Todo' = Todo, Running' = Running \ {x}
  PROVE  Loop!End
<1>1. Open' = Open
  BY DEF Open
<1> QED
  BY <1>1, Zenon DEF Loop!End, Open, Todo, Running, InJob, Iteration

LEMMA IsReturn ==
  ASSUME Open, ~Open', nb_jobs' = nb_jobs, Todo = {}, Todo' = {}, Running = {}, Running' = {}
  PROVE  Loop!Return
<1>1. Todo' = Todo /\ Running' = Running
  OBVIOUS
<1> QED
  BY <1>1 DEF Loop!Return, Open, Todo, Running, InJob, Iteration

LEMMA IsStutter ==
  UNCHANGED loop => UNCHANGED Loop!vars
BY Zenon DEF loop, Loop!vars, Open, Todo, Running, InJob, Iteration

LEMMA ClosedStepsMap ==
  ASSUME Inv, Inv',
         \/ \E n \in 1 .. NThreads : \E mf \in BOOLEAN : Create(n, mf)
         \/ CreateWorker \/ CreateWorkerFails \/ WorkerCreated \/ CreateDone
         \/ Free \/ StopWorker \/ AllStopped \/ JoinWorker \/ Freed
  PROVE  Loop!Reset \/ UNCHANGED loop
<1> USE Threads DEF Inv
<1>0. CASE \E n \in 1 .. NThreads : \E mf \in BOOLEAN : Create(n, mf)
  <2>1. ~Open /\ ~Open' /\ nb_jobs' = 0
    BY <1>0 DEF Create, Goto, Types, Open
  <2> QED BY <2>1, ClosedMaps
<1>1. CASE CreateWorker
  <2>1. ~Open /\ ~Open' /\ nb_jobs' = nb_jobs
    BY <1>1 DEF CreateWorker, Goto, pool, Types, Owner, Workers, Main, NbWorkers, Open
  <2> QED BY <2>1, ClosedMaps
<1>2. CASE CreateWorkerFails
  <2>1. ~Open /\ ~Open' /\ nb_jobs' = nb_jobs
    BY <1>2 DEF CreateWorkerFails, Goto, pool, Types, Owner, Workers, Main, NbWorkers, Open
  <2> QED BY <2>1, ClosedMaps
<1>3. CASE WorkerCreated
  <2>1. ~Open /\ ~Open' /\ nb_jobs' = nb_jobs
    BY <1>3 DEF WorkerCreated, Goto, pool, Types, Owner, Workers, Main, NbWorkers, Open
  <2> QED BY <2>1, ClosedMaps
<1>4. CASE CreateDone
  <2>1. ~Open /\ ~Open' /\ nb_jobs' = nb_jobs
    BY <1>4 DEF CreateDone, Goto, pool, Types, Owner, Workers, Main, NbWorkers, Open
  <2> QED BY <2>1, ClosedMaps
<1>5. CASE Free
  <2>1. ~Open /\ ~Open' /\ nb_jobs' = nb_jobs
    BY <1>5 DEF Free, Goto, pool, Types, Owner, Workers, Main, NbWorkers, Open
  <2> QED BY <2>1, ClosedMaps
<1>6. CASE StopWorker
  <2>1. ~Open /\ ~Open' /\ nb_jobs' = nb_jobs
    BY <1>6 DEF StopWorker, WakeUp, Goto, pool, Types, Owner, Workers, Main, NbWorkers, Open
  <2> QED BY <2>1, ClosedMaps
<1>7. CASE AllStopped
  <2>1. ~Open /\ ~Open' /\ nb_jobs' = nb_jobs
    BY <1>7 DEF AllStopped, Goto, pool, Types, Owner, Workers, Main, NbWorkers, Open
  <2> QED BY <2>1, ClosedMaps
<1>8. CASE JoinWorker
  <2>1. ~Open /\ ~Open' /\ nb_jobs' = nb_jobs
    BY <1>8 DEF JoinWorker, Goto, pool, Types, Owner, Workers, Main, NbWorkers, Open
  <2> QED BY <2>1, ClosedMaps
<1>9. CASE Freed
  <2>1. ~Open /\ ~Open' /\ nb_jobs' = nb_jobs
    BY <1>9 DEF Freed, Goto, pool, Types, Owner, Workers, Main, NbWorkers, Open
  <2> QED BY <2>1, ClosedMaps
<1> QED BY <1>0, <1>1, <1>2, <1>3, <1>4, <1>5, <1>6, <1>7, <1>8, <1>9

\* Steps that neither begin nor end a job.
LEMMA SilentStepsMap ==
  ASSUME Inv, \/ WakeWorker \/ AllAwake \/ MainFuncReturns
              \/ \E w \in Workers : WorkerStarts(w) \/ WorkerResumes(w) \/ Park(w) \/ ReportDone(w)
              \/ \E r \in Runners : SpuriousWakeup(r)
  PROVE  UNCHANGED loop
<1> USE Threads DEF Inv
<1>0. ASSUME UNCHANGED <<nb_jobs, begun, loc>>, Open' <=> Open,
             \A q \in Runners : pc'[q] = "job" <=> pc[q] = "job"
      PROVE  UNCHANGED loop
  <2>1. Running' = Running
    BY <1>0, SameIterations
  <2>2. Open' = Open
    BY <1>0 DEF Open
  <2>3. Todo' = Todo
    BY <1>0 DEF Todo
  <2> QED BY <1>0, <2>1, <2>2, <2>3 DEF loop
<1>1. CASE WakeWorker
  <2>1. UNCHANGED <<nb_jobs, begun, loc>>
    BY <1>1 DEF WakeWorker, pool
  <2>2. Open' <=> Open
    BY <1>1 DEF WakeWorker, WakeUp, MutexFree, Goto, Types, Open
  <2>3. \A q \in Runners : pc'[q] = "job" <=> pc[q] = "job"
    BY <1>1 DEF WakeWorker, WakeUp, MutexFree, Goto, Types, Owner, Hands, Hand
  <2> QED BY <1>0, <2>1, <2>2, <2>3
<1>2. CASE AllAwake
  <2>1. UNCHANGED <<nb_jobs, begun, loc>>
    BY <1>2 DEF AllAwake, pool
  <2>2. Open' <=> Open
    BY <1>2 DEF AllAwake, Goto, Types, Open
  <2>3. \A q \in Runners : pc'[q] = "job" <=> pc[q] = "job"
    BY <1>2 DEF AllAwake, Goto, Types, Owner, Hands, Hand
  <2> QED BY <1>0, <2>1, <2>2, <2>3
<1>3. CASE MainFuncReturns
  <2>1. UNCHANGED <<nb_jobs, begun, loc>>
    BY <1>3 DEF MainFuncReturns, pool
  <2>2. Open' <=> Open
    BY <1>3 DEF MainFuncReturns, Goto, Types, Open
  <2>3. \A q \in Runners : pc'[q] = "job" <=> pc[q] = "job"
    BY <1>3 DEF MainFuncReturns, Goto, Types, Owner, Hands, Hand
  <2> QED BY <1>0, <2>1, <2>2, <2>3
<1>4. ASSUME NEW w \in Workers, WorkerStarts(w) PROVE UNCHANGED loop
  <2>1. UNCHANGED <<nb_jobs, begun, loc>>
    BY <1>4 DEF WorkerStarts, pool
  <2>2. Open' <=> Open
    BY <1>4 DEF WorkerStarts, Goto, Types, Open
  <2>3. \A q \in Runners : pc'[q] = "job" <=> pc[q] = "job"
    BY <1>4 DEF WorkerStarts, Goto, Types, Owner, Hands, Hand
  <2> QED BY <1>0, <2>1, <2>2, <2>3
<1>5. ASSUME NEW w \in Workers, WorkerResumes(w) PROVE UNCHANGED loop
  <2>1. UNCHANGED <<nb_jobs, begun, loc>>
    BY <1>5 DEF WorkerResumes, pool
  <2>2. Open' <=> Open
    BY <1>5 DEF WorkerResumes, Goto, Types, Open
  <2>3. \A q \in Runners : pc'[q] = "job" <=> pc[q] = "job"
    BY <1>5 DEF WorkerResumes, Goto, Types, Owner, Hands, Hand
  <2> QED BY <1>0, <2>1, <2>2, <2>3
<1>6. ASSUME NEW w \in Workers, Park(w) PROVE UNCHANGED loop
  <2>1. UNCHANGED <<nb_jobs, begun, loc>>
    BY <1>6 DEF Park, pool
  <2>2. Open' <=> Open
    BY <1>6 DEF Park, Goto, Types, Open
  <2>3. \A q \in Runners : pc'[q] = "job" <=> pc[q] = "job"
    BY <1>6 DEF Park, Goto, Types, Owner, Hands, Hand
  <2> QED BY <1>0, <2>1, <2>2, <2>3
<1>7. ASSUME NEW w \in Workers, ReportDone(w) PROVE UNCHANGED loop
  <2>1. UNCHANGED <<nb_jobs, begun, loc>>
    BY <1>7 DEF ReportDone, pool
  <2>2. Open' <=> Open
    BY <1>7 DEF ReportDone, Report, Goto, Types, Open
  <2>3. \A q \in Runners : pc'[q] = "job" <=> pc[q] = "job"
    BY <1>7 DEF ReportDone, Report, Goto, Types, Owner, Hands, Hand
  <2> QED BY <1>0, <2>1, <2>2, <2>3
<1>8. ASSUME NEW r \in Runners, SpuriousWakeup(r) PROVE UNCHANGED loop
  <2>1. UNCHANGED <<nb_jobs, begun, loc>>
    BY <1>8 DEF SpuriousWakeup, pool
  <2>2. Open' <=> Open
    BY <1>8 DEF SpuriousWakeup, Goto, Types, Open
  <2>3. \A q \in Runners : pc'[q] = "job" <=> pc[q] = "job"
    BY <1>8 DEF SpuriousWakeup, Goto, Types, Owner, Hands, Hand
  <2> QED BY <1>0, <2>1, <2>2, <2>3
<1> QED BY <1>1, <1>2, <1>3, <1>4, <1>5, <1>6, <1>7, <1>8

LEMMA JobReturnsMap ==
  ASSUME Inv, NEW r \in Runners, JobReturns(r)
  PROVE  Loop!End
<1> USE Threads DEF Inv
<1>1. /\ pc[r] = "job" /\ pc' = [pc EXCEPT ![r] = "claim"]
      /\ UNCHANGED <<nb_jobs, loc, begun>>
  BY DEF JobReturns, Goto, pool
<1>2. Open /\ Open' /\ Todo' = Todo
  BY <1>1, InsideIsOpen DEF Open, Todo, Types
<1>3. InJob' = InJob \ {r} /\ r \in InJob
  BY <1>1 DEF InJob, Types
<1>4. \A q \in InJob \ {r} : Iteration(q) # Iteration(r)
  BY <1>1 DEF Iteration, InJob, InJobs, Jobs
<1>5. Running' = {Iteration(q) : q \in InJob \ {r}}
  BY <1>1, <1>3, Zenon DEF Running, Iteration
<1>6. Running' = Running \ {Iteration(r)} /\ Iteration(r) \in Running
  BY <1>3, <1>4, <1>5 DEF Running
<1> QED
  BY <1>1, <1>2, <1>6, IsEnd

LEMMA ExecuteMap ==
  ASSUME Inv, Inv', NEW n \in 1 .. MaxJobs, NEW em \in BOOLEAN, Execute(n, em)
  PROVE  Loop!Call
<1> USE Threads DEF Inv
<1>1. /\ ~Open /\ Open' /\ nb_jobs' \in 1 .. MaxJobs /\ begun' = {}
      /\ \A q \in Runners : pc'[q] = "job" <=> pc[q] = "job"
      /\ loc' = loc
  BY DEF Execute, Goto, Types, Open
<1>2. Running' = Running
  BY <1>1, SameIterations
<1>3. Todo' = 0 .. nb_jobs' - 1
  BY <1>1 DEF Todo
<1> QED BY <1>1, <1>2, <1>3, IsCall

\* Job j, which nobody has begun, begins under number k, which nobody runs under.
LEMMA JobBegins ==
  ASSUME Inv, Inv', NEW r \in Runners, pc[r] # "job", pc' = [pc EXCEPT ![r] = "job"],
         Open, Open', nb_jobs' = nb_jobs,
         NEW j \in 0 .. nb_jobs - 1, j \notin begun, begun' = begun \cup {j},
         NEW k \in Nat, k < nb_active,
         \A q \in Runners : q # r => loc'[q] = loc[q],
         loc'[r].cur = j, loc'[r].nr = k,
         \A q \in InJob : loc[q].nr # k
  PROVE  Loop!Begin
<1> USE Threads DEF Inv
<1>1. j \in Todo /\ Todo' = Todo \ {j}
  BY DEF Todo
<1>2. k \in 0 .. NThreads - 1 /\ k < nb_jobs
  BY DEF Types, Owner, MinOf
<1>3. InJob' = InJob \cup {r} /\ r \notin InJob
  BY DEF InJob, Types
<1>4. \A q \in InJob : Iteration(q)' = Iteration(q)
  BY <1>3 DEF Iteration, InJob
<1>5. Iteration(r)' = [job |-> j, nr |-> k]
  BY DEF Iteration
<1>6. Running' = Running \cup {[job |-> j, nr |-> k]}
  BY <1>3, <1>4, <1>5 DEF Running
<1>7. \A x \in Running : x.nr # k
  BY DEF Running, Iteration
<1> QED BY <1>1, <1>2, <1>6, <1>7, IsBegin

LEMMA FirstJobMap ==
  ASSUME Inv, Inv', NEW r \in Runners, FirstJob(r)
  PROVE  Loop!Begin
<1> USE Threads DEF Inv
<1>1. /\ pc[r] = "run" /\ pc' = [pc EXCEPT ![r] = "job"]
      /\ nb_jobs' = nb_jobs /\ begun' = begun \cup {first_job}
      /\ loc' = [loc EXCEPT ![r] = [jobs |-> nb_jobs, active |-> nb_active,
                                    nr |-> first_job, cur |-> first_job]]
  BY DEF FirstJob, Goto
<1>2. Open /\ Open' /\ first_job < nb_active
  BY <1>1, InsideIsOpen, EntersCount DEF Open, Types
<1>3. first_job \in 0 .. nb_jobs - 1 /\ first_job \in Nat
  BY <1>2 DEF Types, Owner, MinOf
<1>4. first_job \notin begun
  BY <1>2, <1>3 DEF Jobs, Types
<1>5. \A q \in InJob : loc[q].nr # first_job
  <2>1. \A q \in InJobs : loc[q].nr < first_job /\ loc[q].nr \in Int
    BY DEF Jobs, Types, Locals, InJobs
  <2>2. InJob \subseteq InJobs
    BY DEF InJob, InJobs
  <2> QED BY <1>3, <2>1, <2>2
<1>6. /\ \A q \in Runners : q # r => loc'[q] = loc[q]
      /\ loc'[r].cur = first_job /\ loc'[r].nr = first_job
  BY <1>1 DEF Types
<1> QED BY <1>1, <1>2, <1>3, <1>4, <1>5, <1>6, JobBegins

\* The last runner leaves, or the owner learns of it: execute returns.
LEMMA CallReturns ==
  ASSUME Inv, Inv', Open, ~Open', pc[Main] \notin {"wake", "job"},
         Participants \subseteq Left \cup {Main}, \A w \in Workers : pc[w] # "report",
         begun = 0 .. nb_jobs - 1, nb_jobs' = nb_jobs
  PROVE  Loop!Return
<1> USE Threads
<1>1. \A w \in Workers : w < NbWorkers => Quiet(w)
  BY NobodyBusy
<1>2. \A w \in Workers : pc[w] # "job"
  BY <1>1 DEF Inv, Hands, Hand, Owner, Open, Quiet
<1>3. InJob = {}
  BY <1>2 DEF InJob
<1>4. Todo = {} /\ Running = {}
  BY <1>3 DEF Todo, Running
<1> QED BY <1>4, ClosedLoopNext, IsReturn

LEMMA WaitDoneMap ==
  ASSUME Inv, Inv', WaitDone
  PROVE  Loop!Return \/ UNCHANGED loop
<1> USE Threads DEF Inv
<1>1. Open /\ pc[Main] \notin {"wake", "job"} /\ UNCHANGED <<nb_jobs, begun, loc>>
  BY DEF WaitDone, Open
<1>2. CASE done = 1
  <2>1. Left = Participants /\ \A w \in Workers : pc[w] # "report"
    BY <1>2 DEF Reports
  <2>2. ~Open'
    BY <1>2 DEF WaitDone, Goto, Open, Types
  <2>3. begun = 0 .. nb_jobs - 1
    BY <1>1, <2>2 DEF Jobs
  <2> QED BY <1>1, <2>1, <2>2, <2>3, CallReturns
<1>3. CASE done # 1
  <2>1. /\ Open' = Open
        /\ \A q \in Runners : pc'[q] = "job" <=> pc[q] = "job"
    BY <1>3 DEF WaitDone, Goto, Open, Types
  <2>2. Running' = Running
    BY <1>1, <2>1, SameIterations
  <2> QED BY <1>1, <2>1, <2>2 DEF loop, Todo
<1> QED BY <1>2, <1>3

LEMMA ClaimJobMap ==
  ASSUME Inv, Inv', NEW r \in Runners, ClaimJob(r)
  PROVE  Loop!Begin \/ Loop!Return \/ UNCHANGED loop
<1> USE Threads DEF Inv
<1>1. pc[r] = "claim" /\ nb_jobs' = nb_jobs
  BY DEF ClaimJob
<1>2. Open /\ loc[r].jobs = nb_jobs
  BY <1>1, InsideIsOpen DEF InJobs, Jobs
<1>3. CASE current_job < nb_jobs
  <2>1. /\ pc' = [pc EXCEPT ![r] = "job"] /\ begun' = begun \cup {current_job}
        /\ loc' = [loc EXCEPT ![r].cur = current_job]
    BY <1>2, <1>3 DEF ClaimJob, Goto
  <2>2. Open'
    BY <1>1, <1>2, <2>1 DEF Open, Types
  <2>3. current_job \in 0 .. nb_jobs - 1 /\ current_job \notin begun
    BY <1>2, <1>3 DEF Types, Jobs, Counted, Ranges
  <2>4. /\ \A q \in Runners : q # r => loc'[q] = loc[q]
        /\ loc'[r].cur = current_job /\ loc'[r].nr = loc[r].nr
    BY <2>1 DEF Types, Locals
  <2>5. loc[r].nr \in Nat /\ loc[r].nr < nb_active
    <3>1. loc[r].nr \in Nat /\ loc[r].nr < first_job
      BY <1>1 DEF Types, Locals, InJobs, Jobs
    <3> QED BY <3>1 DEF Types, Ranges
  <2>6. \A q \in InJob : loc[q].nr # loc[r].nr
    BY <1>1 DEF InJob, InJobs, Jobs
  <2> QED BY <1>1, <1>2, <2>1, <2>2, <2>3, <2>4, <2>5, <2>6, JobBegins
<1>4. CASE ~ current_job < nb_jobs
  <2>0. current_job >= nb_jobs
    BY <1>4 DEF Types
  <2>1. /\ begun' = begun
        /\ loc' = [loc EXCEPT ![r] = NoLocals]
        /\ pc' = [pc EXCEPT ![r] = IF r = Main THEN IF IsLast(r) THEN "idle" ELSE "wait"
                                   ELSE IF IsLast(r) THEN "report" ELSE "park"]
    BY <1>2, <1>4 DEF ClaimJob, Goto
  <2>2. CASE r = Main /\ IsLast(r)
    <3>1. Left \cup {Main} = Participants /\ Main \notin Left
      BY <1>1, <2>0, <2>2, LeavesCount, Zenon
    <3>2. \A w \in Workers : pc[w] # "report"
      BY <3>1 DEF Reports
    <3>3. ~Open'
      BY <2>1, <2>2 DEF Open, Types
    <3>4. begun = 0 .. nb_jobs - 1
      BY <1>1, <2>1, <3>3 DEF Jobs
    <3> QED BY <1>1, <1>2, <2>2, <3>1, <3>2, <3>3, <3>4, CallReturns
  <2>3. CASE ~(r = Main /\ IsLast(r))
    <3>1. \/ r = Main /\ pc' = [pc EXCEPT ![r] = "wait"]
          \/ r # Main /\ pc' = [pc EXCEPT ![r] = "report"]
          \/ r # Main /\ pc' = [pc EXCEPT ![r] = "park"]
      BY <2>1, <2>3, Zenon
    <3>2. Open' = Open
      BY <1>1, <3>1 DEF Open, Types
    <3>3. \A q \in Runners : /\ pc'[q] = "job" <=> pc[q] = "job"
                             /\ pc[q] = "job" => loc'[q] = loc[q]
      BY <1>1, <2>1, <3>1 DEF Types
    <3>4. Running' = Running
      BY <3>3, SameIterations
    <3> QED BY <1>1, <2>1, <3>2, <3>4 DEF loop, Todo
  <2> QED BY <2>2, <2>3
<1> QED BY <1>3, <1>4

LEMMA LoopStep == Inv /\ Inv' /\ [Next]_vars => [Loop!Next]_(Loop!vars)
<1> SUFFICES ASSUME Inv, Inv', [Next]_vars
             PROVE  \/ Loop!Reset \/ Loop!Call \/ Loop!Begin \/ Loop!End \/ Loop!Return
                    \/ UNCHANGED loop
  BY IsStutter, Zenon DEF Loop!Next
<1>1. ASSUME NEW w \in Workers, WorkerStep(w)
      PROVE  Loop!Begin \/ Loop!End \/ Loop!Return \/ UNCHANGED loop
  BY <1>1, SilentStepsMap, JobReturnsMap, FirstJobMap, ClaimJobMap, Threads, Zenon
     DEF WorkerStep, RunJobs
<1>2. CASE OwnerStep
  BY <1>2, ClosedStepsMap, SilentStepsMap, JobReturnsMap, FirstJobMap, ClaimJobMap, WaitDoneMap,
     Threads, Zenon DEF OwnerStep, RunJobs
<1>3. CASE \E n \in 1 .. NThreads : \E mf \in BOOLEAN : Create(n, mf)
  BY <1>3, ClosedStepsMap, Zenon
<1>4. CASE CreateWorkerFails \/ (pc[Main] = "idle" /\ Free)
  BY <1>4, ClosedStepsMap, Zenon
<1>5. CASE \E n \in 1 .. MaxJobs : \E em \in BOOLEAN : Execute(n, em)
  BY <1>5, ExecuteMap, Zenon
<1>6. CASE \E r \in Runners : SpuriousWakeup(r)
  BY <1>6, SilentStepsMap, Zenon
<1>7. CASE UNCHANGED vars
  BY <1>7, Zenon DEF vars, loop, Open, Todo, Running, InJob, Iteration
<1> QED
  BY <1>1, <1>2, <1>3, <1>4, <1>5, <1>6, <1>7, Zenon DEF Next

\* libavutil/slicethread.c does what a parallel loop does: each step of its threads
\* begins or ends an iteration that may, calls or returns when the loop may, or is
\* invisible.
THEOREM StepsOfParallelFor == Spec => Loop!Init /\ [][Loop!Next]_(Loop!vars)
<1>1. Init => Loop!Init
  <2> SUFFICES ASSUME Init PROVE Loop!Init
    OBVIOUS
  <2>1. ~Open /\ nb_jobs = 0
    BY Threads DEF Init, Open
  <2>2. Todo = {} /\ Running = {}
    BY <2>1, InvInit, ClosedLoop
  <2> QED
    BY <2>1, <2>2, Zenon DEF Loop!Init, Open, Todo, Running, InJob, Iteration
<1> QED
  BY <1>1, LoopStep, Invariant, PTL DEF Spec
-----------------------------------------------------------------------------
(***************************************************************************)
(* No call of the owner hangs, and no wakeup between owner and workers is  *)
(* lost: while the owner waits for ctx->done, somebody is still at work    *)
(* for it or about to report.                                              *)
(***************************************************************************)

\* What a thread waits for has come.
OwnerGoesOn ==
    \/ pc[Main] \in {"create", "free", "mainfunc", "run", "job", "claim"}
    \/ pc[Main] = "created" /\ wdone[i] = 1
    \/ pc[Main] = "wake" /\ (i = WorkersToWake \/ MutexFree(i))
    \/ pc[Main] \in {"wait", "sleepdone", "wokendone"} /\ done = 1
    \/ pc[Main] = "stop" /\ (i = NbWorkers \/ MutexFree(i))
    \/ pc[Main] = "join" /\ (i = NbWorkers \/ pc[i] = "exited")
WorkerGoesOn(w) ==
    \/ pc[w] \in {"start", "run", "job", "claim", "report", "park"}
    \/ pc[w] \in {"parked", "woken"} /\ wdone[w] = 0

\* In every call of the owner some thread goes on, and nobody is in
\* pthread_cond_wait once what it waits for has come.
NoCallHangs ==
    /\ pc[Main] = "sleepdone" => ~OwnerGoesOn
    /\ \A w \in Workers : pc[w] = "parked" => ~WorkerGoesOn(w)
    /\ pc[Main] \notin {"none", "idle"} => OwnerGoesOn \/ \E w \in Workers : WorkerGoesOn(w)

\* The last runner out has reported, or is about to, and the owner does not sleep on it.
LastOut ==
    /\ Open /\ current_job = nb_jobs + nb_active =>
          done = 1 \/ \E w \in Workers : pc[w] = "report"
    /\ pc[Main] = "sleepdone" => done = 0

\* current_job changes when an execute begins and when a runner claims; whoever
\* claims last goes on to report.
LEMMA LastOutStep ==
  Inv /\ LastOut /\ [Next]_vars => LastOut'
<1> SUFFICES ASSUME Inv, LastOut, [Next]_vars PROVE LastOut'
  OBVIOUS
<1> USE Threads DEF Inv, LastOut, Open, Goto
<1>1. CASE UNCHANGED vars
  BY <1>1 DEF vars
<1>2. ASSUME NEW n \in 1 .. NThreads, NEW mf \in BOOLEAN, Create(n, mf) PROVE LastOut'
  BY <1>2 DEF Create, Types
<1>3. CASE CreateWorker
  BY <1>3 DEF CreateWorker, pool, Types
<1>4. CASE CreateWorkerFails
  BY <1>4 DEF CreateWorkerFails, pool, Types
<1>5. CASE WorkerCreated
  BY <1>5 DEF WorkerCreated, pool, Types
<1>6. CASE CreateDone
  BY <1>6 DEF CreateDone, pool, Types
<1>7. CASE WakeWorker
  BY <1>7 DEF WakeWorker, pool, Types, WakeUp, Hands, Hand, Quiet
<1>8. CASE AllAwake
  BY <1>8 DEF AllAwake, pool, Types
<1>9. CASE MainFuncReturns
  BY <1>9 DEF MainFuncReturns, pool, Types
<1>10. CASE Free
  BY <1>10 DEF Free, pool, Types
<1>11. CASE StopWorker
  BY <1>11 DEF StopWorker, pool, Types, WakeUp, Hands, Hand, Quiet
<1>12. CASE AllStopped
  BY <1>12 DEF AllStopped, pool, Types
<1>13. CASE JoinWorker
  BY <1>13 DEF JoinWorker, pool, Types
<1>14. CASE Freed
  BY <1>14 DEF Freed, pool, Types
<1>15. CASE WaitDone
  BY <1>15 DEF WaitDone, pool, Types
<1>16. ASSUME NEW m \in 1 .. MaxJobs, NEW em \in BOOLEAN, Execute(m, em) PROVE LastOut'
  BY <1>16 DEF Execute, FirstUnassigned, MinOf, Types, Owner
<1>17. ASSUME NEW w \in Workers, WorkerStarts(w) PROVE LastOut'
  BY <1>17 DEF WorkerStarts, pool, Types
<1>18. ASSUME NEW w \in Workers, WorkerResumes(w) PROVE LastOut'
  BY <1>18 DEF WorkerResumes, pool, Types
<1>19. ASSUME NEW w \in Workers, ReportDone(w) PROVE LastOut'
  BY <1>19 DEF ReportDone, pool, Types, Report, Reports
<1>20. ASSUME NEW w \in Workers, Park(w) PROVE LastOut'
  BY <1>20 DEF Park, pool, Types
<1>21. ASSUME NEW r \in Runners, FirstJob(r) PROVE LastOut'
  BY <1>21 DEF FirstJob, pool, Types
<1>22. ASSUME NEW r \in Runners, JobReturns(r) PROVE LastOut'
  BY <1>22 DEF JobReturns, pool, Types
<1>23. ASSUME NEW r \in Runners, ClaimJob(r) PROVE LastOut'
  <2>1. /\ pc[r] = "claim" /\ current_job' = current_job + 1
        /\ UNCHANGED <<nb_active, nb_jobs, done>>
        /\ loc[r].jobs = nb_jobs
    BY <1>23 DEF ClaimJob, Jobs, InJobs
  <2>2. nb_active >= 1 /\ nb_active \in Nat /\ nb_jobs \in Nat /\ current_job \in Nat
    BY <2>1, InsideIsOpen DEF Owner, Types, MinOf
  <2>3. CASE current_job < nb_jobs
    <3>1. pc' = [pc EXCEPT ![r] = "job"]
      BY <1>23, <2>1, <2>3 DEF ClaimJob
    <3>2. current_job' # nb_jobs' + nb_active'
      BY <2>1, <2>2, <2>3
    <3> QED
      BY <2>1, <3>1, <3>2 DEF Types
  <2>4. CASE ~(current_job < nb_jobs)
    <3>1. pc' = [pc EXCEPT ![r] = IF r = Main THEN IF IsLast(r) THEN "idle" ELSE "wait"
                                  ELSE IF IsLast(r) THEN "report" ELSE "park"]
      BY <1>23, <2>1, <2>4 DEF ClaimJob
    <3>2. IsLast(r) <=> current_job' = nb_jobs' + nb_active'
      BY <2>1, <2>2 DEF IsLast, Jobs, InJobs
    <3>3. pc'[Main] = "sleepdone" => pc[Main] = "sleepdone"
      BY <2>1, <3>1 DEF Types
    <3>4. CASE IsLast(r)
      BY <2>1, <3>1, <3>3, <3>4 DEF Types
    <3>5. CASE ~IsLast(r)
      BY <2>1, <3>2, <3>3, <3>5
    <3> QED
      BY <3>4, <3>5
  <2> QED
    BY <2>3, <2>4
<1>24. ASSUME NEW r \in Runners, SpuriousWakeup(r) PROVE LastOut'
  BY <1>24 DEF SpuriousWakeup, pool, Types
<1> QED
  BY <1>1, <1>2, <1>3, <1>4, <1>5, <1>6, <1>7, <1>8, <1>9, <1>10, <1>11, <1>12, <1>13, <1>14, <1>15, <1>16, <1>17, <1>18, <1>19, <1>20, <1>21, <1>22, <1>23, <1>24, Zenon
     DEF Next, OwnerStep, WorkerStep, RunJobs

LEMMA LastOutInvariant ==
  Spec => []LastOut
<1>1. Init => LastOut
  BY Threads DEF Init, LastOut, Open
<1> QED
  BY <1>1, LastOutStep, Invariant, PTL DEF Spec

\* When nobody is at work for the execute any more, everybody has left it.
LEMMA AllOut ==
  ASSUME Inv, pc[Main] \in {"wait", "sleepdone", "wokendone"},
         \A w \in Workers : ~WorkerGoesOn(w)
  PROVE  current_job = nb_jobs + nb_active
<1> USE Threads DEF Inv
<1>1. Open /\ i = WorkersToWake
  BY DEF Open, Owner
<1>2. \A w \in Workers : w < NbWorkers => Quiet(w)
  BY <1>1 DEF Hands, Hand, Busy, WorkerGoesOn
<1>3. Participants \subseteq Left
  <2>1. ASSUME NEW r \in Runners, Takes(r) PROVE HasLeft(r)
    <3>1. CASE r = Main
      BY <2>1, <3>1 DEF Takes, HasLeft
    <3>2. CASE r # Main
      <4>1. r \in Workers /\ r < i /\ r < NbWorkers
        BY <1>1, <2>1, <3>2 DEF Takes, Owner, Types, WorkersToWake, NbWorkers, MinOf, Open
      <4> QED
        BY <1>2, <3>2, <4>1 DEF HasLeft
    <3> QED
      BY <3>1, <3>2
  <2> QED
    BY <2>1 DEF Participants, Left
<1>4. Cardinality(Left) = nb_active
  <2>1. Left = Participants
    BY <1>1, <1>3, PartsOfParticipants
  <2> QED
    BY <1>1, <2>1, ParticipantsCount
<1>5. nb_active >= 1
  BY <1>1 DEF Owner, MinOf, Types, Open
<1> QED
  BY <1>1, <1>4, <1>5 DEF Counted, Types

\* The calls of avpriv_slicethread_* that the owner is in can always be carried on
\* by some thread; the signals of cond and done_cond reach whom they are meant for.
THEOREM CallsNeverHang ==
  Spec => []NoCallHangs
<1>1. ASSUME Inv, LastOut PROVE NoCallHangs
  <2> USE <1>1, Threads DEF Inv
  <2>1. pc[Main] = "sleepdone" => ~OwnerGoesOn
    BY DEF LastOut, OwnerGoesOn
  <2>2. \A w \in Workers : pc[w] = "parked" => ~WorkerGoesOn(w)
    BY DEF Hands, Hand, WorkerGoesOn
  <2>3. ASSUME pc[Main] \notin {"none", "idle"}, \A w \in Workers : ~WorkerGoesOn(w)
        PROVE  OwnerGoesOn
    <3>1. CASE pc[Main] \in {"create", "free", "mainfunc", "run", "job", "claim"}
      BY <3>1 DEF OwnerGoesOn
    <3>2. CASE pc[Main] = "created"
      <4>1. i \in Workers
        BY <3>2 DEF Owner, Types, Workers
      <4> QED
        BY <2>3, <3>2, <4>1 DEF Hands, Hand, Quiet, WorkerGoesOn, OwnerGoesOn
    <3>3. CASE pc[Main] = "wake"
      <4>1. ASSUME i # WorkersToWake PROVE i \in Workers /\ i < NbWorkers
        BY <3>3, <4>1 DEF Owner, Types, Workers, Open, WorkersToWake, NbWorkers, MinOf
      <4>2. ASSUME i # WorkersToWake PROVE Quiet(i)
        BY <3>3, <4>1, <4>2 DEF Hands, Hand, Open, Types
      <4> QED
        BY <2>3, <3>3, <4>1, <4>2 DEF Quiet, WorkerGoesOn, OwnerGoesOn, MutexFree
    <3>4. CASE pc[Main] \in {"wait", "sleepdone", "wokendone"}
      <4>1. current_job = nb_jobs + nb_active /\ Open
        BY <2>3, <3>4, AllOut DEF Open
      <4>2. done = 1
        BY <2>3, <4>1 DEF LastOut, WorkerGoesOn
      <4> QED
        BY <3>4, <4>2 DEF OwnerGoesOn
    <3>5. CASE pc[Main] \in {"stop", "join"}
      <4>1. ASSUME i # NbWorkers PROVE i \in Workers /\ i < NbWorkers
        BY <3>5, <4>1 DEF Owner, Types, Workers
      <4>2. ASSUME i # NbWorkers, pc[Main] = "stop" PROVE Quiet(i)
        BY <4>1, <4>2 DEF Hands, Hand, Types
      <4>3. ASSUME i # NbWorkers, pc[Main] = "join" PROVE Stopping(i)
        BY <4>1, <4>3 DEF Hands, Hand, Types
      <4> QED
        BY <2>3, <3>5, <4>1, <4>2, <4>3
           DEF Quiet, Stopping, WorkerGoesOn, OwnerGoesOn, MutexFree
    <3> QED
      BY <2>3, <3>1, <3>2, <3>3, <3>4, <3>5 DEF Owner
  <2> QED
    BY <2>1, <2>2, <2>3 DEF NoCallHangs
<1> QED
  BY Invariant, LastOutInvariant, <1>1, PTL
=============================================================================
