------------------------- MODULE FrameThreadEncoder -------------------------
(***************************************************************************)
(* libavcodec/frame_thread_encoder.c: several encoders of the same kind,   *)
(* one per thread, each encode whole frames.  The user's thread queues a   *)
(* task per frame; the workers finish them in any order, each into the slot*)
(* of its task in a ring; and the user takes the slots in turn.            *)
(*                                                                         *)
(* A section under a mutex is one action, and so is what a thread does     *)
(* between two of them.  A frame, its copy and its packet are its number.  *)
(***************************************************************************)
EXTENDS Integers, Sequences, FiniteSets

CONSTANTS
    NThreads,     \* thread_count asked for
    BufferSize,   \* BUFFER_SIZE
    MaxFrames     \* bound: the frames of the user

\* thread_count is at most MAX_THREADS, and BUFFER_SIZE is twice that.
ASSUME EncoderAssumption ==
    /\ NThreads \in Nat \ {0, 1} /\ MaxFrames \in Nat
    /\ BufferSize \in Nat /\ BufferSize >= 2 * NThreads

Workers == 0 .. NThreads - 1
Slots == 0 .. BufferSize - 1
Outcomes == {"packet", "nothing", "error"}

VARIABLES
    thread_count,        \* the loop index of ff_frame_thread_encoder_init, and then
                         \* the field of the AVCodecContext
    task_fifo,
    finished_tasks,      \* the ring of finished tasks
    task_index, finished_task_index,
    exit,
    upc,                 \* where the user's thread is
    wpc,                 \* where each worker is
    task,                \* the worker's task and what became of it
    pkt,                 \* the worker has a packet to encode into
    call, result,        \* the call of the user, and what the last one has returned
    frames,              \* history: the copies of frames that exist
    packets,             \* history: how many packets exist
    submitted, returned  \* history: how many frames went in, and results out

queueVars == <<task_fifo, finished_tasks, task_index, finished_task_index>>
workerVars == <<wpc, task, pkt>>
userVars == <<upc, call, result>>
histVars == <<frames, packets, submitted, returned>>
vars == <<thread_count, queueVars, exit, userVars, workerVars, histVars>>

NoTask == [index |-> 0, frame |-> 0, code |-> "nothing"]
NoResult == [code |-> "nothing", frame |-> 0]
Empty == [full |-> FALSE, code |-> "nothing", frame |-> 0]   \* outdata is NULL

-----------------------------------------------------------------------------
Init ==
    /\ thread_count = 0
    /\ task_fifo = <<>> /\ finished_tasks = [s \in Slots |-> Empty]
    /\ task_index = 0 /\ finished_task_index = 0
    /\ exit = FALSE
    /\ upc = "init" /\ call = "none" /\ result = NoResult
    /\ wpc = [w \in Workers |-> "none"] /\ task = [w \in Workers |-> NoTask]
    /\ pkt = [w \in Workers |-> FALSE]
    /\ frames = {} /\ packets = 0 /\ submitted = 0 /\ returned = 0

\* pthread_create of the next worker.
CreateWorker ==
    /\ upc = "init" /\ thread_count < NThreads
    /\ wpc' = [wpc EXCEPT ![thread_count] = "top"]
    /\ thread_count' = thread_count + 1
    /\ upc' = IF thread_count' = NThreads THEN "out" ELSE "init"
    /\ UNCHANGED <<queueVars, exit, call, result, task, pkt, histVars>>

\* A worker or its context cannot be created: thread_count is rewritten to the
\* number of those that were, and everything is freed.
CreateFails ==
    /\ upc = "init"
    /\ upc' = "free" /\ call' = "close"
    /\ UNCHANGED <<thread_count, queueVars, exit, result, workerVars, histVars>>

-----------------------------------------------------------------------------
\* pthread_cond_signal of task_fifo_cond wakes one of the workers that wait; who
\* is at "fetch" competes for task_fifo_mutex.
Asleep == {w \in Workers : wpc[w] = "asleep"}
SignalWorker ==
    IF Asleep = {} THEN UNCHANGED wpc
    ELSE \E w \in Asleep : wpc' = [wpc EXCEPT ![w] = "fetch"]

\* pthread_cond_signal of finished_task_cond.
SignalUser == upc' = IF upc = "asleep" THEN "awake" ELSE upc

\* (task_index + 1) % BUFFER_SIZE, and a variant that does not wrap.
IndexAfter(index) == index + 1
NextIndex(index) == (index + 1) % BufferSize

\* ff_thread_video_encode_frame with a frame: a task with a copy of it.
Submit ==
    /\ upc = "out" /\ submitted < MaxFrames
    /\ submitted' = submitted + 1
    /\ frames' = frames \cup {submitted'}
    /\ task_fifo' = Append(task_fifo,
                           [index |-> task_index, frame |-> submitted', code |-> "nothing"])
    /\ SignalWorker
    /\ task_index' = NextIndex(task_index)
    /\ upc' = "collect" /\ call' = "frame"
    /\ UNCHANGED <<thread_count, finished_tasks, finished_task_index, exit, result, task, pkt,
                   packets, returned>>

\* The frame could not be copied.
SubmitFails ==
    /\ upc = "out" /\ submitted < MaxFrames
    /\ result' = [code |-> "error", frame |-> 0]
    /\ UNCHANGED <<thread_count, queueVars, exit, upc, call, workerVars, histVars>>

\* ff_thread_video_encode_frame without a frame.
Drain ==
    /\ upc = "out"
    /\ upc' = "collect" /\ call' = "drain"
    /\ UNCHANGED <<thread_count, queueVars, exit, result, workerVars, histVars>>

InFlight == (task_index - finished_task_index) % BufferSize
Oldest == finished_tasks[finished_task_index]

\* The encoder is not full yet.
Room == InFlight <= thread_count

\* Nothing is left, or nothing is ready and there is room for more.
NothingToReturn ==
    \/ task_index = finished_task_index
    \/ call = "frame" /\ ~Oldest.full /\ Room

ReturnNothing ==
    /\ upc = "collect" /\ NothingToReturn
    /\ result' = NoResult
    /\ upc' = "out" /\ call' = "none"
    /\ UNCHANGED <<thread_count, queueVars, exit, workerVars, histVars>>

\* The oldest task is not finished: wait on finished_task_cond.
AwaitResult ==
    /\ \/ upc = "collect" /\ ~NothingToReturn
       \/ upc = "awake"
    /\ ~Oldest.full
    /\ upc' = "asleep"
    /\ UNCHANGED <<thread_count, queueVars, exit, call, result, workerVars, histVars>>

\* What the caller sees of a task: a packet, or a number.  A frame that was skipped
\* looks to it as if there were no result at all.
Returned(t) == [code |-> t.code, frame |-> IF t.code = "packet" THEN t.frame ELSE 0]

\* The oldest task is taken out of its slot; a packet without data is not one.
TakeResult ==
    /\ \/ upc = "collect" /\ ~NothingToReturn
       \/ upc = "awake"
    /\ Oldest.full
    /\ result' = Returned(Oldest)
    /\ finished_tasks' = [finished_tasks EXCEPT ![finished_task_index] = Empty]
    /\ finished_task_index' = NextIndex(finished_task_index)
    /\ packets' = packets - 1 /\ returned' = returned + 1
    /\ upc' = "out" /\ call' = "none"
    /\ UNCHANGED <<thread_count, task_fifo, task_index, exit, workerVars, frames, submitted>>

-----------------------------------------------------------------------------
\* worker, from the test of exit at the top of its loop: it takes a new packet
\* unless it has one.
WorkerTop(w) ==
    /\ wpc[w] = "top"
    /\ \/ /\ exit
          /\ wpc' = [wpc EXCEPT ![w] = "end"]
          /\ UNCHANGED <<pkt, packets>>
       \/ /\ ~exit
          /\ wpc' = [wpc EXCEPT ![w] = "fetch"]
          /\ pkt' = [pkt EXCEPT ![w] = TRUE]
          /\ packets' = IF pkt[w] THEN packets ELSE packets + 1
    /\ UNCHANGED <<thread_count, queueVars, exit, userVars, task, frames, submitted, returned>>

\* Under task_fifo_mutex: end, wait for a task, or take the first.
Fetch(w) ==
    /\ wpc[w] = "fetch"
    /\ \/ /\ exit
          /\ wpc' = [wpc EXCEPT ![w] = "end"]
          /\ UNCHANGED <<task, task_fifo>>
       \/ /\ ~exit /\ task_fifo = <<>>
          /\ wpc' = [wpc EXCEPT ![w] = "asleep"]
          /\ UNCHANGED <<task, task_fifo>>
       \/ /\ ~exit /\ task_fifo # <<>>
          /\ wpc' = [wpc EXCEPT ![w] = "encode"]
          /\ task' = [task EXCEPT ![w] = Head(task_fifo)]
          /\ task_fifo' = Tail(task_fifo)
    /\ UNCHANGED <<thread_count, finished_tasks, task_index, finished_task_index, exit, userVars,
                   pkt, histVars>>

\* encode2 makes a packet, makes none (a frame it skips), or fails; the copy of
\* the frame is freed.
Encode(w) ==
    /\ wpc[w] = "encode"
    /\ wpc' = [wpc EXCEPT ![w] = "finish"]
    /\ \E code \in Outcomes : task' = [task EXCEPT ![w].code = code]
    /\ frames' = frames \ {task[w].frame}
    /\ UNCHANGED <<thread_count, queueVars, exit, userVars, pkt, packets, submitted, returned>>

\* The slot of a finished task, and a variant that takes the one the user looks at.
SlotInTurn(t) == finished_task_index
SlotOf(t) == t.index

\* Under finished_task_mutex: the task goes to its slot.
Finish(w) ==
    /\ wpc[w] = "finish"
    /\ wpc' = [wpc EXCEPT ![w] = "top"]
    /\ finished_tasks' = [finished_tasks EXCEPT ![SlotOf(task[w])] =
                             [full |-> TRUE, code |-> task[w].code, frame |-> task[w].frame]]
    /\ pkt' = [pkt EXCEPT ![w] = FALSE]
    /\ SignalUser
    /\ UNCHANGED <<thread_count, task_fifo, task_index, finished_task_index, exit, call, result,
                   task, histVars>>

\* The worker frees its packet and closes its encoder.
End(w) ==
    /\ wpc[w] = "end"
    /\ wpc' = [wpc EXCEPT ![w] = "ended"]
    /\ pkt' = [pkt EXCEPT ![w] = FALSE]
    /\ packets' = IF pkt[w] THEN packets - 1 ELSE packets
    /\ UNCHANGED <<thread_count, queueVars, exit, userVars, task, frames, submitted, returned>>

Worker(w) == WorkerTop(w) \/ Fetch(w) \/ Encode(w) \/ Finish(w) \/ End(w)

-----------------------------------------------------------------------------
\* pthread_cond_broadcast of task_fifo_cond.
WakeWorkers == wpc' = [w \in Workers |-> IF wpc[w] = "asleep" THEN "fetch" ELSE wpc[w]]

\* ff_frame_thread_encoder_free: exit is set under task_fifo_mutex.
Free ==
    /\ upc \in {"out", "free"}
    /\ exit' = TRUE
    /\ WakeWorkers
    /\ upc' = "join" /\ call' = "close"
    /\ UNCHANGED <<thread_count, queueVars, result, task, pkt, histVars>>

Queued == {task_fifo[k].frame : k \in 1 .. Len(task_fifo)}

\* The packets in the ring, and a variant that frees those in front only.
FinishedInFront == {s \in {finished_task_index} : finished_tasks[s].full}
Finished == {s \in Slots : finished_tasks[s].full}

\* The workers are joined; tasks nobody has taken and packets nobody has asked
\* for are freed.
Join ==
    /\ upc = "join"
    /\ \A w \in Workers : w < thread_count => wpc[w] = "ended"
    /\ task_fifo' = <<>> /\ finished_tasks' = [s \in Slots |-> Empty]
    /\ frames' = frames \ Queued
    /\ packets' = packets - Cardinality(Finished)
    /\ upc' = "closed" /\ call' = "closed"
    /\ UNCHANGED <<thread_count, task_index, finished_task_index, exit, result, workerVars,
                   submitted, returned>>

\* pthread_cond_wait may return without a signal.
SpuriousWakeup ==
    /\ \/ upc = "asleep" /\ upc' = "awake" /\ UNCHANGED wpc
       \/ /\ \E w \in Workers : wpc[w] = "asleep" /\ wpc' = [wpc EXCEPT ![w] = "fetch"]
          /\ UNCHANGED upc
    /\ UNCHANGED <<thread_count, queueVars, exit, call, result, task, pkt, histVars>>

Closed == upc = "closed" /\ UNCHANGED vars

\* The user's thread inside a call.
UserStep == CreateWorker \/ CreateFails \/ ReturnNothing \/ AwaitResult \/ TakeResult \/ Join
Next ==
    \/ UserStep \/ Submit \/ SubmitFails \/ Drain \/ Free \/ SpuriousWakeup \/ Closed
    \/ \E w \in Workers : Worker(w)

\* Threads are scheduled and the encoder returns from its calls; the user need
\* make no call, but leaves none half way.
Fairness ==
    /\ WF_vars(UserStep) /\ WF_vars(upc = "free" /\ Free)
    /\ \A w \in Workers : WF_vars(Worker(w))

Spec == Init /\ [][Next]_vars
FairSpec == Spec /\ Fairness
-----------------------------------------------------------------------------
Task == [index : Slots, frame : 1..MaxFrames, code : Outcomes]

\* The types of the variables.  The indexes count frames modulo the size of the
\* ring, and no more than thread_count + 1 frames are inside, so that the ring,
\* which nobody checks for room, is never overrun.
TypeOK ==
    /\ thread_count \in 0..NThreads
    /\ task_fifo \in Seq(Task) /\ Len(task_fifo) <= BufferSize
    /\ finished_tasks \in [Slots -> [full : BOOLEAN, code : Outcomes, frame : 0..MaxFrames]]
    /\ submitted \in 0..MaxFrames /\ returned \in 0..submitted
    /\ submitted - returned <= NThreads + 1
    /\ task_index = submitted % BufferSize /\ finished_task_index = returned % BufferSize
    /\ exit \in BOOLEAN
    /\ upc \in {"init", "free", "out", "collect", "asleep", "awake", "join", "closed"}
    /\ wpc \in [Workers -> {"none", "top", "fetch", "asleep", "encode", "finish", "end", "ended"}]
    /\ task \in [Workers -> Task \cup {NoTask}] /\ pkt \in [Workers -> BOOLEAN]
    /\ call \in {"none", "frame", "drain", "close", "closed"}
    /\ result \in [code : Outcomes, frame : 0..MaxFrames]
    /\ frames \subseteq 1..submitted /\ packets \in Nat

\* When the encoder is closed nothing it has made is left, in whatever state the
\* workers were told to end: no copy of a frame, no packet, no thread.
NothingLeft ==
    upc = "closed" =>
        /\ frames = {} /\ packets = 0
        /\ \A w \in Workers : wpc[w] \in {"none", "ended"}
=============================================================================
