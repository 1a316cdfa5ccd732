---------------------- MODULE FrameThreadEncoderProofs ----------------------
(***************************************************************************)
(* Proofs about FrameThreadEncoder, for any number of threads, any ring    *)
(* large enough and any number of frames.                                  *)
(*                                                                         *)
(* Frames are fetched in the order they were handed in, so that the queue  *)
(* holds the last ones (Queue).  Every frame before them that was not      *)
(* returned is with a worker (Held) or in its slot of the ring (Ring), and *)
(* as no more frames are inside than the ring has slots, the slot a worker *)
(* fills is empty and the slot the user takes is that of the next frame.   *)
(***************************************************************************)
EXTENDS FrameThreadEncoderMC, SequenceTheorems, FiniteSetTheorems, TLAPS

Open == upc \in {"out", "collect", "asleep", "awake"}
InCall == upc \in {"collect", "asleep", "awake"}

\* The frames up to this one have left the queue.
Fetched == submitted - Len(task_fifo)
SlotFor(frame) == (frame - 1) % BufferSize

Slot == [full : BOOLEAN, code : Outcomes, frame : 0 .. MaxFrames]
Types ==
    /\ thread_count \in 0 .. NThreads
    /\ task_fifo \in Seq(Task)
    /\ finished_tasks \in [Slots -> Slot]
    /\ submitted \in 0 .. MaxFrames /\ returned \in Nat
    /\ exit \in BOOLEAN
    /\ upc \in {"init", "free", "out", "collect", "asleep", "awake", "join", "closed"}
    /\ wpc \in [Workers -> {"none", "top", "fetch", "asleep", "encode", "finish", "end", "ended"}]
    /\ task \in [Workers -> Task \cup {NoTask}] /\ pkt \in [Workers -> BOOLEAN]
    /\ call \in {"none", "frame", "drain", "close", "closed"}
    /\ result \in [code : Outcomes, frame : 0 .. MaxFrames]

\* Where the user is, and which threads there are.
User ==
    /\ upc = "init" => thread_count < NThreads /\ call = "none"
    /\ upc \in {"init", "free"} => submitted = 0
    /\ Open => thread_count = NThreads
    /\ upc = "out" => call = "none"
    /\ InCall => call \in {"frame", "drain"}
    /\ upc \in {"free", "join"} => call = "close"
    /\ upc = "closed" => call = "closed" /\ task_fifo = <<>>
    /\ \A w \in Workers : wpc[w] = "none" <=> w >= thread_count
    /\ upc = "closed" => \A w \in Workers : wpc[w] \in {"none", "ended"}
    /\ upc = "closed" => \A s \in Slots : ~finished_tasks[s].full

\* No more frames are inside than the ring has slots.
Indexes ==
    /\ returned <= Fetched
    /\ submitted - returned <= IF InCall /\ call = "frame" THEN NThreads + 1 ELSE NThreads
    /\ task_index = submitted % BufferSize /\ finished_task_index = returned % BufferSize

Queue ==
    \A k \in 1 .. Len(task_fifo) :
        /\ task_fifo[k].frame = Fetched + k
        /\ task_fifo[k].index = SlotFor(task_fifo[k].frame)

Holds(w) == wpc[w] \in {"encode", "finish"}
Held ==
    \A w \in Workers : Holds(w) =>
        /\ returned < task[w].frame /\ task[w].frame <= Fetched
        /\ task[w].index = SlotFor(task[w].frame)
        /\ ~finished_tasks[task[w].index].full
        /\ \A v \in Workers : Holds(v) /\ task[v].frame = task[w].frame => v = w

Ring ==
    \A s \in Slots : finished_tasks[s].full =>
        /\ returned < finished_tasks[s].frame /\ finished_tasks[s].frame <= Fetched
        /\ s = SlotFor(finished_tasks[s].frame)

\* The copies of frames are in the queue and with the workers that encode.
Encoding == {w \in Workers : wpc[w] = "encode"}
Copies == frames = Queued \cup {task[w].frame : w \in Encoding}

\* The packets are with workers and in the ring.
WithPacket == {w \in Workers : pkt[w]}
Packets ==
    /\ packets = Cardinality(WithPacket) + Cardinality(Finished)
    /\ \A w \in Workers :
          /\ pkt[w] => wpc[w] \in {"fetch", "asleep", "encode", "finish", "end"}
          /\ wpc[w] \in {"fetch", "asleep", "encode", "finish"} => pkt[w]

\* The inductive invariant.
Inv == Types /\ User /\ Indexes /\ Queue /\ Held /\ Ring /\ Copies /\ Packets

-----------------------------------------------------------------------------
LEMMA Constants ==
  /\ NThreads \in Nat /\ NThreads >= 2 /\ MaxFrames \in Nat
  /\ BufferSize \in Nat /\ BufferSize >= NThreads + 2
  /\ \A w \in Workers : w \in Int /\ w >= 0 /\ w < NThreads
BY EncoderAssumption DEF Workers

\* Numbers modulo the size of the ring.
LEMMA Division ==
  ASSUME NEW a \in Int
  PROVE  /\ a % BufferSize \in Slots /\ a \div BufferSize \in Int
         /\ a = (BufferSize * (a \div BufferSize)) + (a % BufferSize)
BY EncoderAssumption DEF Slots

LEMMA Remainder ==
  ASSUME NEW a \in Int, NEW q \in Int, NEW m \in 0 .. BufferSize - 1, a = (BufferSize * q) + m
  PROVE  a % BufferSize = m
BY EncoderAssumption

LEMMA Remainders ==
  /\ \A m \in 0 .. BufferSize - 1 : m % BufferSize = m
  /\ BufferSize % BufferSize = 0
<1>1. ASSUME NEW m \in 0 .. BufferSize - 1 PROVE m % BufferSize = m
  BY Remainder, Constants
<1>2. BufferSize % BufferSize = 0
  BY Remainder, Constants
<1> QED BY <1>1, <1>2

LEMMA NextIndexFollows ==
  ASSUME NEW s \in Nat
  PROVE  NextIndex(s % BufferSize) = (s + 1) % BufferSize
<1> DEFINE q == s \div BufferSize
           m == s % BufferSize
<1>1. q \in Int /\ m \in 0 .. BufferSize - 1 /\ s = (BufferSize * q) + m
  BY Division DEF Slots
<1> HIDE DEF q, m
<1>2. CASE m + 1 < BufferSize
  <2>1. s + 1 = (BufferSize * q) + (m + 1) /\ m + 1 \in 0 .. BufferSize - 1
    BY <1>1, <1>2, Constants
  <2>2. (s + 1) % BufferSize = m + 1
    BY <1>1, <2>1, Remainder
  <2>3. (m + 1) % BufferSize = m + 1
    BY <2>1, Remainders
  <2> QED BY <2>2, <2>3 DEF NextIndex, m
<1>3. CASE m + 1 = BufferSize
  <2>1. BufferSize * (q + 1) = (BufferSize * q) + BufferSize
    BY <1>1, Constants
  <2>2. s + 1 = (BufferSize * (q + 1)) + 0 /\ 0 \in 0 .. BufferSize - 1 /\ q + 1 \in Int
    BY <1>1, <1>3, <2>1, Constants
  <2>3. (s + 1) % BufferSize = 0
    BY <2>2, Remainder
  <2> QED BY <1>3, <2>3, Remainders DEF NextIndex, m
<1> QED BY <1>1, <1>2, <1>3, Constants

\* The distance of two indexes that are less than the ring apart.
LEMMA IndexDistance ==
  ASSUME NEW s \in Int, NEW r \in Int, r <= s, s - r < BufferSize
  PROVE  /\ ((s % BufferSize) - (r % BufferSize)) % BufferSize = s - r
         /\ s % BufferSize = r % BufferSize => s = r
<1> DEFINE qs == s \div BufferSize
           qr == r \div BufferSize
           ms == s % BufferSize
           mr == r % BufferSize
<1>1. /\ qs \in Int /\ ms \in 0 .. BufferSize - 1 /\ s = (BufferSize * qs) + ms
      /\ qr \in Int /\ mr \in 0 .. BufferSize - 1 /\ r = (BufferSize * qr) + mr
  BY Division DEF Slots
<1> HIDE DEF qs, qr, ms, mr
<1>2. BufferSize * (qr - qs) = (BufferSize * qr) - (BufferSize * qs)
  BY <1>1, Constants
<1>3. ms - mr = (BufferSize * (qr - qs)) + (s - r)
  BY <1>1, <1>2, Constants
<1>4. s - r \in 0 .. BufferSize - 1 /\ ms - mr \in Int /\ qr - qs \in Int
  BY <1>1, Constants
<1>5. (ms - mr) % BufferSize = s - r
  BY <1>3, <1>4, Remainder
<1>6. ms = mr => s = r
  <2> HAVE ms = mr
  <2>1. ms - mr = 0
    BY <1>1
  <2>2. (ms - mr) % BufferSize = 0
    BY <2>1, Remainders, Constants
  <2> QED BY <1>5, <2>2
<1> QED BY <1>5, <1>6 DEF ms, mr

\* Two frames inside at a time have slots of their own.
LEMMA SlotsDiffer ==
  ASSUME NEW f \in Int, NEW g \in Int, f - g < BufferSize, g - f < BufferSize,
         SlotFor(f) = SlotFor(g)
  PROVE  f = g
<1>1. CASE f <= g
  <2>1. g - 1 = f - 1
    BY <1>1, IndexDistance DEF SlotFor
  <2> QED BY <2>1
<1>2. CASE g <= f
  <2>1. f - 1 = g - 1
    BY <1>2, IndexDistance DEF SlotFor
  <2> QED BY <2>1
<1> QED BY <1>1, <1>2

\* pthread_cond_signal lets at most one sleeping worker go on.
LEMMA SignalMeans ==
  ASSUME Types, SignalWorker
  PROVE  /\ wpc' \in [Workers -> {"none", "top", "fetch", "asleep", "encode", "finish", "end",
                                  "ended"}]
         /\ \A w \in Workers : wpc'[w] = wpc[w] \/ (wpc[w] = "asleep" /\ wpc'[w] = "fetch")
<1>1. CASE Asleep = {}
  BY <1>1 DEF Types, SignalWorker
<1>2. CASE Asleep # {}
  <2>1. PICK w \in Asleep : wpc' = [wpc EXCEPT ![w] = "fetch"]
    BY <1>2, Zenon DEF SignalWorker
  <2> QED BY <2>1 DEF Types, Asleep
<1> QED BY <1>1, <1>2

\* A step after which every worker has the task and the packet it had.
SameWork ==
    /\ UNCHANGED <<task, pkt>>
    /\ \A w \in Workers : \/ wpc'[w] = wpc[w]
                          \/ wpc[w] = "none" /\ wpc'[w] = "top"
                          \/ wpc[w] = "asleep" /\ wpc'[w] = "fetch"

LEMMA SameWorkKeeps ==
  ASSUME Inv, SameWork
  PROVE  /\ \A w \in Workers : Holds(w)' <=> Holds(w)
         /\ Encoding' = Encoding /\ WithPacket' = WithPacket
         /\ \A w \in Workers : task'[w] = task[w]
         /\ \A w \in Workers :
              /\ pkt'[w] => wpc'[w] \in {"fetch", "asleep", "encode", "finish", "end"}
              /\ wpc'[w] \in {"fetch", "asleep", "encode", "finish"} => pkt'[w]
<1>1. \A w \in Workers : Holds(w)' <=> Holds(w)
  BY DEF SameWork, Holds
<1>2. Encoding' = Encoding
  BY DEF SameWork, Encoding
<1>3. WithPacket' = WithPacket
  BY Zenon DEF SameWork, WithPacket
<1>4. \A w \in Workers :
        /\ pkt'[w] => wpc'[w] \in {"fetch", "asleep", "encode", "finish", "end"}
        /\ wpc'[w] \in {"fetch", "asleep", "encode", "finish"} => pkt'[w]
  BY DEF SameWork, Inv, Packets
<1> QED BY <1>1, <1>2, <1>3, <1>4 DEF SameWork

\* A step of the user that moves no frame.
LEMMA NoFrameMoves ==
  ASSUME Inv, SameWork, Types', User', Indexes',
         UNCHANGED <<task_fifo, finished_tasks, submitted, returned, frames, packets>>
  PROVE  Inv'
<1>1. Fetched' = Fetched /\ Queued' = Queued /\ Finished' = Finished
  BY DEF Fetched, Queued, Finished
<1>2. Queue'
  BY <1>1 DEF Queue, Inv
<1>3. Held'
  BY <1>1, SameWorkKeeps DEF Held, Inv
<1>4. Ring'
  BY <1>1 DEF Ring, Inv
<1>5. Copies'
  BY <1>1, SameWorkKeeps DEF Copies, Inv, SameWork
<1>6. Packets'
  BY <1>1, SameWorkKeeps DEF Packets, Inv
<1> QED BY <1>2, <1>3, <1>4, <1>5, <1>6 DEF Inv

\* Inside a call, or between two, the indexes tell the frames that are inside.
LEMMA InFlightMeans ==
  ASSUME Inv
  PROVE  /\ submitted - returned < BufferSize
         /\ InFlight = submitted - returned
         /\ task_index = finished_task_index => submitted = returned
<1> USE Constants DEF Inv, Types
<1>1. /\ returned <= submitted /\ submitted - returned < BufferSize
      /\ submitted \in Int /\ returned \in Int
  BY LenProperties DEF Indexes, Fetched
<1> QED
  BY <1>1, IndexDistance DEF Indexes, InFlight

LEMMA CreateWorkerStep ==
  ASSUME Inv, CreateWorker
  PROVE  Inv'
<1> USE Constants DEF CreateWorker, queueVars, workerVars, userVars, histVars, Inv
<1>1. Types'
  <2>1. thread_count' \in 0 .. NThreads
    BY DEF Types
  <2>2. wpc' \in [Workers -> {"none", "top", "fetch", "asleep", "encode", "finish", "end", "ended"}]
    BY DEF Types
  <2>3. upc' \in {"out", "init"}
    OBVIOUS
  <2> QED BY <2>1, <2>2, <2>3 DEF Types
<1>2. User'
  BY DEF Types, User, Open, InCall
<1>3. Indexes'
  BY DEF Types, User, Indexes, Fetched, InCall
<1>4. SameWork
  BY DEF Types, SameWork, User
<1>5. UNCHANGED <<task_fifo, finished_tasks, submitted, returned, frames, packets>>
  OBVIOUS
<1> QED BY <1>1, <1>2, <1>3, <1>4, <1>5, NoFrameMoves

LEMMA CreateFailsStep ==
  ASSUME Inv, CreateFails
  PROVE  Inv'
<1> USE Constants DEF CreateFails, queueVars, workerVars, userVars, histVars, Inv
<1>1. Types'
  BY DEF Types, Outcomes, NoResult, User
<1>2. User'
  BY DEF Types, User, Open, InCall
<1>3. Indexes'
  BY DEF Types, User, Indexes, Fetched, InCall
<1>4. SameWork
  BY DEF Types, SameWork, User
<1>5. UNCHANGED <<task_fifo, finished_tasks, submitted, returned, frames, packets>>
  OBVIOUS
<1> QED BY <1>1, <1>2, <1>3, <1>4, <1>5, NoFrameMoves

LEMMA SubmitFailsStep ==
  ASSUME Inv, SubmitFails
  PROVE  Inv'
<1> USE Constants DEF SubmitFails, queueVars, workerVars, userVars, histVars, Inv
<1>1. Types'
  BY DEF Types, Outcomes, NoResult, User
<1>2. User'
  BY DEF Types, User, Open, InCall
<1>3. Indexes'
  BY DEF Types, User, Indexes, Fetched, InCall
<1>4. SameWork
  BY DEF Types, SameWork, User
<1>5. UNCHANGED <<task_fifo, finished_tasks, submitted, returned, frames, packets>>
  OBVIOUS
<1> QED BY <1>1, <1>2, <1>3, <1>4, <1>5, NoFrameMoves

LEMMA DrainStep ==
  ASSUME Inv, Drain
  PROVE  Inv'
<1> USE Constants DEF Drain, queueVars, workerVars, userVars, histVars, Inv
<1>1. Types'
  BY DEF Types, Outcomes, NoResult, User
<1>2. User'
  BY DEF Types, User, Open, InCall
<1>3. Indexes'
  BY DEF Types, User, Indexes, Fetched, InCall
<1>4. SameWork
  BY DEF Types, SameWork, User
<1>5. UNCHANGED <<task_fifo, finished_tasks, submitted, returned, frames, packets>>
  OBVIOUS
<1> QED BY <1>1, <1>2, <1>3, <1>4, <1>5, NoFrameMoves

LEMMA ReturnNothingStep ==
  ASSUME Inv, ReturnNothing
  PROVE  Inv'
<1> USE Constants DEF ReturnNothing, NothingToReturn, Room, queueVars, workerVars, userVars, histVars, Inv
<1>1. Types'
  BY DEF Types, Outcomes, NoResult, User
<1>2. User'
  BY DEF Types, User, Open, InCall
<1>3. Indexes'
  <2>1. submitted - returned <= NThreads
    <3>1. CASE task_index = finished_task_index
      BY <3>1, InFlightMeans DEF Types
    <3>2. CASE InFlight <= thread_count
      BY <3>2, InFlightMeans DEF Types
    <3> QED BY <3>1, <3>2
  <2>2. upc' = "out" /\ UNCHANGED <<submitted, returned, task_fifo, task_index, finished_task_index>>
    OBVIOUS
  <2> HIDE DEF ReturnNothing
  <2> QED BY <2>1, <2>2 DEF Indexes, Fetched, InCall
<1>4. SameWork
  BY DEF Types, SameWork, User
<1>5. UNCHANGED <<task_fifo, finished_tasks, submitted, returned, frames, packets>>
  OBVIOUS
<1> QED BY <1>1, <1>2, <1>3, <1>4, <1>5, NoFrameMoves

LEMMA AwaitResultStep ==
  ASSUME Inv, AwaitResult
  PROVE  Inv'
<1> USE Constants DEF AwaitResult, queueVars, workerVars, userVars, histVars, Inv
<1>1. Types'
  BY DEF Types, Outcomes, NoResult, User
<1>2. User'
  BY DEF Types, User, Open, InCall
<1>3. Indexes'
  BY DEF Types, User, Indexes, Fetched, InCall
<1>4. SameWork
  BY DEF Types, SameWork, User
<1>5. UNCHANGED <<task_fifo, finished_tasks, submitted, returned, frames, packets>>
  OBVIOUS
<1> QED BY <1>1, <1>2, <1>3, <1>4, <1>5, NoFrameMoves

LEMMA FreeStep ==
  ASSUME Inv, Free
  PROVE  Inv'
<1> USE Constants DEF Free, WakeWorkers, queueVars, workerVars, userVars, histVars, Inv
<1>1. Types'
  BY DEF Types, Outcomes, NoResult, User
<1>2. User'
  BY DEF Types, User, Open, InCall
<1>3. Indexes'
  BY DEF Types, User, Indexes, Fetched, InCall
<1>4. SameWork
  BY DEF Types, SameWork, User
<1>5. UNCHANGED <<task_fifo, finished_tasks, submitted, returned, frames, packets>>
  OBVIOUS
<1> QED BY <1>1, <1>2, <1>3, <1>4, <1>5, NoFrameMoves

LEMMA SpuriousWakeupStep ==
  ASSUME Inv, SpuriousWakeup
  PROVE  Inv'
<1> USE Constants DEF SpuriousWakeup, queueVars, workerVars, userVars, histVars, Inv
<1>1. Types'
  BY DEF Types, Outcomes, NoResult, User
<1>2. User'
  BY DEF Types, User, Open, InCall
<1>3. Indexes'
  BY DEF Types, User, Indexes, Fetched, InCall
<1>4. SameWork
  BY DEF Types, SameWork, User
<1>5. UNCHANGED <<task_fifo, finished_tasks, submitted, returned, frames, packets>>
  OBVIOUS
<1> QED BY <1>1, <1>2, <1>3, <1>4, <1>5, NoFrameMoves

\* The frames in the queue are those after Fetched.
LEMMA QueuedFrames ==
  ASSUME Inv
  PROVE  /\ Len(task_fifo) \in Nat /\ Fetched \in Int
         /\ \A f \in Queued : Fetched < f /\ f <= submitted
         /\ \A k \in 1 .. Len(task_fifo) : task_fifo[k] \in Task
<1> USE DEF Inv, Types
<1>1. Len(task_fifo) \in Nat /\ \A k \in 1 .. Len(task_fifo) : task_fifo[k] \in Task
  BY LenProperties, ElementOfSeq
<1>2. Fetched \in Int
  BY <1>1 DEF Fetched
<1>3. ASSUME NEW f \in Queued PROVE Fetched < f /\ f <= submitted
  <2>1. PICK k \in 1 .. Len(task_fifo) : f = task_fifo[k].frame
    BY DEF Queued
  <2>2. f = Fetched + k
    BY <2>1 DEF Queue
  <2> QED BY <1>1, <1>2, <2>2 DEF Fetched
<1> QED BY <1>1, <1>2, <1>3

\* A frame is queued last, behind the others.
LEMMA SubmitStep ==
  ASSUME Inv, Submit
  PROVE  Inv'
<1> USE Constants DEF Inv
<1> DEFINE t == [index |-> task_index, frame |-> submitted + 1, code |-> "nothing"]
<1>1. /\ upc = "out" /\ submitted < MaxFrames /\ submitted' = submitted + 1
      /\ frames' = frames \cup {submitted + 1} /\ task_fifo' = Append(task_fifo, t)
      /\ task_index' = NextIndex(task_index) /\ upc' = "collect" /\ call' = "frame"
      /\ UNCHANGED <<thread_count, finished_tasks, finished_task_index, exit, result, task, pkt,
                     packets, returned>>
  BY DEF Submit
<1>2. /\ SameWork
      /\ wpc' \in [Workers -> {"none", "top", "fetch", "asleep", "encode", "finish", "end",
                               "ended"}]
  BY <1>1, SignalMeans DEF SameWork, Submit
<1>3. t \in Task
  <2>1. submitted \in Int /\ submitted + 1 \in 1 .. MaxFrames
    BY <1>1 DEF Types
  <2>2. task_index \in Slots
    BY <2>1, Division DEF Indexes
  <2> QED BY <2>1, <2>2 DEF Task, Outcomes
<1>4. /\ task_fifo' \in Seq(Task) /\ Len(task_fifo') = Len(task_fifo) + 1
      /\ \A k \in 1 .. Len(task_fifo) : task_fifo'[k] = task_fifo[k]
      /\ task_fifo'[Len(task_fifo) + 1] = t
  BY <1>1, <1>3 DEF Types
<1> HIDE DEF t
<1>5. Len(task_fifo) \in Nat /\ Fetched \in Int /\ Fetched' = Fetched
  BY <1>1, <1>4, QueuedFrames DEF Fetched, Types
<1>6. Types'
  BY <1>1, <1>2, <1>4 DEF Types
<1>7. User'
  BY <1>1, <1>2 DEF User, Open, InCall, SameWork
<1>8. Indexes'
  <2>1. submitted \in Nat
    BY DEF Types
  <2>2. task_index' = submitted' % BufferSize
    BY <1>1, <2>1, NextIndexFollows DEF Indexes
  <2>3. submitted - returned <= NThreads
    BY <1>1 DEF Indexes, InCall
  <2>4. returned' <= Fetched' /\ submitted' - returned' <= NThreads + 1
    BY <1>1, <1>5, <2>1, <2>3 DEF Indexes, Types
  <2> QED BY <1>1, <2>2, <2>4 DEF Indexes, InCall
<1>9. Queue'
  <2>1. ASSUME NEW k \in 1 .. Len(task_fifo') 
        PROVE  /\ task_fifo'[k].frame = Fetched + k
               /\ task_fifo'[k].index = SlotFor(task_fifo'[k].frame)
    <3>1. CASE k \in 1 .. Len(task_fifo)
      BY <3>1, <1>4 DEF Queue
    <3>2. CASE k = Len(task_fifo) + 1
      <4>1. task_fifo'[k] = t
        BY <1>4, <3>2
      <4>2. t.frame = submitted + 1 /\ t.index = submitted % BufferSize
        BY DEF t, Indexes
      <4>3. submitted + 1 = Fetched + k /\ (submitted + 1) - 1 = submitted
        BY <1>5, <3>2 DEF Fetched, Types
      <4> QED BY <4>1, <4>2, <4>3 DEF SlotFor
    <3> QED BY <1>4, <1>5, <3>1, <3>2
  <2> QED BY <1>5, <2>1 DEF Queue, SlotFor
<1>10. Held'
  BY <1>1, <1>2, <1>5, SameWorkKeeps DEF Held
<1>11. Ring'
  BY <1>1, <1>5 DEF Ring
<1>12. Copies'
  <2>1. Queued' = Queued \cup {submitted + 1}
    <3>1. t.frame = submitted + 1
      BY DEF t
    <3> QED BY <1>4, <1>5, <3>1 DEF Queued
  <2>2. {task'[w].frame : w \in Encoding'} = {task[w].frame : w \in Encoding}
    BY <1>1, <1>2, SameWorkKeeps
  <2> QED BY <1>1, <2>1, <2>2 DEF Copies
<1>13. Packets'
  <2>1. Finished' = Finished
    BY <1>1 DEF Finished
  <2> QED BY <1>1, <1>2, <2>1, SameWorkKeeps DEF Packets
<1> QED BY <1>6, <1>7, <1>8, <1>9, <1>10, <1>11, <1>12, <1>13

\* The slot the user takes is that of the next frame.
LEMMA OldestIsNext ==
  ASSUME Inv, Oldest.full
  PROVE  /\ Oldest.frame = returned + 1 /\ returned + 1 <= Fetched
         /\ finished_task_index \in Slots
         /\ SlotFor(returned + 1) = finished_task_index
<1> USE Constants DEF Inv, Types
<1> DEFINE f == finished_tasks[finished_task_index].frame
<1>1. finished_task_index \in Slots /\ finished_task_index = returned % BufferSize
  BY Division DEF Indexes
<1>2. f \in Int /\ returned < f /\ f <= Fetched /\ finished_task_index = SlotFor(f)
  BY <1>1 DEF Oldest, Ring, Slot
<1> HIDE DEF f
<1>3. SlotFor(returned + 1) = finished_task_index
  <2>1. (returned + 1) - 1 = returned
    OBVIOUS
  <2> QED BY <1>1, <2>1 DEF SlotFor
<1>4. Fetched <= submitted /\ submitted - returned < BufferSize
  BY QueuedFrames, InFlightMeans DEF Fetched
<1>5. f - (returned + 1) < BufferSize /\ (returned + 1) - f < BufferSize
  BY <1>2, <1>4, QueuedFrames
<1>6. f = returned + 1
  BY <1>2, <1>3, <1>5, SlotsDiffer
<1> QED BY <1>1, <1>2, <1>3, <1>6 DEF Oldest, f

LEMMA FinishedIsFinite ==
  /\ IsFiniteSet(Slots) /\ IsFiniteSet(Finished) /\ IsFiniteSet(Workers) /\ IsFiniteSet(WithPacket)
<1>1. IsFiniteSet(Slots) /\ IsFiniteSet(Workers)
  BY Constants, FS_Interval DEF Slots, Workers
<1>2. Finished \in SUBSET Slots /\ WithPacket \in SUBSET Workers
  BY DEF Finished, WithPacket
<1> QED BY <1>1, <1>2, FS_Subset

LEMMA TakeResultStep ==
  ASSUME Inv, TakeResult
  PROVE  Inv'
<1> USE Constants DEF Inv
<1>1. /\ InCall /\ Oldest.full /\ upc' = "out" /\ call' = "none"
      /\ result' = Returned(Oldest)
      /\ finished_tasks' = [finished_tasks EXCEPT ![finished_task_index] = Empty]
      /\ finished_task_index' = NextIndex(finished_task_index)
      /\ packets' = packets - 1 /\ returned' = returned + 1
      /\ UNCHANGED <<thread_count, task_fifo, task_index, exit, wpc, task, pkt, frames, submitted>>
  BY DEF TakeResult, InCall, workerVars
<1>2. /\ Oldest.frame = returned + 1 /\ returned + 1 <= Fetched /\ finished_task_index \in Slots
      /\ SlotFor(returned + 1) = finished_task_index
  BY <1>1, OldestIsNext
<1>3. /\ SameWork /\ Fetched' = Fetched /\ Queued' = Queued
      /\ \A s \in Slots : finished_tasks'[s] =
            IF s = finished_task_index THEN Empty ELSE finished_tasks[s]
      /\ Oldest \in Slot
  BY <1>1, <1>2 DEF SameWork, Fetched, Queued, Types, Oldest
<1>4. Types'
  <2>1. Empty \in Slot
    BY DEF Slot, Empty, Outcomes
  <2>2. finished_tasks' \in [Slots -> Slot]
    BY <1>1, <2>1 DEF Types
  <2>3. result' \in [code : Outcomes, frame : 0 .. MaxFrames]
    BY <1>1, <1>3 DEF Slot, Returned
  <2> QED BY <1>1, <2>2, <2>3 DEF Types
<1>5. User'
  BY <1>1 DEF User, Open, InCall
<1>6. Indexes'
  <2>1. finished_task_index' = returned' % BufferSize
    BY <1>1, NextIndexFollows DEF Indexes, Types
  <2>2. submitted - returned <= NThreads + 1
    BY DEF Indexes, Types
  <2>3. submitted' - returned' <= NThreads
    BY <1>1, <2>2 DEF Types
  <2> QED BY <1>1, <1>2, <1>3, <2>1, <2>3 DEF Indexes, InCall
<1>7. Queue'
  BY <1>1, <1>3 DEF Queue
<1>8. Held'
  <2>1. ASSUME NEW w \in Workers, Holds(w)
        PROVE  /\ returned + 1 < task[w].frame
               /\ ~finished_tasks'[task[w].index].full
    <3>1. task[w].index = SlotFor(task[w].frame) /\ task[w].frame > returned
          /\ ~finished_tasks[task[w].index].full
      BY <2>1 DEF Held
    <3>2. task[w].frame # returned + 1
      BY <1>1, <1>2, <3>1 DEF Oldest
    <3>3. task[w].frame \in Int /\ task[w].index \in Slots
      BY EncoderAssumption DEF Types, Task, NoTask, Slots
    <3>4. returned + 1 < task[w].frame
      BY <3>1, <3>2, <3>3 DEF Types
    <3>5. finished_tasks'[task[w].index] =
             IF task[w].index = finished_task_index THEN Empty ELSE finished_tasks[task[w].index]
      BY <1>3, <3>3
    <3>6. ~finished_tasks'[task[w].index].full
      BY <3>1, <3>5 DEF Empty
    <3> QED BY <3>4, <3>6
  <2> QED BY <1>1, <1>3, <2>1, SameWorkKeeps DEF Held
<1>9. Ring'
  <2>1. ASSUME NEW s \in Slots, finished_tasks'[s].full
        PROVE  finished_tasks'[s] = finished_tasks[s] /\ returned + 1 < finished_tasks[s].frame
    <3>1. s # finished_task_index /\ finished_tasks'[s] = finished_tasks[s]
      BY <1>3, <2>1 DEF Empty
    <3>2. finished_tasks[s].frame > returned /\ s = SlotFor(finished_tasks[s].frame)
      BY <2>1, <3>1 DEF Ring
    <3>3. finished_tasks[s].frame # returned + 1
      BY <1>2, <3>1, <3>2
    <3>4. finished_tasks[s].frame \in Int
      BY DEF Types, Slot
    <3> QED BY <3>1, <3>2, <3>3, <3>4 DEF Types
  <2> QED BY <1>1, <1>3, <2>1 DEF Ring
<1>10. Copies'
  BY <1>1, <1>3, SameWorkKeeps DEF Copies
<1>11. Packets'
  <2>1. Finished' = Finished \ {finished_task_index} /\ finished_task_index \in Finished
    BY <1>1, <1>2, <1>3 DEF Finished, Empty, Oldest
  <2>2. Cardinality(Finished') = Cardinality(Finished) - 1
    BY <2>1, FinishedIsFinite, FS_RemoveElement
  <2>3. Cardinality(Finished) \in Int /\ Cardinality(WithPacket) \in Int
    BY FinishedIsFinite, FS_CardinalityType
  <2>4. WithPacket' = WithPacket
    BY <1>3, SameWorkKeeps
  <2>5. packets' = Cardinality(WithPacket') + Cardinality(Finished')
    BY <1>1, <2>2, <2>3, <2>4 DEF Packets
  <2> QED BY <1>3, <2>5, SameWorkKeeps DEF Packets
<1> QED BY <1>4, <1>5, <1>6, <1>7, <1>8, <1>9, <1>10, <1>11

Pcs == {"none", "top", "fetch", "asleep", "encode", "finish", "end", "ended"}

\* A step of one worker that neither takes nor finishes a task.
LEMMA NoTaskMoves ==
  ASSUME Inv, NEW w \in Workers, NEW to \in Pcs, wpc[w] \notin {"none", "encode", "finish"},
         wpc' = [wpc EXCEPT ![w] = to], to \notin {"none", "encode", "finish"},
         to = "ended" \/ upc # "closed",
         UNCHANGED <<thread_count, task_fifo, finished_tasks, task_index, finished_task_index,
                     exit, upc, call, result, task, frames, submitted, returned>>,
         pkt' \in [Workers -> BOOLEAN], Packets'
  PROVE  Inv'
<1> USE Constants DEF Inv
<1>1. Types' /\ User' /\ Indexes'
  <2>1. Types'
    BY DEF Types, Pcs
  <2>2. User'
    <3>1. \A v \in Workers : wpc'[v] = IF v = w THEN to ELSE wpc[v]
      BY DEF Types
    <3>2. \A v \in Workers : wpc'[v] = "none" <=> wpc[v] = "none"
      BY <3>1
    <3>3. upc = "closed" => \A v \in Workers : wpc'[v] \in {"none", "ended"}
      BY <3>1 DEF User
    <3> QED BY <3>2, <3>3 DEF User, Open, InCall
  <2>3. Indexes'
    BY DEF Indexes, InCall, Fetched
  <2> QED BY <2>1, <2>2, <2>3
<1>2. Fetched' = Fetched /\ Queued' = Queued
  BY DEF Fetched, Queued
<1>3. Queue' /\ Ring'
  BY <1>2 DEF Queue, Ring
<1>4. \A v \in Workers : Holds(v)' <=> Holds(v)
  BY DEF Holds, Types
<1>5. Held'
  BY <1>2, <1>4 DEF Held
<1>6. Encoding' = Encoding
  BY DEF Encoding, Types
<1>7. Copies'
  BY <1>2, <1>6 DEF Copies
<1> QED BY <1>1, <1>3, <1>5, <1>7

LEMMA WorkerTopStep ==
  ASSUME Inv, NEW w \in Workers, WorkerTop(w)
  PROVE  Inv'
<1> USE Constants DEF Inv
<1>1. /\ wpc[w] = "top" /\ upc # "closed" /\ ~pkt[w]
      /\ UNCHANGED <<thread_count, task_fifo, finished_tasks, task_index, finished_task_index,
                     exit, upc, call, result, task, frames, submitted, returned>>
  BY DEF WorkerTop, queueVars, userVars, User, Packets
<1>2. Finished' = Finished
  BY <1>1 DEF Finished
<1>3. CASE exit
  <2>1. wpc' = [wpc EXCEPT ![w] = "end"] /\ UNCHANGED <<pkt, packets>>
    BY <1>3 DEF WorkerTop
  <2>2. WithPacket' = WithPacket
    BY <2>1 DEF WithPacket
  <2>3. Packets'
    BY <1>1, <1>2, <2>1, <2>2 DEF Packets, Types
  <2>4. pkt' \in [Workers -> BOOLEAN]
    BY <2>1 DEF Types
  <2> QED BY <1>1, <2>1, <2>3, <2>4, NoTaskMoves DEF Pcs
<1>4. CASE ~exit
  <2>1. /\ wpc' = [wpc EXCEPT ![w] = "fetch"] /\ pkt' = [pkt EXCEPT ![w] = TRUE]
        /\ packets' = packets + 1
    BY <1>1, <1>4, Zenon DEF WorkerTop
  <2>2. WithPacket' = WithPacket \cup {w} /\ w \notin WithPacket
    BY <1>1, <2>1 DEF WithPacket, Types
  <2>3. Cardinality(WithPacket') = Cardinality(WithPacket) + 1
    BY <2>2, FinishedIsFinite, FS_AddElement
  <2>4. Cardinality(Finished) \in Int /\ Cardinality(WithPacket) \in Int
    BY FinishedIsFinite, FS_CardinalityType
  <2>5. packets' = Cardinality(WithPacket') + Cardinality(Finished')
    BY <1>2, <2>1, <2>3, <2>4 DEF Packets
  <2>6. pkt' \in [Workers -> BOOLEAN]
    BY <2>1 DEF Types
  <2>7. Packets'
    BY <1>1, <2>1, <2>5 DEF Packets, Types
  <2> QED BY <1>1, <2>1, <2>6, <2>7, NoTaskMoves DEF Pcs
<1> QED BY <1>3, <1>4

LEMMA EndStep ==
  ASSUME Inv, NEW w \in Workers, End(w)
  PROVE  Inv'
<1> USE Constants DEF Inv
<1>1. /\ wpc[w] = "end" /\ wpc' = [wpc EXCEPT ![w] = "ended"]
      /\ pkt' = [pkt EXCEPT ![w] = FALSE]
      /\ packets' = IF pkt[w] THEN packets - 1 ELSE packets
      /\ UNCHANGED <<thread_count, task_fifo, finished_tasks, task_index, finished_task_index,
                     exit, upc, call, result, task, frames, submitted, returned>>
  BY DEF End, queueVars, userVars
<1>2. Finished' = Finished
  BY <1>1 DEF Finished
<1>3. WithPacket' = WithPacket \ {w} /\ (pkt[w] <=> w \in WithPacket)
  BY <1>1 DEF WithPacket, Types
<1>4. Cardinality(WithPacket') =
         IF pkt[w] THEN Cardinality(WithPacket) - 1 ELSE Cardinality(WithPacket)
  BY <1>3, FinishedIsFinite, FS_RemoveElement
<1>5. Cardinality(Finished) \in Int /\ Cardinality(WithPacket) \in Int
  BY FinishedIsFinite, FS_CardinalityType
<1>6. packets' = Cardinality(WithPacket') + Cardinality(Finished')
  BY <1>1, <1>2, <1>4, <1>5 DEF Packets
<1>7. pkt' \in [Workers -> BOOLEAN]
  BY <1>1 DEF Types
<1>8. Packets'
  BY <1>1, <1>6 DEF Packets, Types
<1> QED BY <1>1, <1>7, <1>8, NoTaskMoves DEF Pcs

\* The worker takes the first frame of the queue.
LEMMA TakesTask ==
  ASSUME Inv, NEW w \in Workers, wpc[w] = "fetch", task_fifo # <<>>,
         wpc' = [wpc EXCEPT ![w] = "encode"],
         task' = [task EXCEPT ![w] = Head(task_fifo)], task_fifo' = Tail(task_fifo),
         UNCHANGED <<thread_count, finished_tasks, task_index, finished_task_index, exit,
                     upc, call, result, pkt, frames, packets, submitted, returned>>
  PROVE  Inv'
<1> USE Constants DEF Inv
<1>1. /\ Len(task_fifo) \in Nat /\ Len(task_fifo) >= 1
      /\ task_fifo' \in Seq(Task) /\ Len(task_fifo') = Len(task_fifo) - 1
      /\ \A k \in 1 .. Len(task_fifo') : task_fifo'[k] = task_fifo[k + 1]
      /\ Head(task_fifo) = task_fifo[1] /\ task_fifo[1] \in Task
  BY HeadTailProperties, LenProperties, EmptySeq, ElementOfSeq DEF Types
<1>2. Fetched \in Int /\ Fetched' = Fetched + 1
  BY <1>1, QueuedFrames DEF Fetched, Types
<1>3. task_fifo[1].frame = Fetched + 1 /\ task_fifo[1].index = SlotFor(Fetched + 1)
  BY <1>1 DEF Queue
<1>4. \A v \in Workers : task'[v] = IF v = w THEN task_fifo[1] ELSE task[v]
  BY <1>1 DEF Types
<1>5. Types'
  BY <1>1 DEF Types
<1>6. User'
  BY DEF User, Open, InCall, Types
<1>7. Indexes'
  BY <1>2 DEF Indexes, InCall, Types
<1>8. Queue'
  <2>1. ASSUME NEW k \in 1 .. Len(task_fifo')
        PROVE  /\ task_fifo'[k].frame = Fetched' + k
               /\ task_fifo'[k].index = SlotFor(task_fifo'[k].frame)
    <3>1. k + 1 \in 1 .. Len(task_fifo) /\ task_fifo'[k] = task_fifo[k + 1]
      BY <1>1
    <3>2. task_fifo[k + 1].frame = Fetched + (k + 1)
      BY <3>1 DEF Queue
    <3>3. Fetched + (k + 1) = Fetched' + k
      BY <1>2, <3>1
    <3> QED BY <3>1, <3>2, <3>3 DEF Queue
  <2> QED BY <2>1 DEF Queue, SlotFor
<1>9. Ring'
  BY <1>2 DEF Ring, Types, Slot
<1>10. \A v \in Workers : Holds(v)' <=> Holds(v) \/ v = w
  BY DEF Holds, Types
<1>11. ~Holds(w)
  BY DEF Holds
<1>12. Held'
  <2>1. ~finished_tasks[task_fifo[1].index].full
    <3> SUFFICES ASSUME finished_tasks[task_fifo[1].index].full PROVE FALSE
      OBVIOUS
    <3> DEFINE g == finished_tasks[task_fifo[1].index].frame
    <3>1. task_fifo[1].index \in Slots
      BY <1>1 DEF Task
    <3>2. g \in Int /\ returned < g /\ g <= Fetched /\ SlotFor(g) = SlotFor(Fetched + 1)
      BY <1>3, <3>1 DEF Ring, Types, Slot
    <3>3. submitted - returned < BufferSize /\ Fetched + 1 <= submitted
      BY <1>1, InFlightMeans DEF Fetched, Types
    <3>4. g = Fetched + 1
      <4> HIDE DEF g
      <4>1. (Fetched + 1) - g < BufferSize /\ g - (Fetched + 1) < BufferSize
        BY <1>2, <3>2, <3>3 DEF Types
      <4> QED BY <1>2, <3>2, <4>1, SlotsDiffer
    <3> QED BY <1>2, <3>2, <3>4
  <2>2. ASSUME NEW v \in Workers, Holds(v)
        PROVE  task[v].frame # task_fifo[1].frame /\ task[v].frame <= Fetched + 1
    <3>1. task[v].frame <= Fetched /\ task[v].frame \in Int
      BY <2>2 DEF Held, Types, Task, NoTask
    <3> QED BY <1>2, <1>3, <3>1
  <2>3. returned < Fetched + 1
    BY <1>2 DEF Indexes, Types
  <2>4. ASSUME NEW v \in Workers, Holds(v)'
        PROVE  /\ returned < task'[v].frame /\ task'[v].frame <= Fetched + 1
               /\ task'[v].index = SlotFor(task'[v].frame)
               /\ ~finished_tasks[task'[v].index].full
    <3>1. CASE v = w
      BY <1>2, <1>3, <1>4, <2>1, <2>3, <3>1
    <3>2. CASE v # w
      BY <1>4, <1>10, <2>2, <2>4, <3>2 DEF Held
    <3> QED BY <3>1, <3>2
  <2>5. ASSUME NEW v \in Workers, NEW u \in Workers, Holds(v)', Holds(u)',
               task'[v].frame = task'[u].frame
        PROVE  u = v
    BY <1>4, <1>10, <2>2, <2>5 DEF Held
  <2> QED BY <1>2, <2>4, <2>5 DEF Held, SlotFor
<1>13. Copies'
  <2>1. Queued = Queued' \cup {task_fifo[1].frame}
    <3>1. ASSUME NEW k \in 1 .. Len(task_fifo), k # 1
          PROVE  k - 1 \in 1 .. Len(task_fifo') /\ task_fifo'[k - 1] = task_fifo[k]
      BY <1>1, <3>1
    <3>2. ASSUME NEW k \in 1 .. Len(task_fifo')
          PROVE  k + 1 \in 1 .. Len(task_fifo) /\ task_fifo'[k] = task_fifo[k + 1]
      BY <1>1, <3>2
    <3>3. 1 \in 1 .. Len(task_fifo)
      BY <1>1
    <3>4. Queued \subseteq Queued' \cup {task_fifo[1].frame}
      <4> SUFFICES ASSUME NEW k \in 1 .. Len(task_fifo), k # 1
                   PROVE  task_fifo[k].frame \in Queued'
        BY DEF Queued
      <4> QED BY <3>1 DEF Queued
    <3>5. Queued' \subseteq Queued
      BY <3>2 DEF Queued
    <3>6. task_fifo[1].frame \in Queued
      BY <3>3 DEF Queued
    <3> QED BY <3>4, <3>5, <3>6
  <2>2. Encoding' = Encoding \cup {w} /\ w \notin Encoding
    BY DEF Encoding, Types
  <2>3. {task'[v].frame : v \in Encoding'} =
           {task[v].frame : v \in Encoding} \cup {task_fifo[1].frame}
    BY <1>4, <2>2 DEF Encoding
  <2> QED BY <2>1, <2>3 DEF Copies
<1>14. Packets'
  <2>1. Finished' = Finished /\ WithPacket' = WithPacket
    BY DEF Finished, WithPacket
  <2> QED BY <2>1 DEF Packets, Types
<1> QED BY <1>5, <1>6, <1>7, <1>8, <1>9, <1>12, <1>13, <1>14

LEMMA FetchStep ==
  ASSUME Inv, NEW w \in Workers, Fetch(w)
  PROVE  Inv'
<1> USE Constants DEF Inv
<1>1. /\ wpc[w] = "fetch" /\ upc # "closed"
      /\ UNCHANGED <<thread_count, finished_tasks, task_index, finished_task_index, exit,
                     upc, call, result, pkt, frames, packets, submitted, returned>>
  BY DEF Fetch, userVars, histVars, User
<1>2. CASE ~exit /\ task_fifo # <<>>
  BY <1>1, <1>2, TakesTask DEF Fetch
<1>3. CASE ~(~exit /\ task_fifo # <<>>)
  <2>1. PICK to \in {"end", "asleep"} : wpc' = [wpc EXCEPT ![w] = to] /\ UNCHANGED <<task, task_fifo>>
    BY <1>3 DEF Fetch
  <2>2. WithPacket' = WithPacket /\ Finished' = Finished
    BY <1>1 DEF WithPacket, Finished
  <2>3. Packets'
    BY <1>1, <2>1, <2>2 DEF Packets, Types
  <2>4. pkt' \in [Workers -> BOOLEAN]
    BY <1>1 DEF Types
  <2> QED BY <1>1, <2>1, <2>3, <2>4, NoTaskMoves DEF Pcs
<1> QED BY <1>2, <1>3

LEMMA EncodeStep ==
  ASSUME Inv, NEW w \in Workers, Encode(w)
  PROVE  Inv'
<1> USE Constants DEF Inv
<1>0. PICK code \in Outcomes : task' = [task EXCEPT ![w].code = code]
  BY DEF Encode
<1>1. /\ wpc[w] = "encode" /\ wpc' = [wpc EXCEPT ![w] = "finish"]
      /\ frames' = frames \ {task[w].frame}
      /\ UNCHANGED <<thread_count, task_fifo, finished_tasks, task_index, finished_task_index,
                     exit, upc, call, result, pkt, packets, submitted, returned>>
  BY DEF Encode, queueVars, userVars
<1>2. task[w] \in Task \cup {NoTask} /\ NoTask \in [index : Int, frame : Int, code : Outcomes]
  BY DEF Types, NoTask, Outcomes
<1>3. /\ \A v \in Workers : task'[v].frame = task[v].frame /\ task'[v].index = task[v].index
      /\ \A v \in Workers \ {w} : task'[v] = task[v]
  BY <1>0, <1>2 DEF Types, Task
<1>4. \A v \in Workers : Holds(v)' <=> Holds(v)
  BY <1>1 DEF Holds, Types
<1>5. Holds(w) /\ w \in Encoding
  BY <1>1 DEF Holds, Encoding
<1>6. Types'
  <2>1. returned < task[w].frame
    BY <1>5 DEF Held
  <2>2. task[w] \in Task
    BY <1>2, <2>1 DEF NoTask, Types
  <2>3. [task[w] EXCEPT !.code = code] \in Task
    BY <2>2 DEF Task
  <2>4. task' = [task EXCEPT ![w] = [task[w] EXCEPT !.code = code]]
    BY <1>0 DEF Types
  <2>5. task' \in [Workers -> Task \cup {NoTask}]
    BY <2>3, <2>4 DEF Types
  <2> QED BY <1>1, <2>5 DEF Types
<1>7. User'
  BY <1>1 DEF User, Open, InCall, Types
<1>8. Fetched' = Fetched /\ Queued' = Queued /\ Finished' = Finished /\ WithPacket' = WithPacket
  BY <1>1 DEF Fetched, Queued, Finished, WithPacket
<1>9. Indexes' /\ Queue' /\ Ring'
  BY <1>1, <1>8 DEF Indexes, InCall, Queue, Ring
<1>10. Held'
  BY <1>1, <1>3, <1>4, <1>8 DEF Held
<1>11. Copies'
  <2>1. Encoding' = Encoding \ {w}
    BY <1>1 DEF Encoding, Types
  <2>2. task[w].frame \notin Queued
    <3>1. task[w].frame \in Int /\ task[w].frame <= Fetched
      BY <1>2, <1>5 DEF Held, Task
    <3> QED BY <3>1, QueuedFrames
  <2>3. \A v \in Encoding \ {w} : task[v].frame # task[w].frame
    BY <1>5 DEF Held, Encoding, Holds
  <2>4. {task'[v].frame : v \in Encoding'} = {task[v].frame : v \in Encoding} \ {task[w].frame}
    BY <1>3, <1>5, <2>1, <2>3 DEF Encoding
  <2> QED BY <1>1, <1>8, <2>2, <2>4 DEF Copies
<1>12. Packets'
  BY <1>1, <1>8 DEF Packets, Types
<1> QED BY <1>6, <1>7, <1>9, <1>10, <1>11, <1>12

LEMMA FinishStep ==
  ASSUME Inv, NEW w \in Workers, Finish(w)
  PROVE  Inv'
<1> USE Constants DEF Inv
<1> DEFINE s == task[w].index
           e == [full |-> TRUE, code |-> task[w].code, frame |-> task[w].frame]
<1>1. /\ wpc[w] = "finish" /\ wpc' = [wpc EXCEPT ![w] = "top"]
      /\ finished_tasks' = [finished_tasks EXCEPT ![s] = e]
      /\ pkt' = [pkt EXCEPT ![w] = FALSE]
      /\ UNCHANGED <<thread_count, task_fifo, task_index, finished_task_index, exit, call, result,
                     task, frames, packets, submitted, returned>>
  BY DEF Finish, SlotOf, histVars
<1>2. /\ upc # "closed" /\ (upc' = upc \/ (upc = "asleep" /\ upc' = "awake"))
  BY <1>1 DEF Finish, SignalUser, User
<1>3. Holds(w)
  BY <1>1 DEF Holds
<1>4. /\ returned < task[w].frame /\ task[w].frame <= Fetched
      /\ s = SlotFor(task[w].frame) /\ ~finished_tasks[s].full
  BY <1>3 DEF Held
<1>5. task[w] \in Task
  BY <1>4 DEF NoTask, Types
<1>6. s \in Slots /\ e \in Slot /\ task[w].frame \in Int
  BY <1>5, EncoderAssumption DEF Task, Slot
<1>7. /\ \A r \in Slots : finished_tasks'[r] = IF r = s THEN e ELSE finished_tasks[r]
      /\ finished_tasks' \in [Slots -> Slot]
      /\ e.full /\ e.frame = task[w].frame
  BY <1>1, <1>6 DEF Types
<1> HIDE DEF s, e
<1>8. Types'
  BY <1>1, <1>2, <1>7 DEF Types
<1>9. User'
  BY <1>1, <1>2 DEF User, Open, InCall, Types
<1>10. Fetched' = Fetched /\ Queued' = Queued
  BY <1>1 DEF Fetched, Queued
<1>11. Indexes' /\ Queue'
  BY <1>1, <1>2, <1>10 DEF Indexes, InCall, Queue
<1>12. \A v \in Workers : Holds(v)' <=> Holds(v) /\ v # w
  BY <1>1 DEF Holds, Types
<1>13. Held'
  <2>1. ASSUME NEW v \in Workers, Holds(v), v # w PROVE task[v].index # s
    <3>1. /\ returned < task[v].frame /\ task[v].frame <= Fetched
          /\ task[v].index = SlotFor(task[v].frame) /\ task[v].frame # task[w].frame
      BY <2>1, <1>3 DEF Held
    <3>2. task[v].frame \in Int
      BY DEF Types, Task, NoTask
    <3>3. submitted - returned < BufferSize /\ Fetched <= submitted
      BY QueuedFrames, InFlightMeans DEF Fetched, Types
    <3>4. task[v].frame - task[w].frame < BufferSize /\ task[w].frame - task[v].frame < BufferSize
      <4>1. Fetched \in Int /\ submitted \in Int /\ returned \in Int /\ BufferSize \in Int
        BY QueuedFrames, Constants DEF Types
      <4> HIDE DEF Inv, Types, Fetched
      <4> QED BY <1>4, <1>6, <3>1, <3>2, <3>3, <4>1
    <3> QED BY <1>4, <1>6, <3>1, <3>2, <3>4, SlotsDiffer
  <2>2. \A v \in Workers : Holds(v) => task[v].index \in Slots
    <3> TAKE v \in Workers
    <3> HAVE Holds(v)
    <3>1. returned < task[v].frame
      BY DEF Held
    <3>2. task[v] \in Task
      BY <3>1 DEF NoTask, Types
    <3> QED BY <3>2 DEF Task
  <2>3. \A v \in Workers : Holds(v) /\ v # w => ~finished_tasks'[task[v].index].full
    BY <1>7, <2>1, <2>2 DEF Held
  <2> QED BY <1>1, <1>10, <1>12, <2>3 DEF Held
<1>14. Ring'
  BY <1>1, <1>4, <1>7, <1>10 DEF Ring
<1>15. Copies'
  <2>1. Encoding' = Encoding
    BY <1>1 DEF Encoding, Types
  <2> QED BY <1>1, <1>10, <2>1 DEF Copies
<1>16. Packets'
  <2>1. Finished' = Finished \cup {s} /\ s \notin Finished
    BY <1>4, <1>6, <1>7 DEF Finished
  <2>2. WithPacket' = WithPacket \ {w} /\ w \in WithPacket
    BY <1>1 DEF WithPacket, Types, Packets
  <2>3. /\ Cardinality(Finished') = Cardinality(Finished) + 1
        /\ Cardinality(WithPacket') = Cardinality(WithPacket) - 1
    BY <2>1, <2>2, FinishedIsFinite, FS_AddElement, FS_RemoveElement
  <2>4. Cardinality(Finished) \in Int /\ Cardinality(WithPacket) \in Int
    BY FinishedIsFinite, FS_CardinalityType
  <2>5. packets' = Cardinality(WithPacket') + Cardinality(Finished')
    BY <1>1, <2>3, <2>4 DEF Packets
  <2> QED BY <1>1, <2>5 DEF Packets, Types
<1> QED BY <1>8, <1>9, <1>11, <1>13, <1>14, <1>15, <1>16

\* ff_frame_thread_encoder_free leaves nothing behind.
LEMMA JoinStep ==
  ASSUME Inv, Join
  PROVE  Inv' /\ frames' = {} /\ packets' = 0
<1> USE Constants DEF Inv
<1>1. /\ upc = "join" /\ \A w \in Workers : w < thread_count => wpc[w] = "ended"
      /\ task_fifo' = <<>> /\ finished_tasks' = [s \in Slots |-> Empty]
      /\ frames' = frames \ Queued /\ packets' = packets - Cardinality(Finished)
      /\ upc' = "closed" /\ call' = "closed"
      /\ UNCHANGED <<thread_count, task_index, finished_task_index, exit, result, wpc, task, pkt,
                     submitted, returned>>
  BY DEF Join, workerVars
<1>2. \A w \in Workers : wpc[w] \in {"none", "ended"}
  BY <1>1 DEF User, Types
<1>3. Encoding = {} /\ Encoding' = {} /\ WithPacket = {} /\ WithPacket' = {}
  BY <1>1, <1>2 DEF Encoding, WithPacket, Packets
<1>4. frames' = {} /\ packets' = 0
  <2>1. Cardinality(WithPacket) = 0 /\ Cardinality(Finished) \in Int
    BY <1>3, FS_EmptySet, FinishedIsFinite, FS_CardinalityType
  <2> QED BY <1>1, <1>3, <2>1 DEF Copies, Packets
<1>5. Len(task_fifo') = 0 /\ task_fifo' \in Seq(Task) /\ Fetched' = submitted /\ Queued' = {}
  BY <1>1, EmptySeq DEF Fetched, Queued, Types
<1>6. Types'
  BY <1>1, <1>5 DEF Types, Slot, Empty, Outcomes
<1>7. User'
  BY <1>1, <1>2 DEF User, Open, InCall, Empty
<1>8. Indexes'
  BY <1>1, <1>5, QueuedFrames DEF Indexes, InCall, Fetched, Types
<1>9. Queue'
  BY <1>5 DEF Queue
<1>10. Held'
  BY <1>1, <1>2 DEF Held, Holds
<1>11. Ring' /\ Finished' = {}
  BY <1>1 DEF Ring, Empty, Finished
<1>12. Copies'
  BY <1>3, <1>4, <1>5 DEF Copies
<1>13. Packets'
  <2>1. Cardinality(WithPacket') = 0 /\ Cardinality(Finished') = 0
    BY <1>3, <1>11, FS_EmptySet
  <2> QED BY <1>1, <1>2, <1>4, <2>1 DEF Packets
<1> QED BY <1>4, <1>6, <1>7, <1>8, <1>9, <1>10, <1>11, <1>12, <1>13

LEMMA InvInit == Init => Inv
<1> SUFFICES ASSUME Init PROVE Inv
  OBVIOUS
<1> USE Constants DEF Init
<1>1. task_fifo \in Seq(Task) /\ Len(task_fifo) = 0 /\ Fetched = 0 /\ Queued = {}
  <2>1. <<>> \in Seq(Task) /\ Len(<<>>) = 0
    BY EmptySeq
  <2>2. task_fifo = <<>> /\ submitted = 0
    OBVIOUS
  <2> HIDE DEF Init
  <2>3. task_fifo \in Seq(Task) /\ Len(task_fifo) = 0 /\ Fetched = 0
    <3>1. task_fifo \in Seq(Task) /\ Len(task_fifo) = 0
      BY <2>1, <2>2, Zenon
    <3>2. submitted = 0
      BY <2>2
    <3>3. Fetched = 0
      BY <3>1, <3>2 DEF Fetched
    <3> QED BY <3>1, <3>3
  <2>4. Queued = {}
    BY <2>3 DEF Queued
  <2> QED BY <2>3, <2>4
<1>2. Types
  <2>1. finished_tasks \in [Slots -> Slot]
    BY DEF Slot, Empty, Outcomes
  <2>2. NoTask \in Task \cup {NoTask} /\ NoResult \in [code : Outcomes, frame : 0 .. MaxFrames]
    BY DEF NoResult, Outcomes
  <2>3. exit \in BOOLEAN /\ pkt \in [Workers -> BOOLEAN]
    OBVIOUS
  <2>4. task \in [Workers -> Task \cup {NoTask}]
    BY <2>2
  <2>5. wpc \in [Workers -> {"none", "top", "fetch", "asleep", "encode", "finish", "end", "ended"}]
    OBVIOUS
  <2>6. /\ thread_count \in 0 .. NThreads /\ submitted \in 0 .. MaxFrames /\ returned \in Nat
        /\ upc = "init" /\ call = "none"
        /\ result \in [code : Outcomes, frame : 0 .. MaxFrames]
    BY <2>2
  <2> HIDE DEF Init
  <2> QED BY <1>1, <2>1, <2>3, <2>4, <2>5, <2>6 DEF Types
<1>3. User
  BY DEF User, Open, InCall
<1>4. Indexes
  BY <1>1, Remainders DEF Indexes, InCall
<1>5. Queue /\ Held /\ Ring
  BY <1>1 DEF Queue, Held, Holds, Ring, Empty
<1>6. Encoding = {} /\ WithPacket = {} /\ Finished = {}
  BY DEF Encoding, WithPacket, Finished, Empty
<1>7. Copies /\ Packets
  BY <1>1, <1>6, FS_EmptySet DEF Copies, Packets
<1> QED BY <1>2, <1>3, <1>4, <1>5, <1>7 DEF Inv

LEMMA Stutter == Inv /\ UNCHANGED vars => Inv'
<1> SUFFICES ASSUME Inv, UNCHANGED vars PROVE Inv'
  OBVIOUS
<1>1. /\ UNCHANGED <<thread_count, task_fifo, finished_tasks, task_index, finished_task_index>>
      /\ UNCHANGED <<exit, upc, call, result, wpc, task, pkt, frames, packets, submitted, returned>>
  BY DEF vars, queueVars, userVars, workerVars, histVars
<1>2. SameWork
  BY <1>1 DEF SameWork
<1>3. Types' /\ User' /\ Indexes'
  BY <1>1 DEF Inv, Types, User, Open, InCall, Indexes, Fetched
<1> QED BY <1>1, <1>2, <1>3, NoFrameMoves

LEMMA InvStep == Inv /\ [Next]_vars => Inv'
<1> SUFFICES ASSUME Inv, [Next]_vars PROVE Inv'
  OBVIOUS
<1>1. CASE UserStep
  BY <1>1, CreateWorkerStep, CreateFailsStep, ReturnNothingStep, AwaitResultStep, TakeResultStep,
     JoinStep, Zenon DEF UserStep
<1>2. CASE Submit \/ SubmitFails \/ Drain \/ Free \/ SpuriousWakeup
  BY <1>2, SubmitStep, SubmitFailsStep, DrainStep, FreeStep, SpuriousWakeupStep, Zenon
<1>3. ASSUME NEW w \in Workers, Worker(w) PROVE Inv'
  BY <1>3, WorkerTopStep, FetchStep, EncodeStep, FinishStep, EndStep, Zenon DEF Worker
<1>4. CASE Closed \/ UNCHANGED vars
  BY <1>4, Stutter, Zenon DEF Closed
<1> QED
  BY <1>1, <1>2, <1>3, <1>4, Zenon DEF Next

LEMMA Invariant == Spec => []Inv
BY InvInit, InvStep, PTL DEF Spec

\* The frames of which there is a copy were handed in.
LEMMA FramesSubmitted ==
  ASSUME Inv
  PROVE  frames \subseteq 1 .. submitted
<1> USE Constants DEF Inv
<1>1. Fetched \in Int /\ 0 <= Fetched /\ Fetched <= submitted /\ returned \in Nat /\ submitted \in Nat
  BY QueuedFrames DEF Indexes, Types, Fetched
<1>2. ASSUME NEW f \in Queued PROVE f \in 1 .. submitted
  <2>1. PICK k \in 1 .. Len(task_fifo) : f = task_fifo[k].frame
    BY DEF Queued
  <2>2. f \in Int
    BY <2>1, QueuedFrames DEF Task
  <2> QED BY <1>1, <2>2, QueuedFrames
<1>3. ASSUME NEW w \in Encoding PROVE task[w].frame \in 1 .. submitted
  <2>1. returned < task[w].frame /\ task[w].frame <= Fetched
    BY DEF Encoding, Held, Holds
  <2>2. task[w].frame \in Int
    BY DEF Encoding, Types, Task, NoTask
  <2> QED BY <1>1, <2>1, <2>2
<1> QED BY <1>2, <1>3 DEF Copies

\* The ring of finished tasks, which is written and read without a test for room
\* or for order, is neither overrun nor read out of turn.
THEOREM TypesHold == Spec => []TypeOK
<1>1. Inv => TypeOK
  <2> SUFFICES ASSUME Inv PROVE TypeOK
    OBVIOUS
  <2> USE Constants DEF Inv
  <2>1. /\ submitted \in Nat /\ returned \in 0 .. submitted /\ submitted - returned <= NThreads + 1
        /\ Len(task_fifo) <= BufferSize
    BY QueuedFrames DEF Types, Indexes, Fetched
  <2>2. frames \subseteq 1 .. submitted
    BY FramesSubmitted
  <2>3. packets \in Nat
    BY FinishedIsFinite, FS_CardinalityType DEF Packets
  <2> QED
    BY <2>1, <2>2, <2>3, Zenon DEF TypeOK, Types, Indexes, Slot
<1> QED BY <1>1, Invariant, PTL

\* ff_frame_thread_encoder_free frees every copy of a frame and every packet, and
\* ends every thread, whatever the workers were at.
THEOREM NothingIsLeft == Spec => []NothingLeft
<1>1. Inv => NothingLeft
  <2> SUFFICES ASSUME Inv, upc = "closed"
               PROVE  /\ frames = {} /\ packets = 0
                      /\ \A w \in Workers : wpc[w] \in {"none", "ended"}
    BY DEF NothingLeft
  <2>1. Encoding = {} /\ Queued = {} /\ WithPacket = {} /\ Finished = {}
    BY EmptySeq DEF Inv, User, Encoding, Queued, WithPacket, Packets, Finished
  <2>2. frames = {}
    BY <2>1 DEF Inv, Copies
  <2>3. packets = 0
    BY <2>1, FS_EmptySet DEF Inv, Packets
  <2> QED BY <2>2, <2>3 DEF Inv, User
<1> QED BY <1>1, Invariant, PTL

-----------------------------------------------------------------------------
(***************************************************************************)
(* Every step of the threads is a step of the one encoder or leaves it as  *)
(* it is.                                                                  *)
(***************************************************************************)
encoder == <<Open, submitted, returned, call, result>>

LEMMA IsStutter == UNCHANGED encoder => UNCHANGED Encoder!vars
BY Zenon DEF encoder, Encoder!vars, Open

\* The steps of the workers.
LEMMA WorkersUnseen ==
  ASSUME Inv, \/ \E w \in Workers : Worker(w)
              \/ SpuriousWakeup \/ AwaitResult \/ Closed \/ UNCHANGED vars
  PROVE  UNCHANGED encoder
<1> USE DEF encoder, Open, queueVars, userVars, workerVars, histVars
<1>1. ASSUME NEW w \in Workers, WorkerTop(w) \/ Fetch(w) \/ Encode(w) \/ End(w)
      PROVE  UNCHANGED encoder
  BY <1>1, Zenon DEF WorkerTop, Fetch, Encode, End
<1>2. ASSUME NEW w \in Workers, Finish(w) PROVE UNCHANGED encoder
  <2>1. UNCHANGED <<submitted, returned, call, result>>
    BY <1>2 DEF Finish
  <2>2. Open' = Open
    BY <1>2 DEF Finish, SignalUser
  <2> QED BY <2>1, <2>2
<1>3. CASE SpuriousWakeup \/ AwaitResult
  <2>1. UNCHANGED <<submitted, returned, call, result>>
    BY <1>3 DEF SpuriousWakeup, AwaitResult
  <2>2. Open' = Open
    BY <1>3 DEF SpuriousWakeup, AwaitResult
  <2> QED BY <2>1, <2>2
<1>4. CASE Closed \/ UNCHANGED vars
  BY <1>4, Zenon DEF Closed, vars
<1> QED BY <1>1, <1>2, <1>3, <1>4 DEF Worker

LEMMA CreationMaps ==
  ASSUME Inv, CreateWorker \/ CreateFails
  PROVE  Encoder!Open \/ UNCHANGED encoder
<1> USE Constants DEF Inv
<1>1. /\ ~Open /\ call = "none" /\ submitted = 0 /\ returned' = returned /\ submitted' = submitted
      /\ result' = result
  BY DEF CreateWorker, CreateFails, queueVars, userVars, workerVars, histVars, User, Open
<1>2. CASE CreateWorker
  <2>1. call' = call
    BY <1>2 DEF CreateWorker
  <2>2. CASE Open'
    BY <1>1, <2>1, <2>2 DEF Encoder!Open, Open
  <2>3. CASE ~Open'
    BY <1>1, <2>1, <2>3 DEF encoder, Open
  <2> QED BY <2>2, <2>3
<1>3. CASE CreateFails
  <2>1. ~Open' /\ call' = "close"
    BY <1>3 DEF CreateFails, Open
  <2> QED BY <1>1, <2>1 DEF Encoder!Open, Open
<1> QED BY <1>2, <1>3

LEMMA CallsMap ==
  ASSUME Inv, Submit \/ SubmitFails \/ Drain
  PROVE  Encoder!HandIn \/ Encoder!Refuse \/ Encoder!Drain
<1> USE DEF Inv
<1>1. Open /\ Open' /\ call = "none" /\ returned' = returned
  BY DEF Submit, SubmitFails, Drain, User, Open, histVars
<1>2. CASE Submit
  <2>1. submitted' = submitted + 1 /\ call' = "frame" /\ result' = result
    BY <1>2 DEF Submit
  <2> QED BY <1>1, <2>1 DEF Encoder!HandIn, Open
<1>3. CASE SubmitFails
  <2>1. submitted' = submitted /\ call' = call /\ result' = [code |-> "error", frame |-> 0]
    BY <1>3 DEF SubmitFails, histVars
  <2> QED BY <1>1, <2>1 DEF Encoder!Refuse, Encoder!Failure, Open
<1>4. CASE Drain
  <2>1. submitted' = submitted /\ call' = "drain" /\ result' = result
    BY <1>4 DEF Drain, histVars
  <2> QED BY <1>1, <2>1 DEF Encoder!Drain, Open
<1> QED BY <1>2, <1>3, <1>4

\* What is handed out is of the next frame, and no frame's turn is left out unless
\* that is allowed.
LEMMA ResultsMap ==
  ASSUME Inv, TakeResult \/ ReturnNothing
  PROVE  Encoder!HandOut \/ Encoder!HandOutNothing
<1> USE Constants DEF Inv
<1>1. /\ Open /\ Open' /\ call \in {"frame", "drain"} /\ call' = "none"
      /\ submitted' = submitted
  BY DEF TakeResult, ReturnNothing, User, Open, InCall, histVars
<1>2. CASE TakeResult
  <2>1. /\ Oldest.frame = returned + 1 /\ returned + 1 <= Fetched /\ finished_task_index \in Slots
    BY <1>2, OldestIsNext DEF TakeResult
  <2>2. /\ returned' = returned + 1
        /\ result' = [code |-> Oldest.code,
                       frame |-> IF Oldest.code = "packet" THEN returned' ELSE 0]
    BY <1>2, <2>1 DEF TakeResult, Returned
  <2>3. returned < submitted
    BY <2>1, QueuedFrames DEF Fetched, Types
  <2>4. Oldest.code \in Outcomes
    BY <2>1 DEF Oldest, Types, Slot
  <2>5. Encoder!HandOut
    BY <1>1, <2>2, <2>3, <2>4
       DEF Encoder!HandOut, Encoder!NoResult, Encoder!Failure, Outcomes, Open
  <2> QED BY <2>5
<1>3. CASE ReturnNothing
  <2>1. returned' = returned /\ result' = [code |-> "nothing", frame |-> 0]
    BY <1>3 DEF ReturnNothing, histVars, NoResult
  <2>2. \/ call = "frame" /\ submitted - returned <= NThreads
        \/ call = "drain" /\ submitted = returned
    <3>1. CASE task_index = finished_task_index
      BY <1>1, <3>1, InFlightMeans DEF Types
    <3>2. CASE call = "frame" /\ Room
      BY <3>2, InFlightMeans DEF Types, Room
    <3> QED BY <1>3, <3>1, <3>2 DEF ReturnNothing, NothingToReturn
  <2>3. Encoder!HandOutNothing
    BY <1>1, <2>1, <2>2 DEF Encoder!HandOutNothing, Encoder!NoResult, Open
  <2> QED BY <2>3
<1> QED BY <1>2, <1>3

LEMMA CloseMaps ==
  ASSUME Inv, Free \/ Join
  PROVE  Encoder!Close \/ Encoder!Closed \/ UNCHANGED encoder
<1> USE DEF Inv
<1>1. ~Open' /\ UNCHANGED <<submitted, returned, result>>
  BY DEF Free, Join, Open, histVars
<1>2. CASE Free
  <2>1. call' = "close"
    BY <1>2 DEF Free
  <2>2. CASE upc = "out"
    <3>1. Open /\ call = "none"
      BY <2>2 DEF Open, User
    <3> QED BY <1>1, <2>1, <3>1 DEF Encoder!Close, Open
  <2>3. CASE upc = "free"
    <3>1. ~Open /\ call = "close"
      BY <2>3 DEF Open, User
    <3> QED BY <1>1, <2>1, <3>1 DEF encoder, Open
  <2> QED BY <1>2, <2>2, <2>3 DEF Free
<1>3. CASE Join
  <2>1. ~Open /\ call = "close" /\ call' = "closed"
    BY <1>3 DEF Join, Open, User
  <2> QED BY <1>1, <2>1 DEF Encoder!Closed, Open
<1> QED BY <1>2, <1>3

LEMMA EncoderStep == Inv /\ [Next]_vars => [Encoder!Next]_(Encoder!vars)
<1> SUFFICES ASSUME Inv, [Next]_vars
             PROVE  Encoder!Next \/ UNCHANGED encoder
  BY IsStutter, Zenon
<1>1. CASE UserStep
  BY <1>1, CreationMaps, ResultsMap, WorkersUnseen, CloseMaps, Zenon DEF UserStep, Encoder!Next
<1>2. CASE Submit \/ SubmitFails \/ Drain
  BY <1>2, CallsMap, Zenon DEF Encoder!Next
<1>3. CASE Free
  BY <1>3, CloseMaps, Zenon DEF Encoder!Next
<1>4. CASE SpuriousWakeup \/ Closed \/ UNCHANGED vars \/ \E w \in Workers : Worker(w)
  BY <1>4, WorkersUnseen, Zenon
<1> QED
  BY <1>1, <1>2, <1>3, <1>4, Zenon DEF Next

\* libavcodec/frame_thread_encoder.c does what one encoder with a delay does: each
\* step of its threads is a step of that encoder, or is invisible.  A frame that is
\* skipped takes its turn in that encoder too, and its call returns what a call
\* returns that finds the encoder empty.
THEOREM StepsOfOneEncoder == Spec => Encoder!Init /\ [][Encoder!Next]_(Encoder!vars)
<1>1. Init => Encoder!Init
  BY DEF Init, Encoder!Init, Encoder!NoResult, NoResult, Open
<1> QED
  BY <1>1, EncoderStep, Invariant, PTL DEF Spec
-----------------------------------------------------------------------------
(***************************************************************************)
(* No call of the user hangs: one pthread_cond_signal per task is enough,  *)
(* and a frame inside the encoder is always with somebody.                 *)
(***************************************************************************)

\* What a thread waits for has come.
UserGoesOn ==
    \/ upc \in {"init", "free"}
    \/ upc = "collect" /\ (NothingToReturn \/ Oldest.full)
    \/ upc \in {"asleep", "awake"} /\ Oldest.full
    \/ upc = "join" /\ \A w \in Workers : w < thread_count => wpc[w] = "ended"
WorkerGoesOn(w) ==
    \/ wpc[w] \in {"top", "encode", "finish", "end"}
    \/ wpc[w] = "fetch" /\ (exit \/ task_fifo # <<>>)

\* The workers on their way to the queue.
Fetching == {w \in Workers : wpc[w] = "fetch"}

\* While a worker sleeps, there is another one on its way for every task that is
\* queued, and the user does not sleep on a task that is finished.
NoWakeupLost ==
    /\ Asleep # {} => ~exit /\ Len(task_fifo) <= Cardinality(Fetching)
    /\ upc = "asleep" => ~UserGoesOn

\* In every call of the user some thread goes on.
NoCallHangs ==
    upc \notin {"out", "closed"} => UserGoesOn \/ \E w \in Workers : WorkerGoesOn(w)

\* Workers end when they are told to, and not before.
Ending ==
    /\ exit <=> upc \in {"join", "closed"}
    /\ ~exit => \A w \in Workers : wpc[w] \notin {"end", "ended"}

\* A frame that has left the queue is with a worker or in its slot.
Found ==
    upc # "closed" =>
        \A f \in returned + 1 .. Fetched :
            \/ finished_tasks[SlotFor(f)].full
            \/ \E w \in Workers : Holds(w) /\ task[w].frame = f

\* Who sleeps has nothing to do: a worker, and the user.
WorkersSleep == Asleep # {} => ~exit /\ Len(task_fifo) <= Cardinality(Fetching)
UserSleeps ==
    /\ upc = "asleep" => ~Oldest.full
    /\ upc \in {"asleep", "awake"} => task_index # finished_task_index

LEMMA EndingStep ==
  Inv /\ Ending /\ [Next]_vars => Ending'
<1> SUFFICES ASSUME Inv, Ending, [Next]_vars PROVE Ending'
  OBVIOUS
<1> USE DEF Inv, Types, Ending, queueVars, workerVars, userVars, histVars
<1>1. CASE UNCHANGED vars
  BY <1>1 DEF vars
<1>2. CASE CreateWorker
  BY <1>2, Constants DEF CreateWorker, Workers
<1>3. CASE CreateFails \/ ReturnNothing \/ AwaitResult \/ TakeResult \/ SubmitFails \/ Drain
  BY <1>3 DEF CreateFails, ReturnNothing, AwaitResult, TakeResult, SubmitFails, Drain
<1>4. CASE Join
  BY <1>4 DEF Join
<1>5. CASE Submit
  BY <1>5, SignalMeans DEF Submit
<1>6. CASE Free
  BY <1>6 DEF Free
<1>7. CASE SpuriousWakeup
  BY <1>7 DEF SpuriousWakeup
<1>8. ASSUME NEW w \in Workers, Worker(w) PROVE Ending'
  <2>1. CASE WorkerTop(w)
    BY <2>1 DEF WorkerTop
  <2>2. CASE Fetch(w)
    BY <2>2 DEF Fetch
  <2>3. CASE Encode(w)
    BY <2>3 DEF Encode
  <2>4. CASE Finish(w)
    BY <2>4 DEF Finish, SignalUser
  <2>5. CASE End(w)
    BY <2>5 DEF End
  <2> QED
    BY <1>8, <2>1, <2>2, <2>3, <2>4, <2>5 DEF Worker
<1> QED
  BY <1>1, <1>2, <1>3, <1>4, <1>5, <1>6, <1>7, <1>8, Zenon DEF Next, UserStep, Closed

-----------------------------------------------------------------------------
\* A step that moves no frame leaves every frame where it can be found.
LEMMA FoundStays ==
  ASSUME Found, upc = "closed" => upc' = "closed",
         UNCHANGED <<finished_tasks, returned>>, Fetched' = Fetched,
         \A w \in Workers : Holds(w) => Holds(w)' /\ task'[w].frame = task[w].frame
  PROVE  Found'
<1> SUFFICES ASSUME upc' # "closed", NEW f \in returned + 1 .. Fetched
             PROVE  \/ finished_tasks'[SlotFor(f)].full
                    \/ \E w \in Workers : Holds(w)' /\ task'[w].frame = f
  BY DEF Found, SlotFor
<1> QED
  BY DEF Found

\* The frame at the head of the queue goes to the worker that fetches it.
LEMMA FetchFinds ==
  ASSUME Inv, Found, NEW w \in Workers, Fetch(w)
  PROVE  Found'
<1>1. /\ wpc[w] = "fetch" /\ UNCHANGED <<finished_tasks, returned, submitted, upc>>
      /\ \A v \in Workers : v # w => wpc'[v] = wpc[v]
  BY DEF Fetch, userVars, histVars, Inv, Types
<1>2. CASE ~exit /\ task_fifo # <<>>
  <2>1. /\ wpc'[w] = "encode" /\ task' = [task EXCEPT ![w] = Head(task_fifo)]
        /\ task_fifo' = Tail(task_fifo)
    BY <1>2 DEF Fetch, Inv, Types
  <2>2. /\ Len(task_fifo) \in Nat /\ Len(task_fifo) >= 1
        /\ Len(task_fifo') = Len(task_fifo) - 1 /\ Head(task_fifo) = task_fifo[1]
    BY <1>2, <2>1, HeadTailProperties, LenProperties, EmptySeq DEF Inv, Types
  <2>3. Fetched \in Int /\ Fetched' = Fetched + 1 /\ task_fifo[1].frame = Fetched + 1
    BY <1>1, <2>2, QueuedFrames DEF Fetched, Inv, Types, Queue
  <2>4. task'[w].frame = Fetched + 1 /\ Holds(w)'
    BY <2>1, <2>2, <2>3 DEF Inv, Types, Holds
  <2>5. \A v \in Workers : Holds(v) => Holds(v)' /\ task'[v].frame = task[v].frame
    BY <1>1, <2>1 DEF Inv, Types, Holds
  <2> SUFFICES ASSUME upc # "closed", NEW f \in returned + 1 .. Fetched + 1
               PROVE  \/ finished_tasks[SlotFor(f)].full
                      \/ \E v \in Workers : Holds(v)' /\ task'[v].frame = f
    BY <1>1, <2>3 DEF Found, SlotFor
  <2>6. CASE f = Fetched + 1
    BY <2>4, <2>6
  <2>7. CASE f # Fetched + 1
    <3>1. f \in returned + 1 .. Fetched
      BY <2>3, <2>7 DEF Inv, Types
    <3> QED
      BY <2>5, <3>1 DEF Found
  <2> QED
    BY <2>6, <2>7
<1>3. CASE ~(~exit /\ task_fifo # <<>>)
  <2>1. UNCHANGED <<task, task_fifo>>
    BY <1>3 DEF Fetch
  <2>2. \A v \in Workers : Holds(v) => Holds(v)' /\ task'[v].frame = task[v].frame
    BY <1>1, <2>1 DEF Holds
  <2> QED
    BY <1>1, <2>1, <2>2, FoundStays DEF Fetched
<1> QED
  BY <1>2, <1>3

\* A finished task goes to the slot of its frame.
LEMMA FinishFinds ==
  ASSUME Inv, Found, NEW w \in Workers, Finish(w)
  PROVE  Found'
<1>1. /\ wpc[w] = "finish" /\ UNCHANGED <<task_fifo, returned, submitted, task>>
      /\ upc = "closed" => upc' = "closed"
      /\ \A v \in Workers : v # w => wpc'[v] = wpc[v]
  BY DEF Finish, SignalUser, histVars, Inv, Types
<1>2. Holds(w) /\ task[w].index = SlotFor(task[w].frame) /\ task[w].frame \in Int
  BY <1>1 DEF Holds, Inv, Held, Types, Task, NoTask
<1>3. SlotFor(task[w].frame) \in Slots
  BY <1>2, Division DEF SlotFor
<1>4. finished_tasks' = [finished_tasks EXCEPT ![SlotFor(task[w].frame)] =
                             [full |-> TRUE, code |-> task[w].code, frame |-> task[w].frame]]
  BY <1>2 DEF Finish, SlotOf
<1>5. \A s \in Slots : finished_tasks'[s].full <=> s = SlotFor(task[w].frame) \/ finished_tasks[s].full
  BY <1>3, <1>4 DEF Inv, Types
<1>6. \A v \in Workers : v # w /\ Holds(v) => Holds(v)'
  BY <1>1 DEF Holds
<1> SUFFICES ASSUME upc # "closed", NEW f \in returned + 1 .. Fetched
             PROVE  \/ finished_tasks'[SlotFor(f)].full
                    \/ \E v \in Workers : Holds(v)' /\ task[v].frame = f
  BY <1>1 DEF Found, SlotFor, Fetched
<1>7. f \in Int /\ SlotFor(f) \in Slots
  BY Division, QueuedFrames DEF SlotFor, Inv, Types
<1>8. CASE finished_tasks[SlotFor(f)].full
  BY <1>5, <1>7, <1>8
<1>9. ASSUME NEW v \in Workers, Holds(v), task[v].frame = f
      PROVE  \/ finished_tasks'[SlotFor(f)].full
             \/ \E u \in Workers : Holds(u)' /\ task[u].frame = f
  <2>1. CASE v = w
    BY <1>5, <1>7, <1>9, <2>1
  <2>2. CASE v # w
    BY <1>6, <1>9, <2>2
  <2> QED
    BY <2>1, <2>2
<1> QED
  BY <1>8, <1>9 DEF Found

\* The user takes the oldest frame, and no other one has its slot.
LEMMA TakeFinds ==
  ASSUME Inv, Found, TakeResult
  PROVE  Found'
<1>1. /\ Oldest.full /\ upc # "closed" /\ returned' = returned + 1
      /\ finished_tasks' = [finished_tasks EXCEPT ![finished_task_index] = Empty]
      /\ UNCHANGED <<task_fifo, submitted, task, wpc>>
  BY DEF TakeResult, workerVars
<1>2. finished_task_index \in Slots /\ finished_task_index = SlotFor(returned + 1)
  BY <1>1, OldestIsNext
<1>3. /\ Fetched \in Int /\ Fetched <= submitted /\ submitted - returned < BufferSize
      /\ returned \in Nat /\ submitted \in Nat
  BY QueuedFrames, InFlightMeans DEF Fetched, Inv, Types
<1> SUFFICES ASSUME NEW f \in returned + 2 .. Fetched
             PROVE  \/ finished_tasks'[SlotFor(f)].full
                    \/ \E w \in Workers : Holds(w) /\ task[w].frame = f
  <2>1. returned' + 1 = returned + 2 /\ Fetched' = Fetched
    BY <1>1, <1>3 DEF Fetched
  <2> QED
    BY <1>1, <2>1 DEF Found, SlotFor, Holds
<1>4. f \in Int /\ f \in returned + 1 .. Fetched /\ f # returned + 1
  BY <1>3
<1>5. SlotFor(f) # SlotFor(returned + 1)
  <2>1. f - (returned + 1) < BufferSize /\ (returned + 1) - f < BufferSize
    BY <1>3, <1>4, Constants
  <2> QED
    BY <1>3, <1>4, <2>1, SlotsDiffer
<1>6. SlotFor(f) \in Slots
  BY <1>4, Division DEF SlotFor
<1>7. finished_tasks'[SlotFor(f)] = finished_tasks[SlotFor(f)]
  BY <1>1, <1>2, <1>5, <1>6 DEF Inv, Types
<1> QED
  BY <1>1, <1>4, <1>7 DEF Found

LEMMA FoundStep ==
  Inv /\ Found /\ [Next]_vars => Found'
<1> SUFFICES ASSUME Inv, Found, [Next]_vars PROVE Found'
  OBVIOUS
<1>1. CASE UNCHANGED vars
  <2>1. UNCHANGED <<finished_tasks, returned, task_fifo, submitted, upc, wpc, task>>
    BY <1>1 DEF vars, queueVars, workerVars, userVars, histVars
  <2> QED
    BY <2>1, FoundStays DEF Fetched, Holds
<1>2. CASE CreateFails \/ ReturnNothing \/ AwaitResult \/ SubmitFails \/ Drain
  <2>1. /\ UNCHANGED <<finished_tasks, returned, task_fifo, submitted, wpc, task>>
        /\ upc # "closed"
    BY <1>2 DEF CreateFails, ReturnNothing, AwaitResult, SubmitFails, Drain, queueVars,
                workerVars, userVars, histVars
  <2> QED
    BY <2>1, FoundStays DEF Fetched, Holds
<1>3. CASE CreateWorker \/ Free \/ SpuriousWakeup
  <2>1. /\ UNCHANGED <<finished_tasks, returned, task_fifo, submitted, task>>
        /\ upc = "closed" => upc' = "closed"
    BY <1>3 DEF CreateWorker, Free, SpuriousWakeup, queueVars, histVars
  <2>2. \A w \in Workers : Holds(w) => Holds(w)'
    <3>1. CASE CreateWorker
      BY <3>1, Constants DEF CreateWorker, Holds, Inv, Types, User, Workers
    <3>2. CASE Free
      BY <3>2 DEF Free, WakeWorkers, Holds
    <3>3. CASE SpuriousWakeup
      BY <3>3 DEF SpuriousWakeup, Holds, Inv, Types
    <3> QED
      BY <1>3, <3>1, <3>2, <3>3
  <2> QED
    BY <2>1, <2>2, FoundStays DEF Fetched
<1>4. CASE Submit
  <2>1. /\ UNCHANGED <<finished_tasks, returned, task>> /\ upc # "closed"
        /\ submitted' = submitted + 1 /\ SignalWorker
        /\ task_fifo' = Append(task_fifo, [index |-> task_index, frame |-> submitted', code |-> "nothing"])
    BY <1>4 DEF Submit
  <2>2. Fetched' = Fetched
    BY <2>1, AppendProperties, LenProperties, SubmitStep, <1>4 DEF Fetched, Inv, Types
  <2>3. \A w \in Workers : Holds(w) => Holds(w)'
    BY <2>1, SignalMeans DEF Holds, Inv
  <2> QED
    BY <2>1, <2>2, <2>3, FoundStays
<1>5. CASE TakeResult
  BY <1>5, TakeFinds
<1>6. CASE Join
  BY <1>6 DEF Join, Found
<1>7. ASSUME NEW w \in Workers, Worker(w) PROVE Found'
  <2>1. CASE WorkerTop(w) \/ End(w)
    <3>1. UNCHANGED <<finished_tasks, returned, task_fifo, submitted, upc, task>>
      BY <2>1 DEF WorkerTop, End, queueVars, userVars
    <3>2. \A v \in Workers : Holds(v) => Holds(v)'
      BY <2>1 DEF WorkerTop, End, Holds, Inv, Types
    <3> QED
      BY <3>1, <3>2, FoundStays DEF Fetched
  <2>2. CASE Fetch(w)
    BY <2>2, FetchFinds
  <2>3. CASE Encode(w)
    <3>1. UNCHANGED <<finished_tasks, returned, task_fifo, submitted, upc>>
      BY <2>3 DEF Encode, queueVars, userVars
    <3>2. PICK code \in Outcomes : task' = [task EXCEPT ![w].code = code]
      BY <2>3 DEF Encode
    <3>3. \A v \in Workers : Holds(v) => Holds(v)' /\ task'[v].frame = task[v].frame
      BY <2>3, <3>2 DEF Encode, Holds, Inv, Types, Task, NoTask
    <3> QED
      BY <3>1, <3>3, FoundStays DEF Fetched
  <2>4. CASE Finish(w)
    BY <2>4, FinishFinds
  <2> QED
    BY <1>7, <2>1, <2>2, <2>3, <2>4 DEF Worker
<1> QED
  BY <1>1, <1>2, <1>3, <1>4, <1>5, <1>6, <1>7, Zenon DEF Next, UserStep, Closed

-----------------------------------------------------------------------------
LEMMA FetchingIsFinite ==
  IsFiniteSet(Fetching) /\ Cardinality(Fetching) \in Nat
<1>1. IsFiniteSet(Workers)
  BY FS_Interval, Constants DEF Workers
<1> QED
  BY <1>1, FS_Subset, FS_CardinalityType DEF Fetching

\* A step that takes no worker off its way, and no task from the queue.
LEMMA NobodyTurnsBack ==
  ASSUME WorkersSleep, UNCHANGED <<exit, task_fifo>>, Asleep' # {} => Asleep # {},
         Fetching \subseteq Fetching', Inv
  PROVE  WorkersSleep'
<1>1. IsFiniteSet(Fetching') /\ Cardinality(Fetching') \in Nat
  <2>1. IsFiniteSet(Workers)
    BY FS_Interval, Constants DEF Workers
  <2> QED
    BY <2>1, FS_Subset, FS_CardinalityType DEF Fetching
<1>2. Cardinality(Fetching) <= Cardinality(Fetching')
  BY <1>1, FS_Subset
<1>3. Len(task_fifo) \in Nat
  BY LenProperties DEF Inv, Types
<1> QED
  BY <1>1, <1>2, <1>3, FetchingIsFinite DEF WorkersSleep

\* Each task that is queued while a worker sleeps sends one on its way.
LEMMA SubmitSends ==
  ASSUME Inv, Ending, WorkersSleep, Submit
  PROVE  WorkersSleep'
<1>1. /\ UNCHANGED exit /\ SignalWorker
      /\ task_fifo' = Append(task_fifo, [index |-> task_index, frame |-> submitted', code |-> "nothing"])
  BY DEF Submit
<1>2. Len(task_fifo) \in Nat /\ Len(task_fifo') = Len(task_fifo) + 1
  BY <1>1, AppendProperties, LenProperties, SubmitStep DEF Inv, Types
<1>3. CASE Asleep = {}
  BY <1>1, <1>3 DEF SignalWorker, Asleep, WorkersSleep
<1>4. CASE Asleep # {}
  <2>1. PICK w \in Asleep : wpc' = [wpc EXCEPT ![w] = "fetch"]
    BY <1>1, <1>4 DEF SignalWorker
  <2>2. Fetching' = Fetching \cup {w} /\ w \notin Fetching
    BY <2>1 DEF Fetching, Asleep, Inv, Types
  <2>3. Cardinality(Fetching') = Cardinality(Fetching) + 1
    BY <2>2, FetchingIsFinite, FS_AddElement
  <2> QED
    BY <1>1, <1>2, <1>4, <2>3, FetchingIsFinite DEF WorkersSleep
<1> QED
  BY <1>3, <1>4

\* A worker leaves the way to the queue with a task, or finds none.
LEMMA FetchTakes ==
  ASSUME Inv, WorkersSleep, NEW w \in Workers, Fetch(w)
  PROVE  WorkersSleep'
<1>1. wpc[w] = "fetch" /\ UNCHANGED exit
  BY DEF Fetch
<1>2. CASE exit
  <2>1. wpc' = [wpc EXCEPT ![w] = "end"]
    BY <1>2 DEF Fetch
  <2> QED
    BY <1>2, <2>1 DEF WorkersSleep, Asleep, Inv, Types
<1>3. CASE ~exit /\ task_fifo = <<>>
  <2>1. task_fifo' = <<>> /\ Len(task_fifo') = 0
    BY <1>3, EmptySeq DEF Fetch
  <2>2. Cardinality(Fetching') \in Nat
    <3>1. IsFiniteSet(Workers)
      BY FS_Interval, Constants DEF Workers
    <3> QED
      BY <3>1, FS_Subset, FS_CardinalityType DEF Fetching
  <2> QED
    BY <1>1, <1>3, <2>1, <2>2 DEF WorkersSleep
<1>4. CASE ~exit /\ task_fifo # <<>>
  <2>1. wpc' = [wpc EXCEPT ![w] = "encode"] /\ task_fifo' = Tail(task_fifo)
    BY <1>4 DEF Fetch
  <2>2. Len(task_fifo) \in Nat /\ Len(task_fifo') = Len(task_fifo) - 1
    BY <1>4, <2>1, HeadTailProperties, LenProperties, EmptySeq DEF Inv, Types
  <2>3. Fetching' = Fetching \ {w} /\ w \in Fetching /\ Asleep' = Asleep
    BY <1>1, <2>1 DEF Fetching, Asleep, Inv, Types
  <2>4. Cardinality(Fetching') = Cardinality(Fetching) - 1
    BY <2>3, FetchingIsFinite, FS_RemoveElement
  <2> QED
    BY <1>1, <1>4, <2>2, <2>3, <2>4, FetchingIsFinite DEF WorkersSleep
<1> QED
  BY <1>2, <1>3, <1>4 DEF Inv, Types

LEMMA WorkersSleepStep ==
  Inv /\ Ending /\ WorkersSleep /\ [Next]_vars => WorkersSleep'
<1> SUFFICES ASSUME Inv, Ending, WorkersSleep, [Next]_vars PROVE WorkersSleep'
  OBVIOUS
<1>1. CASE \/ UNCHANGED vars \/ CreateFails \/ ReturnNothing \/ AwaitResult \/ TakeResult
           \/ SubmitFails \/ Drain
  <2>1. UNCHANGED <<exit, task_fifo, wpc>>
    BY <1>1 DEF vars, CreateFails, ReturnNothing, AwaitResult, TakeResult, SubmitFails, Drain,
                queueVars, workerVars
  <2> QED
    BY <2>1, NobodyTurnsBack DEF Asleep, Fetching
<1>2. CASE CreateWorker \/ SpuriousWakeup
  <2>1. UNCHANGED <<exit, task_fifo>>
    BY <1>2 DEF CreateWorker, SpuriousWakeup, queueVars
  <2>2. (Asleep' # {} => Asleep # {}) /\ Fetching \subseteq Fetching'
    <3>1. CASE CreateWorker
      BY <3>1, Constants DEF CreateWorker, Asleep, Fetching, Inv, Types, User, Workers
    <3>2. CASE SpuriousWakeup
      BY <3>2 DEF SpuriousWakeup, Asleep, Fetching, Inv, Types
    <3> QED
      BY <1>2, <3>1, <3>2
  <2> QED
    BY <2>1, <2>2, NobodyTurnsBack
<1>3. CASE Join
  BY <1>3 DEF Join, Ending, WorkersSleep, Asleep, workerVars
<1>4. CASE Submit
  BY <1>4, SubmitSends
<1>5. CASE Free
  BY <1>5 DEF Free, WakeWorkers, WorkersSleep, Asleep, Inv, Types
<1>6. ASSUME NEW w \in Workers, Worker(w) PROVE WorkersSleep'
  <2>1. CASE WorkerTop(w) \/ Encode(w) \/ Finish(w) \/ End(w)
    <3>1. UNCHANGED <<exit, task_fifo>>
      BY <2>1 DEF WorkerTop, Encode, Finish, End, queueVars
    <3>2. (Asleep' # {} => Asleep # {}) /\ Fetching \subseteq Fetching'
      BY <2>1 DEF WorkerTop, Encode, Finish, End, Asleep, Fetching, Inv, Types
    <3> QED
      BY <3>1, <3>2, NobodyTurnsBack
  <2>2. CASE Fetch(w)
    BY <2>2, FetchTakes
  <2> QED
    BY <1>6, <2>1, <2>2 DEF Worker
<1> QED
  BY <1>1, <1>2, <1>3, <1>4, <1>5, <1>6, Zenon DEF Next, UserStep, Closed

\* Only a worker finishes a task, and it wakes the user.
LEMMA UserSleepsStep ==
  UserSleeps /\ [Next]_vars => UserSleeps'
<1> SUFFICES ASSUME UserSleeps, [Next]_vars PROVE UserSleeps'
  OBVIOUS
<1> USE DEF UserSleeps, Oldest, queueVars, userVars
<1>1. CASE UNCHANGED vars
  BY <1>1 DEF vars
<1>2. CASE CreateWorker \/ CreateFails \/ ReturnNothing \/ TakeResult \/ Join \/ Submit \/ Drain \/ Free
  BY <1>2 DEF CreateWorker, CreateFails, ReturnNothing, TakeResult, Join, Submit, Drain, Free
<1>3. CASE AwaitResult
  BY <1>3 DEF AwaitResult, NothingToReturn
<1>4. CASE SubmitFails \/ SpuriousWakeup
  BY <1>4 DEF SubmitFails, SpuriousWakeup
<1>5. ASSUME NEW w \in Workers, Worker(w) PROVE UserSleeps'
  <2>1. CASE Finish(w)
    BY <2>1 DEF Finish, SignalUser
  <2>2. CASE WorkerTop(w) \/ Fetch(w) \/ Encode(w) \/ End(w)
    BY <2>2 DEF WorkerTop, Fetch, Encode, End
  <2> QED
    BY <1>5, <2>1, <2>2 DEF Worker
<1> QED
  BY <1>1, <1>2, <1>3, <1>4, <1>5, Zenon DEF Next, UserStep, Closed

LEMMA HangInit == Init => Ending /\ Found /\ WorkersSleep /\ UserSleeps
<1> SUFFICES ASSUME Init PROVE Ending /\ Found /\ WorkersSleep /\ UserSleeps
  OBVIOUS
<1>1. Ending /\ WorkersSleep /\ UserSleeps
  BY DEF Init, Ending, WorkersSleep, Asleep, UserSleeps
<1>2. Found
  BY EmptySeq DEF Init, Found, Fetched
<1> QED
  BY <1>1, <1>2

LEMMA HangInvariant == Spec => [](Ending /\ Found /\ WorkersSleep /\ UserSleeps)
<1>1. /\ Inv /\ Ending /\ Found /\ WorkersSleep /\ UserSleeps /\ [Next]_vars
      => (Ending /\ Found /\ WorkersSleep /\ UserSleeps)'
  BY EndingStep, FoundStep, WorkersSleepStep, UserSleepsStep
<1> QED
  BY <1>1, HangInit, Invariant, PTL DEF Spec

\* A frame the user waits for is with a worker, or a worker is on its way to it.
LEMMA FrameMovesOn ==
  ASSUME Inv, Ending, Found, WorkersSleep, InCall, ~Oldest.full,
         task_index # finished_task_index
  PROVE  \E w \in Workers : WorkerGoesOn(w)
<1>1. returned < submitted /\ finished_task_index = SlotFor(returned + 1)
  <2>1. returned # submitted
    BY DEF Inv, Indexes
  <2>2. returned <= submitted
    BY LenProperties DEF Inv, Types, Indexes, Fetched
  <2> QED
    BY <2>1, <2>2 DEF Inv, Types, Indexes, SlotFor
<1>2. CASE task_fifo = <<>>
  <2>1. returned + 1 \in returned + 1 .. Fetched
    BY <1>1, <1>2, EmptySeq DEF Fetched, Inv, Types
  <2>2. PICK w \in Workers : Holds(w) /\ task[w].frame = returned + 1
    BY <1>1, <2>1 DEF Found, Oldest, InCall
  <2> QED
    BY <2>2 DEF Holds, WorkerGoesOn
<1>3. CASE task_fifo # <<>>
  <2>1. Len(task_fifo) \in Nat /\ Len(task_fifo) >= 1
    BY <1>3, LenProperties, EmptySeq DEF Inv, Types
  <2>2. CASE Asleep # {}
    <3>1. Fetching # {}
      BY <2>1, <2>2, FetchingIsFinite, FS_EmptySet DEF WorkersSleep
    <3> QED
      BY <1>3, <3>1 DEF Fetching, WorkerGoesOn
  <2>3. CASE Asleep = {}
    <3>1. 0 \in Workers /\ wpc[0] # "none"
      BY Constants DEF Workers, Inv, User, Types, InCall, Open
    <3>2. wpc[0] \in {"top", "fetch", "encode", "finish"}
      BY <2>3, <3>1 DEF Asleep, Ending, InCall, Inv, Types
    <3> QED
      BY <1>3, <3>1, <3>2 DEF WorkerGoesOn
  <2> QED
    BY <2>2, <2>3
<1> QED
  BY <1>2, <1>3

\* One signal per task is enough in worker and in ff_thread_video_encode_frame:
\* nobody sleeps on a condition while there is work for it that nobody else is
\* coming for.
THEOREM WakeupsReach == Spec => []NoWakeupLost
<1>1. WorkersSleep /\ UserSleeps => NoWakeupLost
  BY DEF WorkersSleep, UserSleeps, NoWakeupLost, UserGoesOn
<1> QED
  BY <1>1, HangInvariant, PTL

\* Whatever the user waits for in ff_thread_video_encode_frame or in
\* ff_frame_thread_encoder_free, there is a thread that can go on: the encoder
\* is never in a state where all wait for each other.
THEOREM CallsNeverHang == Spec => []NoCallHangs
<1>1. Inv /\ Ending /\ Found /\ WorkersSleep /\ UserSleeps => NoCallHangs
  <2> SUFFICES ASSUME Inv, Ending, Found, WorkersSleep, UserSleeps, upc \notin {"out", "closed"},
                      ~UserGoesOn
               PROVE  \E w \in Workers : WorkerGoesOn(w)
    BY DEF NoCallHangs
  <2>1. CASE upc = "join"
    <3>1. exit /\ Asleep = {}
      BY <2>1 DEF Ending, WorkersSleep
    <3>2. PICK w \in Workers : w < thread_count /\ wpc[w] # "ended"
      BY <2>1 DEF UserGoesOn
    <3>3. wpc[w] # "none" /\ wpc[w] # "asleep"
      BY <3>1, <3>2, Constants DEF Asleep, Inv, Types, User
    <3> QED
      BY <3>1, <3>2, <3>3 DEF WorkerGoesOn, Inv, Types
  <2>2. CASE upc \in {"collect", "asleep", "awake"}
    <3>1. ~Oldest.full
      BY <2>2 DEF UserGoesOn
    <3>2. task_index # finished_task_index
      BY <2>2 DEF UserGoesOn, NothingToReturn, UserSleeps
    <3> QED
      BY <2>2, <3>1, <3>2, FrameMovesOn DEF InCall
  <2> QED
    BY <2>1, <2>2 DEF UserGoesOn, Inv, Types
<1> QED
  BY <1>1, HangInvariant, Invariant, PTL
=============================================================================
