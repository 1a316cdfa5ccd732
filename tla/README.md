# Verification of FFmpeg's concurrency core

This directory holds TLA+ models of FFmpeg 4.3.2 as it is kept in
`src/ffmpeg-4.3.2`, the TLC runs that check them, and TLAPS proofs. The
repository builds FFmpeg and a set of third-party libraries (`src/libs`); its
own changes to FFmpeg are small (x264 and AAC encoder options, tweaks in
`libavformat/utils.c`), so the program's own logic is FFmpeg's. Most of FFmpeg
is codecs: long, sequential and well covered by its FATE tests. What tests
reach badly is the part that moves packets, frames and jobs between threads,
owns buffers jointly, and must stop cleanly: that part is modelled here.

All paths below are relative to `src/ffmpeg-4.3.2` unless they begin with `src/`.

## 1. The system

### 1.1 How a transcode runs

    input_thread (one per input)        ffmpeg main thread                 fifo muxer thread
    av_read_frame ──► message queue ──► decode ─► filter ─► encode ─► mux ──► message queue ──► actual muxer
                     (threadmessage)      │          │         │             (threadmessage)
                                          │          │         └ frame_thread_encoder / slices
                                          │          └ slices (slicethread)
                                          └ frame threads (pthread_frame) or slices (slicethread)

    every packet and frame is a set of AVBufferRefs (buffer.c) shared between all of these threads

The threads meet in a handful of places: the message queue, the frame threads,
the slice threads, the buffers and their pools, the fifo muxer, the
asynchronous reader, the frame threads of encoders, and in ffplay the queues of
packets and frames. Each is a few hundred lines whose correctness is an argument
about interleavings.

### 1.2 Inventory

| Part (source) | State | Operations | Interacts with | Hard | Must hold |
|---|---|---|---|---|---|
| Message queue (`libavutil/threadmessage.c`) | ring of messages, two error codes, mutex, two condition variables | alloc, set_free_func, send, recv, set_err_send, set_err_recv, flush, free | input threads, fifo muxer | one signal per message; errors set and cleared at any time; flush frees many slots at once | nothing lost, reordered or leaked; nobody sleeps who should not; errors end calls, after the messages |
| Slice threads (`libavutil/slicethread.c`) | workers with a mutex and a `done` each, two atomic counters, a `done` of the execute | create, execute, free; worker loop | codecs and filters through `pthread_slice.c`, `libavfilter/pthread.c` | counters reset without a lock; the last worker is told from a counter | every job once, no two jobs with one number, no worker late, execute returns |
| Frame threads, decoding (`libavcodec/pthread_frame.c`) | ring of slots, each a codec context, a packet, a frame, a state; hwaccel mutex, async lock, buffer mutex | init, decode_frame (submit, answer callbacks, output), flush, free; worker: setup, get_buffer, get_format, finish_setup, report and await progress | user callbacks, hwaccels, buffers | five locks, one condition variable with different waiters, contexts copied between running threads | frames in order and once, contexts chained, hwaccel calls serialized, every call returns |
| Buffers and pools (`libavutil/buffer.c`) | reference counts, free list, count of the pool | create, alloc, ref, unref, make_writable, realloc, pool get, release, uninit | everything | counts are updated outside the mutex; buffers return to a pool being uninited | exact counts, one owner per block, pool freed once and last, a writer is alone |
| Fifo muxer (`libavformat/fifo.c`) | the queue, overflow flag, recovery state, the actual muxer | write_header, write_packet, write_trailer, deinit; consumer: dispatch, recover, drop | message queue, actual muxer | errors at every call, retries of a message, overflow racing the consumer | header/packets/trailer alternate, order, no loss without permission, bounded attempts, ends |
| Input threads (`fftools/ffmpeg.c`) | one queue per input, joined flag | input_thread, get_input_packet_mt, free_input_thread | message queue, demuxers | shutdown by errors on both sides of the queue | every packet once and in order, the threads end |
| Asynchronous reader (`libavformat/async.c`) | ring with read-back, seek request and result, error, logical position | read, seek, close; background task | inner protocol, interrupt callback | ring filled outside the mutex, seeks while reading | bytes in order from the logical position, no call waits for ever |
| Frame threads, encoding (`libavcodec/frame_thread_encoder.c`) | fifo of tasks, ring of results, two indexes | encode_frame, init, free; worker | encoders, buffers | results arrive out of order | packets in order, no slot overwritten, drain ends |
| Row progress (`libavcodec/pthread_slice.c`) | counters per row, mutex and condition per thread | execute, report_progress2, await_progress2, alloc and reset entries | slice threads | rows wait for rows | no cycle of waits |
| ffplay (`fftools/ffplay.c`) | packet queues with serials, frame queues, clocks | put, get, flush, abort; peek_writable, push, next; decoder loop | decoders, SDL | seeks while frames of before are everywhere | nothing of before a seek is shown after it, closing ends |
| AVFifoBuffer (`libavutil/fifo.c`) | buffer, two 32-bit indexes, two pointers | write, peek, read, drain, grow | queues | wrap of the indexes | a sequence |
| RTP reception (`libavformat/rtpdec.c`) | reorder queue, 16-bit sequence numbers | parse, enqueue, dequeue, statistics | depacketizers | wrap, loss, duplicates, reordering | packets in order, none twice |
| UDP buffers (`libavformat/udp.c`) | byte fifo with framed datagrams, error | rx and tx tasks, read, write, close | sockets | overrun, errors, cancellation | framing, errors reach the user |
| Muxer interleaving (`libavformat/mux.c`), send/receive API (`decode.c`, `encode.c`, `bsf.c`), filter scheduling (`libavfilter`), buffered I/O (`aviobuf.c`, `cache.c`) | lists, flags | — | — | sequential | — |
| Codecs, formats, filters, scalers, resampler, devices, tools, vendored libraries, build scripts | — | — | — | data, not control | — |

`PROJECT.json` has one entry per part with its status and reason, and under
`hazards` the places where each of these can go wrong, with the properties that
would notice.

## 2. Modules

| Module | What it is |
|---|---|
| `ThreadMessageQueue` | the message queue, `ThreadMessageQueueMC` for TLC |
| `MessageChannel` | what the queue promises: a blocking bounded channel with errors, no mutex, no wakeups |
| `SliceThread` | the slice thread pool, `SliceThreadMC` for TLC |
| `ParallelFor` | what execute promises: a parallel loop |
| `FrameThread` | decoding with frame threads, `FrameThreadMC` for TLC |
| `BufferPool` | buffers and their pools, `BufferPoolMC` for TLC |
| `FifoMuxer` | the fifo muxer over a channel, `FifoMuxerMC` for TLC |
| `AsyncProtocol` | the asynchronous reader, `AsyncProtocolMC` for TLC |
| `FileReader` | what the reader promises: the file itself, read and sought by one thread |
| `PlayQueues` | how ffplay plays an audio stream |
| `FrameThreadEncoder` | encoding with frame threads, `FrameThreadEncoderMC` for TLC |
| `OrderedEncoder` | what those threads promise: one encoder with a delay |
| `ThreadMessageQueueProofs`, `SliceThreadProofs`, `FrameThreadProofs`, `BufferPoolProofs`, `FifoMuxerProofs`, `AsyncProtocolProofs`, `PlayQueuesProofs`, `FrameThreadEncoderProofs` | theorems about each of the eight components |

Definitions that end in a word like `Late`, `Never`, `Silently` next to a
definition of the code are mutations of it: they are used only to show that each
property notices a bug in the code it is about.

### 2.1 ThreadMessageQueue

State: the fields of `AVThreadMessageQueue`, one `pc` per thread (outside a call,
asleep in `pthread_cond_wait`, woken and not yet in possession of the mutex), the
last result, and two histories, `sent` and `taken`. One action is one critical
section: from the call, or from the return of `pthread_cond_wait`, to the return
of the function or the next wait. `pthread_cond_signal` wakes any one sleeper,
a wait may return without a signal, and a woken thread competes for the mutex
with threads that make new calls. `set_free_func` takes no lock in the code and
`free` destroys the mutex; both are possible only while no call is in progress,
as their callers ensure. `av_thread_message_queue_nb_elems` only reads.

### 2.2 SliceThread

State: the fields of `AVSliceThread` and of its workers, `pc` and the locals of
`run_jobs` per thread. The actions are the accesses to shared state: the two
atomic fetches, the wake-up of one worker under its mutex, the report of the last
worker, the owner's wait. A worker holds its own mutex whenever it is not waiting
(this is why the wake-up of the next execute cannot be lost), which is the
definition `MutexFree`. `Create` chooses the size of the pool and whether there is
a `main_func`; `pthread_create` may fail at every worker. Jobs are calls of
`worker_func` and take time (`JobReturns`).

### 2.3 FrameThread

State: `FrameThreadContext`, per slot the fields of `PerThreadContext`, where each
worker and the user's thread are, and on which `progress_cond` a thread sleeps.
A codec context is the number of the submission after which it is current;
"stale" and "lost" stand for a context that is not the latest, and for what an
update that failed inside a flush left behind. `codec` is chosen at the start: with or without
`update_thread_context`, user callbacks that are not thread safe, hwaccels that
are async safe or not, delay, FFV1. The user submits packets or drains, flushes,
and closes at any time between calls; submissions fail at each of their failure
points; creating the threads fails at any thread.

Waits whose condition is changed under the mutex and followed by a wakeup of
their only waiter are guards. `progress_cond` is not of that kind: the worker, the
user and later workers sleep on it for different conditions, and it is sometimes
broadcast and sometimes signalled. There the sleepers, the signal and spurious
wakeups are explicit.

Abstracted: rows of a frame (progress is reported once, references go one frame
back), the content of contexts, the buffers queued by `ff_thread_release_buffer`
(their release under `buffer_mutex` is kept as a wait), codecs that report no
progress. `Callbacks` stands for three tests that differ in the code (`pthread_frame.c`,
140–142, 449–451 and 976–977: get_buffer2 and get_format are each the user's or the
default one); a user who sets one of the two is not a case of its own. A drain of a codec
that never calls `ff_thread_finish_setup` leaves its setup as a decode does that returns.

### 2.4 BufferPool

State: the `AVBufferRef`s, `AVBuffer`s and blocks of data, the pool's list, count
and memory, and where each thread is. One action is one atomic operation or one
section under the mutex of the pool; in particular the count of the pool goes up
after `av_buffer_pool_get` left the mutex and down after `pool_release_buffer`
left it, the block being free for others meanwhile. A thread uses an `AVBufferRef`
that no other thread is using; how references travel between threads is left
open, so every use the API allows is covered. Not modelled: read-only buffers,
replaced allocators, failures of allocation (they change nothing).

### 2.5 FifoMuxer

State: the fields of `FifoContext` and `FifoThreadContext`, the queue, the message
in the consumer's hands, the state of the actual muxer, and which packets hold a
reference. The queue is used as the channel that `ThreadMessageQueue` implements
(`MessageChannel`): a send or receive is one step, enabled when it would not block.
The actual muxer is external: each of its calls may fail, with an error that is
temporary, permanent, `AVERROR_EXIT` or `AVERROR(EAGAIN)`. `options` is chosen at
the start. Real time passes freely; the stream's time is the number of the packet.
A recovery that is switched off and gets `AVERROR(EAGAIN)` from the muxer frees the
message and returns that error, which its caller takes for "try again": with dropping
the consumer goes on with the next message, without it the consumer spins (`cpc` is
`"spin"`), a loop that frees nothing more and tests nothing that changes.
Not modelled: the value `write_trailer` returns, which no decision depends on, and the
I/O context of an output that was opened but whose header failed (`fifo.c`, 126–138),
which the code leaves open for the next attempt to overwrite. An option the muxer does
not know is a permanent error of every header, written or not.

### 2.6 AsyncProtocol

State: the fields of `Context` and of its `RingBuffer`, where the background thread
and the reader's thread are, the call in progress and how much of it is left. A byte
of the file is its position, so the content of the ring is a sequence of positions.
`ring_generic_write`, which reads the source into the ring without the mutex, is
four actions: the claim of the room (under the mutex), the reads of the source, which
advance the source only, the one store of the write index after the loop
(`av_fifo_generic_write`), by which the ring gets the bytes, and, under the mutex again,
the wakeup of the reader. The reader may drain the ring, rewind it or ask for a seek between
any two of them. The seek of `async_seek` that stays within the ring also runs
without the mutex, in parts (`SeekHere`, `SeekBack`, `SeekForward`). The inner
protocol is external: each read may return fewer bytes, an error or the end of the
file, and each seek may fail. The interrupt callback may answer anything, and once
it was heard `abort_request` stays. `FileReader` is a file with a position.

### 2.7 PlayQueues

State: for one stream the fields of `PacketQueue`, `FrameQueue` and `Decoder`, the
flags of `VideoState`, where the reading thread, the decoder thread, the audio
callback and the main thread are, and histories of what was played. A packet or a
frame is its number in the file with the number of the seek it was read after
(`epoch`), which is what the code's serials stand for. Merged into one action or
variable: `audio_st` and `audio_stream`, which are set one after the other; the
write of a frame into its slot and the push, which only the decoder does; the look
at the next frame and the step to it, which only the callback does. `-loop` seeks like
a user and is not a case of its own. The end of the file stays until a seek. SDL
runs no callback after the device was closed, and `"play"` stands for all the
callbacks that use up a frame. A packet gives one frame, through the codec and
through the filter graph. The filter graph may fail at any frame, before it is queued or
after, and the thread of a new stream may fail to start: the decoder is then `"failed"`,
with a queue that is not aborted and without a `finished` that will ever be set.

Not modelled: errors of the demuxer, pause, attached pictures, subtitles and the
refresh of video (the other user of a frame queue, in the main thread), clocks and
synchronisation, and the limits of the packet queue in bytes and in duration (the
limit in packets is).

### 2.8 FrameThreadEncoder

State: the fields of `ThreadContext`, where the user's thread and each worker are,
the task in a worker's hands, and histories: the frames handed in, the results
handed out, the copies of frames and the packets that exist. `encode2` is external:
it makes a packet, makes none, or fails. The second is what mpegvideo encoders do
with a frame that `skip_threshold` lets them skip; the call that takes its turn returns
what a call returns that finds nothing (`Returned`). A frame that cannot be copied,
and a worker or a worker's context that cannot be created, are modelled; failures
before the first worker is created are not, nor is the context of a worker whose
thread could not be created, which the code does not free.

## 3. What the runs show

| Run | Instance | States | Shows |
|---|---|---|---|
| `queue` | 2 senders, 2 receivers, capacity 2, 4 messages, one error code | 221 452 | `MessagesAccountedFor`, `NoLostWakeup`, and that the queue implements `MessageChannel` with its fairness, by which an error ends every call after the messages |
| `slices` | pools of 1 to 4 threads with and without `main_func`, 1 to 5 jobs, any number of executes | 116 331 | `NoWorkerLeftBehind`, `CallsEnd`, and that execute implements `ParallelFor`, by which no two jobs run under one thread number |
| `frames` | 3 threads, 4 packets between flushes, five kinds of codecs | 5 619 270 | `RingInOrder`, `FramesInOrder`, `EofMeansEmpty`, `ContextChain`, `NoCallHangs`, `HwaccelSerialized`, `AsyncLockOwned` |
| `frame_calls` | 2 threads, 3 packets, three kinds of codecs | 122 268 | `CallsReturn`: no deadlock and no lost wakeup between user, workers, callbacks and locks |
| `buffer_pool` | 3 threads, 4 references, 4 buffers, 3 blocks | 130 070 up to symmetry | `RefcountExact`, `OneOwner`, `PoolLives`, `NothingLeaks`, `WriterAlone` |
| `fifo_muxer` | 5 packets, 4 errors, seven sets of options | 1 076 135 | `OutputProtocol`, `AttemptsBounded`, `NothingLost`, `LeaksLastAttemptOnly`, `InOrderOnce`, `CallsReturn` |
| `async` | a file of 4 bytes, 2 bytes ahead and 1 behind, short seeks of 1, reads of up to 2, seeks anywhere and past both ends | 670 995 | `RingIsWindowOfFile`, and that the protocol implements `FileReader` with its fairness |
| `play` | 2 packets, 2 slots, one seek and one switch of the stream | 1 032 843 | `OnlyCurrentFramesPlayed`, `FrameInUseKept`, `NothingPendingAtEnd`, `ClosingEnds`, `PlaybackEnds` |
| `encoder` | 2 threads, a ring of 4 slots, 6 frames | 512 976 | `NothingLeft`, and that the threads implement `OrderedEncoder` with its fairness |
| `fifo_keyframe`, `fifo_rescale` | 3 or 4 packets, one set of options each | — | the disagreements of section 5 |
| `play_autoexit` | as `play`, with `-infbuf` | — | likewise |

Every module of a component has a type invariant; the runs check those of
`ThreadMessageQueue`, `SliceThread`, `FrameThread`, `BufferPool`, `AsyncProtocol` and
`FrameThreadEncoder`, and all eight are proved.

Why the bounds are enough. The queue needs two threads per side for a signal to
go to the "wrong" one, capacity two for a flush to free several slots, and twice
the capacity of messages for the ring to be emptied and filled again. Pools of
four threads give executes with fewer jobs than threads, as many, and more, and
three workers that leave in any order. Three frame threads give a slot before,
the slot itself and one after, and four packets go round the ring once more.
A buffer travels list → thread → list with a third thread uninitializing the
pool; four references allow three holders and a copy. The fifo muxer needs a
queue of two to lose the tail of, and errors beyond `max_recovery_attempts` (2).
The reader's ring of three bytes is smaller than the file, so that it fills, wraps,
drains and is reset, with a chunk that fits and one that does not; targets on both
sides of the ring take every branch of the seek. In ffplay two packets and two slots
let a frame be in use, one wait and one be written; one seek and one switch make
three serials, so that a frame may be two serials old. A ring of four with up to
three tasks inside is gone round one and a half times, and one worker may be
overtaken twice by the other.
Deadlock is checked everywhere but in the runs of `FifoMuxer`, whose system stops
when it has been closed. Symmetry is used only in `buffer_pool`, which has no
temporal property.

### Fairness

* `queue`: a woken thread gets the mutex (weak fairness of its step). No thread
  is obliged to make a call.
* `slices`: the owner carries on with its call, workers are scheduled, and the
  callbacks return. Whether execute or free is ever called is left open.
* `frame_calls`: strong fairness of the user's steps inside a call and of each worker, because a
  thread that waits for a mutex others take again and again gets it eventually;
  all other waits are for conditions that stay true until the waiter moves. The
  codec returns from its calls. The user need not call again.
* `fifo_muxer`: the consumer and the user's thread inside a call are scheduled.
  The user need not write another packet: with `recovery_wait_streamtime` the
  consumer then waits in a receive and not in a call of the user. That the muxer fails
  `MaxErrors` times in all is part of what `CallsReturn` rests on: with attempts that fail
  for ever and no limit on them the recovery goes on for ever.
* `async`: the background thread is scheduled and the source returns from its calls;
  the reader's thread carries on with a call it is in. Nobody need make a call.
* `play`: each of the four threads is scheduled; the device asks for samples as long
  as it is open; the main thread handles the event by which the reading thread asks
  it to quit. The user need not seek, switch or quit.
* `encoder`: the workers are scheduled and `encode2` returns; the user carries on with
  a call it is in, and frees what it could not open. Allocation in the loop of a worker, which
  it retries, succeeds in the end.

## 4. What is proved

Every theorem holds for all values of the constants that satisfy the named
assumptions of the module, the bounds on packets, calls and frames included.

`ThreadMessageQueueProofs`, for every number of threads, every capacity and every
set of error codes (the capacity is positive, the threads are finite and senders
differ from receivers, 0 is not an error code):

* `TypeInv`: `Spec => []TypeOK`, with the bound on the fifo.
* `NoLostWakeups`: `Spec => []NoLostWakeup`. `NoLostWakeup` is inductive with
  types and one fact more (`WakeInv`): no thread is inside a call while the queue
  does not exist, since otherwise a new queue could start with a sleeper. The
  lemmas count: a signal moves one thread from the asleep to the woken
  (`SignalEffect`), a woken thread that runs leaves the woken (`WokenLeaves`), a
  broadcast leaves nobody asleep (`BroadcastEffect`). The step that matters is a
  woken thread that finds its message stolen by a call that came later: it goes to
  sleep, and the count is kept since the message went too.
* `NoMessageLost`: `Spec => []MessagesAccountedFor`. `Conservation` is proved
  index by index (`SameLog`), which avoids reasoning about concatenations; `NoLeak`
  needs that the fifo of a freed queue is empty and that nothing was dropped once
  `free_func` is set, which it is before the first message (`LogInv`).
* `StepsOfChannel`: every step is a step of `MessageChannel` or a stutter. A call is
  `blocked` in the channel from its first sleep to its return, so a woken thread that
  sleeps again does nothing there. Of the invariants it needs only types and that the
  blocked sends still fit into the bound on messages (`RoomToSend`).

`FrameThreadProofs`, for every number of threads, kind of codec and number of
packets, has all the safety properties of the `frames` run (`TypeCorrect`,
`RingHoldsTheRest`, `FramesLeaveInOrder`, `EndOfStreamIsTrue`, `ContextsAreHandedOn`,
`AsyncLockHasOneOwner`, `HwaccelsTakeTurns`, `CallsNeverHang`) and that the answer to a
callback reaches the worker that asked (`AnswersReachTheWorker`). They follow
from one inductive invariant, `Inv`, in groups that are proved to be kept one by one,
each with the help of the others before the step: `Types`; `Phases`, which state of a
slot belongs to which point of its worker; `Caller`, what the user's thread may rely
on in a call; `Locks`, one holder per lock, and whoever needs a lock has it;
`Contents`, `Position`, `Contexts` and `Sleeping`. The ring is seen from its head, the
slot after the last submission: `Back(p)` is how many submissions ago slot `p` got its
packet. The submissions not taken yet are the slots less than `Untaken` behind the head,
in order (`Contents`); the output loop stands at the oldest, or before it while it
drains, with only taken slots in between (`Position`). No invariant of the code's own
variables says this, and every property of the ring is a consequence of it: there is
something in the ring exactly where `next_finished` looks for it, whatever delay,
drain, flush and failed submissions did. `Contexts` says that only the last
submission may be in its setup, so the context it is given cannot be overtaken.
`CallsNeverHang` (`NoCallHangs`) says that in every call of the user some thread finds what
it waits for. Two invariants more are needed: who holds a lock is at a point from which it
gives it back (`Holders`), and who sleeps on a condition has a reason to (`Resting`). Of the
packets past their setup the oldest goes on, since the frame it refers to is finished
(`OldestGoesOn`); if there is none, the one in its setup does, or waits for an answer that the
user is there to give (`SetupGoesOn`); and if there is neither, the user waits for nobody
(`UserIsFree`), or frees the threads and finds one to join (`FreeGoesOn`). "The oldest" is the
least element of a set of numbers: its existence is the one place where a well-founded
induction is used (`LeastElement`).

`BufferPoolProofs`, for every set of threads and all finite sets of references,
buffers and blocks: `CountsAreReferences`, `WritersAreAlone`, `BlocksHaveOneOwner`,
`PoolOutlivesItsBuffers`, `AllIsFreed`, `TypeCorrect`. First `RefsInv`, about references
and counts: what a thread may rely on at each point (`Role`), no two threads at work on
one reference or buffer (`Apart`), and the counts (`Counts`), which are cardinalities, so
that each step comes with a lemma on a set that gains or loses one element. Then
`PoolInv` with its help: who owns each block (`Owners`), that every buffer and block is
used by somebody (`Accounted`), and that the pool's own count is the number of its
blocks out plus one for its user (`PoolCount`). `PoolLives` needs the last two: a pool
is freed when its count drops to zero, and the one who drops it has just put the
last block on the list.

`FifoMuxerProofs`, for every set of options, any number of packets and any number of
errors of the actual muxer:

* `TypeCorrect`: `Spec => []TypeOK`, the queue's size included.
* `PacketsInOrderOnce`: `Spec => InOrderOnce`. It rests on `OrderInv`
  (`OrderCorrect`): no message has a number that was not given out (`Numbered`),
  and the last packet written, the one in the consumer's hands, those in the queue
  and the one being sent have growing numbers (`Ordered`). The step that matters is
  a failed dispatch: the message stays in hand to be dispatched again, which is
  harmless because a dispatch writes the packet only when it succeeds
  (`DispatchEffect`), and the message of a successful one is out of hand at once.
* `NothingIsMissing`: `Spec => []NothingLost`. While nothing may be dropped, the
  output has not failed for good and the consumer does not spin, the packets written are the
  first ones of those sent, without a gap, and each later one is in hand, in the queue or being sent. `CalmInv`
  adds to `OrderInv` that nothing makes the consumer skip packets unless they may be
  dropped, and that it gives up only for an error; with `Ordered` the packet in hand is
  then the next one to write.
* `OnlyLastAttemptLeaks`: `Spec => []LeaksLastAttemptOnly`. By `LeakInv` every packet in
  memory is being sent, queued, in hand, or leaked by the last attempt. The proof first
  failed: with a muxer that returns `AVERROR(EAGAIN)` the consumer goes on after the last
  attempt, so `recovery_nr` may exceed the number allowed when the packet leaks. The
  property said "equals" and was corrected, and the run has that muxer now.
* `OutputCorrect`: `Spec => []OutputProtocol`, which is inductive given the types and
  that the consumer is started once.
* `AttemptsCorrect`: `Spec => []AttemptsBounded`. The invariant `AttemptsInv` adds
  that a consumer that may still recover has an attempt left, and that an attempt
  which gives up does so for an error it cannot recover from.
* `CallsNeverHang`: a sender that waits for room, and `fifo_write_trailer` that joins, wait
  for a consumer that goes on or spins after an `AVERROR(EAGAIN)` (`Spins`: no recovery
  and no dropping). `EndedInv` says that the consumer does not end without
  an error for the senders; that it gives up for an error, and not for a message that
  came while the output was down, is in `CalmInv`. A consumer between two attempts goes on
  because `fifo_init` allows `recovery_wait_streamtime` only where packets may be dropped.

`AsyncProtocolProofs`, for every size of the file, the ring, the read-back, the
chunks and the reads: `TypeCorrect`, `RingCorrespondsToFile`
(`Spec => []RingIsWindowOfFile`: the ring is a window of the file, and the source stands
where it ends, or further by what the write under way has read and not yet published) and
`WritesFit`, which is the assertion of `ring_generic_write`. The inductive invariant
`RingInv` adds to the three what the
call in progress is (`CallInv`: in particular a seek that is requested belongs to a
reader who waits for it) and that a write under way never exceeds the room it
claimed (`WriteInv`). The step that matters is the background thread that wrote
without the mutex while the reader drained: draining only makes room.
`StepsOfFile` says that every step of the two threads is a step of `FileReader` or a
stutter. It adds `EndInv`: an end reported without an error means that the source stands at
the end of the file, and an answered seek is the one that was asked for. With the window
of the ring, an empty ring at the end of the source is the end of the file for the reader
too.
`CallsNeverHang`: each of the two threads wakes the other before it sleeps, and
after an abort nobody sleeps any more, so the reader never waits for a background thread that
sleeps or has ended.

`PlayQueuesProofs`, for any number of packets, slots, seeks and switches:
`TypeCorrect`, `CallbackFrameKept` (`FrameInUseKept`), `PlaybackOverWhenAllTaken`
(`NothingPendingAtEnd`), `CurrentFramesOnly` (`OnlyCurrentFramesPlayed`), `WakeupsReach` and
`ClosingNeverHangs`. The invariants are proved one after the other: `ThreadsInv` (which
threads run while the stream is closed and opened), `QueueInv` (serials and the packet
queue), `RingInv` (indexes of the frame queue; the slot of the frame in use is the one
behind `rindex`, and counts as full), and `EndInv`. Its `StreamEnd` says how a stream comes
to its end: there is one flush packet at most and it is the first, null packets are the
last, and a decoder is `finished` for the current serial only when nothing but null packets
is left before it.
For what is played, `EpochInv` says that all
that has the serial of the queue was read after the last seek, except that the codec may
still hold older frames under it, and then the flush packet is in the decoder's hands;
that packet is the first of its serial in the queue (`EpochCurrent`). `OrderInv` says
that from the last frame played over the ring, the decoder's hands, the codec and the
queue back to the file everything of that serial is in the order of the file (`AfterPlayed`
to `AfterPackets`, one for each place a packet passes). A step moves one packet from
one place to the next, so each has a lemma of its own (`GetKeepsOrder`, `FeedKeepsOrder`,
`ReceiveKeepsOrder`, `PushKeepsOrder`, `NextKeepsOrder`, `TestKeepsOrder`).
`WakeupsReach` and `ClosingNeverHangs` are about the condition variable of the frame queue,
on which both the decoder and the callback sleep and which is signalled, not broadcast:
the decoder sleeps when the ring is full and the callback when it is empty or holds
the frame in use only, so with two slots or more they never do both (`NotBothSleep`), and
the one signal of `decoder_abort` reaches the one who sleeps. With one slot it would not;
that is the assumption on `MaxFrames`.

`SliceThreadProofs`, for any size of the pool and any number of jobs: `TypesHold`,
`NumbersDistinct` (two runners inside jobs have different thread numbers),
`NobodyLeftBehind` (`NoWorkerLeftBehind`) and `StepsOfParallelFor`, which says that every
step of the pool is a step of `ParallelFor` or a stutter. The atomic counters are
cardinalities: `first_job` of the runners that are in jobs or have left `run_jobs`, and
what `current_job` exceeds `nb_jobs` by, of those that have left (`Counted`). `EntersCount`
and `LeavesCount` say what an atomic fetch returns in these terms, so the runner whose
fetch returns the last number is the one that completes the set of participants, and
when it is out nobody else is busy (`NobodyBusy`). `Jobs` says that the jobs begun are
those the two counters have passed, and that is all of them when the last
runner leaves (`AllBegun`).
`CallsNeverHang` adds that whoever completes the set of those that have left is on its
way to report it (`LastOut`): if every worker has parked, the count is full (`AllOut`), so
`done` is set and the owner goes on.

`FrameThreadEncoderProofs`, for any number of threads, any ring of at least twice as
many slots and any number of frames: `TypesHold`, `NothingIsLeft` (`NothingLeft`) and
`StepsOfOneEncoder`, by which the threads behave as one encoder that returns its packets
in the order of the frames. The queue holds the last frames in order (`Queue`),
every other frame inside is in a worker's hands (`Held`) or finished in its slot
(`Ring`), and at most one frame more than there are threads is inside (`Indexes`). Hence
the slots of frames inside differ (`SlotsDiffer`, from lemmas on remainders), and the slot
the user waits for is the next frame's (`OldestIsNext`). `Copies` and `Packets` count what
is to be freed.
`WakeupsReach`: while a worker sleeps there is a worker on its way to the queue for
every task in it, so one signal per task is enough, in whatever order the workers come.
`CallsNeverHang` follows with `Found`, which says that a frame that has left the queue and
was not returned is with a worker or in its slot: the frame the user waits for is either
with somebody or in a queue that somebody is coming for.

Out of the prover's reach and left to TLC: liveness (the fairness part of
`ImplementsChannel`, `ImplementsParallelFor`, `ImplementsFile` and
`ImplementsEncoder`; `CallsEnd`, `CallsReturn`, `ClosingEnds`, `PlaybackEnds`). Every
other property of a run is proved. Of the liveness the part that is a safety property
is proved for every module with waiting threads: no state of a call is one in which every
thread waits for another, and no sleeper has missed its wakeup. "Goes on" is
written out for each point of a thread, since the prover has no `ENABLED`; what TLC adds is that
the steps taken lead to the end of the call.

## 5. Findings

Three runs show a disagreement between the code and what is said of it:

* `fifo_keyframe`: the overflow flag of the fifo muxer is set in a step after the
  send that failed (`libavformat/fifo.c`, 548–556). The consumer may take a message and
  check the flag in between; the next packet then enters the queue and is written
  after the gap although it is not a keyframe and `restart_with_keyframe` is set.
* `fifo_rescale`: a packet whose write failed has already been rescaled in place
  (`libavformat/fifo.c:184`) and is rescaled again by the recovery's dispatch.
* `play_autoexit`: `stream_component_open` resets `eof` before the queue of the new
  stream is started (`fftools/ffplay.c:2645`). A reading thread that finds the end of the
  file in between queues a null packet, which the queue refuses because it is aborted,
  and sets `eof` again: the new stream never gets its null packet, its decoder never
  finishes and `-autoexit` never happens. The run uses `-infbuf`, with which the
  reading thread does not wait; another stream that is open and wants packets has
  the same effect.

More observations, which no run is about or which a property states as an exception:

* When the last attempt allowed fails, the fifo muxer does not free the message
  (`libavformat/fifo.c:346`), while every other final failure frees it.
  `LeaksLastAttemptOnly` allows this packet and no other.
* `AVERROR(EAGAIN)` from the actual muxer is taken for "try again later" even after the
  last attempt (`libavformat/fifo.c:377`), so `AttemptsBounded` is stated for muxers
  that do not return it.
* The same error when `attempt_recovery` is off, which is the default, is not an error that
  ends the output: the message is freed (299–301, 357–359) and `fifo_thread_recover`
  tries again (368–383). With `drop_pkts_on_overflow` the packet is lost without a word and
  the output goes on; without it the consumer spins for ever, and a sender on a full queue
  or `fifo_write_trailer` never returns. `CallsReturn` and `NoCallHangs` name this state
  (`Spins`) as their exception, `NothingLost` does not speak of it.
* `audio_thread` ends without a word when a filter fails (`fftools/ffplay.c`, 2086–2091,
  2115) or when no thread could be created (2124–2133): `finished` is never set, so with
  `-autoexit` ffplay stays, and the reading thread waits on a queue nobody empties.
  `PlaybackEnds` and `Autoexit` name this state as their exception; closing still ends.
* With `recovery_wait_streamtime` the time since the last failure is computed only if
  that has no timestamp (`libavformat/fifo.c:314`); otherwise the attempt is enforced
  immediately. `Waited` models this as it is.
* The result of `update_context_from_thread` is ignored in `ff_thread_flush`
  (`libavcodec/pthread_frame.c:886`), after which `ContextChain` makes no claim.
* A drain of `ff_thread_video_encode_frame` returns the same for a frame the encoder
  skipped (`libavcodec/mpegvideo_enc.c:1510`) as at the end. `avcodec_receive_packet`
  makes `AVERROR_EOF` of it (`libavcodec/encode.c`), which `libavcodec/avcodec.h:3239`
  documents as "the encoder has been fully flushed", while frames behind it may be
  left. `OrderedEncoder` allows it, since it gives both cases the same result:
  `ImplementsEncoder` says that a drain leaves no frame's turn out, not that its caller
  can tell which drain was the last.
* `avcodec_open2` does not free the encoder's threads when `codec->init` fails after they
  were created (`libavcodec/utils.c:1019`), and `ff_frame_thread_encoder_free` is called
  with a null fifo when that could not be allocated. Both are before the first call and
  outside the model.

## 6. What could come next

Done, in this order: the message queue, slice threads, frame threads, buffers, the
fifo muxer, the asynchronous reader, ffplay's queues, the encoder's threads. The
most valuable parts left:

1. `RtpReorder` (`libavformat/rtpdec.c`): the reorder queue and its 16-bit sequence
   numbers modulo a small power of two, against a reference order of the packets.
2. `InputThreads` (`fftools/ffmpeg.c`), with `MessageChannel` as its queue and a demuxer
   that ends, fails or stalls.
3. `SliceProgress` (`libavcodec/pthread_slice.c`): the progress of rows over
   `ParallelFor`, with a codec's pattern of waits as a parameter.
4. The second user of ffplay's frame queues, the refresh of video in the main thread.

## 7. Not modelled

See the components with status `not_modelled` in `PROJECT.json`. They are code whose
difficulty lies in data (codecs, parsers, formats, scaling, resampling), sequential
code with local state (RTP reordering, muxer interleaving, the send/receive API, filter
scheduling, `AVFifoBuffer`, buffered I/O), users of a modelled part that add little to it
(input threads, row progress), sequential glue (command line tools, options), vendored
libraries and build scripts. Failures of `malloc` are modelled where they leave a
state behind that later steps meet (submissions of `FrameThread`, threads of
`SliceThread`, frames and workers of `FrameThreadEncoder`), not where the function
undoes everything. The memory model is that of the locks and atomics used: an access
under a mutex, or of an atomic, is one step.
