---------------------------- MODULE FrameThread ----------------------------
(***************************************************************************)
(* libavcodec/pthread_frame.c: frame threading.  The user's thread hands   *)
(* packet after packet to the slots of a ring of worker threads and takes  *)
(* their frames in the same order.  A worker sets up (reads headers, calls *)
(* back the user for formats and buffers), lets the next packet start,     *)
(* decodes, waiting for the progress of the frame before it.               *)
(*                                                                         *)
(* A loop "while (condition) pthread_cond_wait" whose condition is changed *)
(* under the mutex and followed by a wakeup of its only waiter is a guard. *)
(* The exception is p->progress_cond, on which the worker itself, the      *)
(* user's thread and other workers sleep for different conditions while it *)
(* is sometimes broadcast, sometimes signalled: its sleepers are explicit. *)
(***************************************************************************)
EXTENDS Integers, FiniteSets

CONSTANTS
    N,           \* avctx->thread_count
    MaxPkt,      \* bound: packets submitted between two flushes
    Codecs       \* the kinds of codecs and users

ASSUME NAssumption == N \in Nat /\ N > 1
ASSUME MaxPktAssumption == MaxPkt \in Nat \ {0}
ASSUME CodecsAssumption ==
    /\ Codecs \subseteq
        [has_update : BOOLEAN, callbacks : BOOLEAN, hw : BOOLEAN, async_safe : BOOLEAN,
         delay : BOOLEAN, ffv1 : BOOLEAN]
    \* "the decoder is required to implement update_thread_context()"
    /\ \A c \in Codecs : c.hw => c.has_update

Slots == 0 .. N - 1
User  == N
None  == N + 1
Stale == 0 - 1           \* a codec context that is not the latest one
Lost  == 0 - 2           \* what an update that failed in a flush left, and its copies

VARIABLES
    codec,
    \* FrameThreadContext
    prev_thread, next_decoding, next_finished, delaying, async_lock,
    hwaccel_mutex, buffer_mutex,      \* the slot that holds them, or None
    \* PerThreadContext of each slot
    state, pkt, got_frame, result, hwaccel, hwaccel_serializing,
    async_serializing, die,
    ctx,        \* the submission after which the slot's codec context is current
    progress,   \* the frame the slot decodes has reported all its progress
    \* threads
    wpc,        \* where each worker is
    after,      \* where a worker goes on after ff_thread_finish_setup
    asleep,     \* per thread, the slot on whose progress_cond it sleeps
    upc,        \* where the user's thread is
    empty,      \* the packet of the current call is empty
    finished,   \* the local of ff_thread_decode_frame
    draining,   \* an empty packet was sent since the last flush
    \* history
    accepted,   \* submissions since the last flush; they are numbered from 1
    taken,      \* those whose frame or result the user has taken
    outcome     \* what the last call returned

fctx == <<prev_thread, next_decoding, next_finished, delaying>>
locks == <<async_lock, hwaccel_mutex, buffer_mutex>>
slotVars == <<state, pkt, got_frame, result, hwaccel, hwaccel_serializing,
              async_serializing, die, ctx, progress>>
userVars == <<upc, empty, finished, draining>>
history == <<accepted, taken, outcome>>
vars == <<codec, fctx, locks, slotVars, wpc, after, asleep, userVars, history>>

HasUpdate == codec.has_update  \* the codec has update_thread_context
Callbacks == codec.callbacks   \* get_buffer2 and get_format are the user's and not thread safe
UsesHw == codec.hw             \* the user's get_format may choose a hwaccel
AsyncSafe == codec.async_safe  \* that hwaccel has HWACCEL_CAP_ASYNC_SAFE
Delay == codec.delay           \* AV_CODEC_CAP_DELAY
Ffv1 == codec.ffv1             \* codec_id == AV_CODEC_ID_FFV1

-----------------------------------------------------------------------------
\* The helpers name the threads that sleep on p->progress_cond.
Sleepers(p) == {t \in Slots \cup {User} : asleep[t] = p}
Awake(t) == asleep[t] = None
Broadcast(p) == asleep' = [t \in Slots \cup {User} |->
                              IF asleep[t] = p THEN None ELSE asleep[t]]
SleepOn(t, p) == asleep' = [asleep EXCEPT ![t] = p]

\* ff_frame_thread_init with all its threads created.  A creation that fails at
\* thread i frees the first i + 1 contexts, of which only i have a thread.
Start(created) ==
    /\ prev_thread = None /\ next_decoding = 0 /\ next_finished = 0
    /\ delaying = TRUE /\ async_lock = TRUE
    /\ hwaccel_mutex = None /\ buffer_mutex = None
    /\ state = [p \in Slots |-> "INPUT_READY"]
    /\ pkt = [p \in Slots |-> 0]
    /\ got_frame = [p \in Slots |-> FALSE]
    /\ result = [p \in Slots |-> "ok"]
    /\ hwaccel = [p \in Slots |-> FALSE]
    /\ hwaccel_serializing = [p \in Slots |-> FALSE]
    /\ async_serializing = [p \in Slots |-> FALSE]
    /\ die = [p \in Slots |-> FALSE]
    /\ ctx = [p \in Slots |-> 0]
    /\ progress = [p \in Slots |-> TRUE]
    /\ wpc = [p \in Slots |-> IF p < created THEN "wait" ELSE "none"]
    /\ after = [p \in Slots |-> "decode"]
    /\ asleep = [t \in Slots \cup {User} |-> None]
    /\ upc = IF created = N THEN "out" ELSE "free"
    /\ empty = FALSE /\ finished = 0 /\ draining = FALSE
    /\ accepted = 0 /\ taken = 0 /\ outcome = "none"

Init == codec \in Codecs /\ \E created \in 0..N : Start(created)

-----------------------------------------------------------------------------
(* ff_thread_decode_frame and submit_packet, in the user's thread          *)

Goto(label) == upc' = label

\* The user's thread calls with a packet, or with an empty one to drain.  Once
\* it drains, avcodec_send_packet accepts no packet before a flush.
Decode ==
    /\ upc = "out" /\ accepted < MaxPkt
    /\ \E e \in BOOLEAN :
          /\ draining => e
          /\ empty' = e /\ draining' = e
          /\ Goto(IF e /\ ~Delay THEN "output" ELSE "submit")
    /\ async_lock' = FALSE
    /\ finished' = next_finished
    /\ outcome' = "none"
    /\ UNCHANGED <<codec, fctx, hwaccel_mutex, buffer_mutex, slotVars, wpc, after, asleep,
                   accepted, taken>>

Fail == Goto("finish") /\ outcome' = "error"

\* p->mutex is free once the worker waits for input.  The user's settings are
\* copied (which can fail), and the buffers p was the last user of released
\* under buffer_mutex.
Submit ==
    /\ upc = "submit" /\ wpc[next_decoding] = "wait"
    /\ \/ Fail
       \/ /\ buffer_mutex = None
          /\ Goto(IF prev_thread = None THEN "packet" ELSE "prev")
          /\ UNCHANGED outcome
    /\ UNCHANGED <<codec, fctx, locks, slotVars, wpc, after, asleep, empty, finished,
                   draining, accepted, taken>>

\* The next thread starts from the context of the previous one, once that has
\* finished its setup.  The variant does not wait for it.
PrevReadyAtOnce == TRUE
PrevReady == state[prev_thread] # "SETTING_UP"

UpdateFromPrev ==
    /\ upc = "prev" /\ Awake(User)
    /\ IF ~PrevReady
       THEN /\ SleepOn(User, prev_thread)
            /\ UNCHANGED <<ctx, hwaccel, upc, outcome>>
       ELSE /\ \/ /\ Goto("packet")
                  /\ ctx' = [ctx EXCEPT ![next_decoding] = ctx[prev_thread]]
                  /\ hwaccel' = [hwaccel EXCEPT ![next_decoding] = hwaccel[prev_thread]]
                  /\ UNCHANGED outcome
               \/ /\ Fail   \* no memory, or the codec's update_thread_context fails
                  /\ ctx' = [ctx EXCEPT ![next_decoding] = Stale]
                  /\ UNCHANGED hwaccel
            /\ UNCHANGED asleep
    /\ UNCHANGED <<codec, fctx, locks, state, pkt, got_frame, result, hwaccel_serializing,
                   async_serializing, die, progress, wpc, after, empty, finished,
                   draining, accepted, taken>>

\* While it is delaying, a call returns nothing; it delays until all threads (for
\* FFV1 all but one) have a packet.  The variant counts one packet too many.
FilledLate(n) == n > N
Filled(n) == n > N - 1 - (IF Ffv1 THEN 1 ELSE 0)

\* The end of submit_packet: the call goes on to the output loop, unless the
\* pipeline is still filling up.
Submitted(p) ==
    /\ prev_thread' = p
    /\ next_decoding' = p + 1
    /\ delaying' = (delaying /\ ~Filled(p + 1))
    /\ Goto(IF delaying' /\ ~empty THEN "finish" ELSE "output")

\* av_packet_ref (which can fail), then the worker is started.
StartWorker ==
    /\ upc = "packet"
    /\ LET p == next_decoding IN
       \/ /\ Fail
          /\ UNCHANGED <<fctx, state, pkt, accepted>>
       \/ /\ accepted' = accepted + 1
          /\ pkt' = [pkt EXCEPT ![p] = accepted + 1]
          /\ state' = [state EXCEPT ![p] = "SETTING_UP"]
          /\ IF Callbacks THEN Goto("service") /\ UNCHANGED fctx
             ELSE Submitted(p) /\ UNCHANGED next_finished
          /\ UNCHANGED outcome
    /\ UNCHANGED <<codec, locks, got_frame, result, hwaccel, hwaccel_serializing,
                   async_serializing, die, ctx, progress, wpc, after, asleep, empty,
                   finished, draining, taken>>

\* The user's thread answers get_buffer and get_format for the worker and wakes
\* it with pthread_cond_signal: some sleeper of p->progress_cond.  The variant
\* does not wake anybody.
AnswerSilently(p) == UNCHANGED asleep
Answer(p) ==
    IF Sleepers(p) = {} THEN UNCHANGED asleep
    ELSE \E t \in Sleepers(p) : asleep' = [asleep EXCEPT ![t] = None]

Service ==
    /\ upc = "service" /\ Awake(User)
    /\ LET p == next_decoding IN
       \/ /\ state[p] \in {"SETUP_FINISHED", "INPUT_READY"}
          /\ Submitted(p)
          /\ UNCHANGED <<asleep, state, next_finished>>
       \/ /\ state[p] = "SETTING_UP"
          /\ SleepOn(User, p)
          /\ UNCHANGED <<upc, state, fctx>>
       \/ /\ state[p] \in {"GET_BUFFER", "GET_FORMAT"}
          /\ state' = [state EXCEPT ![p] = "SETTING_UP"]
          /\ Answer(p)
          /\ UNCHANGED <<upc, fctx>>
    /\ UNCHANGED <<codec, locks, pkt, got_frame, result, hwaccel, hwaccel_serializing,
                   async_serializing, die, ctx, progress, wpc, after, empty, finished,
                   draining, history>>

\* "Make sure we don't mistakenly return the same frame/error again."  The
\* variant leaves the frame and the result in the slot.
Keep(q) == UNCHANGED <<got_frame, result>>
Clear(q) ==
    /\ got_frame' = [got_frame EXCEPT ![q] = FALSE]
    /\ result' = [result EXCEPT ![q] = "ok"]

\* Whether the loop goes on to the next slot: only at the end of the stream, and
\* never past a frame or an error, "because we don't want to accidentally signal
\* EOF".  The variant always stops at the first slot.
GoOnNever(q, next) == FALSE
GoOn(q, next) == empty /\ ~got_frame[q] /\ result[q] = "ok" /\ next # next_finished

\* The ring's next slot.  The variant does not wrap.
SlotAfterNoWrap(q) == q + 1
SlotAfter(q) == IF q + 1 >= N THEN 0 ELSE q + 1

\* One round of the output loop: wait for the slot, take its frame and result.
Output ==
    /\ upc = "output" /\ state[finished] = "INPUT_READY"
    /\ LET q == finished
           next == SlotAfter(finished) IN
       /\ Clear(q)
       /\ taken' = IF pkt[q] > taken THEN pkt[q] ELSE taken
       /\ finished' = next
       /\ IF GoOn(q, next)
          THEN UNCHANGED <<upc, outcome, next_decoding, next_finished>>
          ELSE /\ Goto("finish")
               /\ outcome' = IF result[q] # "ok" THEN "error"
                             ELSE IF got_frame[q] THEN "frame"
                             ELSE IF empty THEN "eof" ELSE "none"
               /\ next_decoding' = IF next_decoding >= N THEN 0 ELSE next_decoding
               /\ next_finished' = next
    /\ UNCHANGED <<codec, prev_thread, delaying, locks, state, pkt, hwaccel, hwaccel_serializing,
                   async_serializing, die, ctx, progress, wpc, after, asleep, empty,
                   draining, accepted>>

\* async_lock: the call returns only when no hwaccel that is not async safe runs.
\* The variant does not take the lock back.
TakeAsyncNever == UNCHANGED async_lock
TakeAsync == async_lock' = TRUE

Finish ==
    /\ upc = "finish" /\ ~async_lock
    /\ TakeAsync
    /\ Goto("out")
    /\ empty' = FALSE
    /\ UNCHANGED <<codec, fctx, hwaccel_mutex, buffer_mutex, slotVars, wpc, after, asleep,
                   finished, draining, history>>

-----------------------------------------------------------------------------
(* ff_thread_flush and ff_frame_thread_free                                *)

\* park_frame_worker_threads: unlock async_lock, wait until every thread awaits
\* input, lock again.  No thread leaves that state meanwhile, so the order in
\* which the threads are waited for does not matter.
Park ==
    /\ upc \in {"out", "free"}
    /\ \/ Goto("parkFlush") /\ upc = "out"
       \/ Goto("parkFree")
    /\ async_lock' = FALSE
    /\ UNCHANGED <<codec, fctx, hwaccel_mutex, buffer_mutex, slotVars, wpc, after, asleep,
                   empty, finished, draining, history>>

Parked == \A p \in Slots : state[p] = "INPUT_READY"

\* The context a flush leaves in slot 0, where decoding starts again.  The
\* variant forgets to bring it up to date.
FlushContextOld == ctx[0]
FlushContext == IF prev_thread = None THEN ctx[0] ELSE ctx[prev_thread]

\* ff_thread_flush after its park, up to its return.  Submissions are numbered
\* from 1 again; a context current at the flush is context 0.  The result of
\* the update is ignored.
Flush ==
    /\ upc = "parkFlush" /\ Parked /\ ~async_lock
    /\ buffer_mutex = None
    /\ async_lock' = TRUE
    /\ \E current \in {IF FlushContext = accepted THEN 0
                         ELSE IF FlushContext = Lost THEN Lost ELSE Stale}
                       \cup (IF prev_thread \in {None, 0} THEN {} ELSE {Lost}) :
          ctx' = [p \in Slots |-> IF p = 0 THEN current ELSE Stale]
    /\ hwaccel' = [hwaccel EXCEPT ![0] = IF prev_thread = None THEN @ ELSE hwaccel[prev_thread]]
    /\ next_decoding' = 0 /\ next_finished' = 0 /\ finished' = 0
    /\ delaying' = TRUE /\ prev_thread' = None
    /\ got_frame' = [p \in Slots |-> FALSE]
    /\ result' = [p \in Slots |-> "ok"]
    /\ pkt' = [p \in Slots |-> 0]
    /\ draining' = FALSE
    /\ accepted' = 0 /\ taken' = 0 /\ outcome' = "none"
    /\ Goto("out")
    /\ UNCHANGED <<codec, hwaccel_mutex, buffer_mutex, state, hwaccel_serializing,
                   async_serializing, die, progress, wpc, after, asleep, empty>>

\* ff_frame_thread_free: every thread is told to die and joined, one by one.
Kill(p) ==
    /\ die' = [die EXCEPT ![p] = TRUE]
    /\ UNCHANGED <<codec, fctx, locks, state, pkt, got_frame, result, hwaccel, hwaccel_serializing,
                   async_serializing, ctx, progress, wpc, after, asleep, userVars, history>>

FreeStep ==
    /\ upc = "parkFree" /\ Parked /\ ~async_lock
    /\ \E p \in Slots : /\ wpc[p] = "wait" /\ ~die[p]
                        /\ \A q \in Slots : q < p => wpc[q] = "none"
                        /\ Kill(p)

Freed ==
    /\ upc = "parkFree" /\ Parked /\ ~async_lock
    /\ \A p \in Slots : wpc[p] = "none"
    /\ Goto("freed")
    /\ async_lock' = TRUE
    /\ UNCHANGED <<codec, fctx, hwaccel_mutex, buffer_mutex, slotVars, wpc, after, asleep,
                   empty, finished, draining, history>>

-----------------------------------------------------------------------------
(* frame_worker_thread and what the codec calls from it                    *)

At(w, label) == wpc[w] = label
Step(w, label) == wpc' = [wpc EXCEPT ![w] = label]

\* A packet has come: a codec without update_thread_context, and with callbacks
\* that are thread safe, lets the next thread start at once.
TakeInput(w) ==
    /\ At(w, "wait") /\ state[w] # "INPUT_READY" /\ ~die[w]
    /\ Step(w, IF ~HasUpdate /\ ~Callbacks THEN "finishSetup"
               ELSE IF hwaccel[w] THEN "lockHw" ELSE "format")
    /\ got_frame' = [got_frame EXCEPT ![w] = FALSE]
    /\ progress' = [progress EXCEPT ![w] = FALSE]
    /\ UNCHANGED <<codec, fctx, locks, state, pkt, result, hwaccel, hwaccel_serializing,
                   async_serializing, die, ctx, after, asleep, userVars, history>>

Die(w) ==
    /\ At(w, "wait") /\ die[w]
    /\ Step(w, "none")
    /\ UNCHANGED <<codec, fctx, locks, slotVars, after, asleep, userVars, history>>

\* The previous thread used a hwaccel: serialize with it before decoding.  The
\* variant goes on without the lock.
TakeHwNever(w) == UNCHANGED hwaccel_mutex
TakeHw(w) == hwaccel_mutex = None /\ hwaccel_mutex' = w

LockHw(w) ==
    /\ At(w, "lockHw")
    /\ TakeHw(w)
    /\ hwaccel_serializing' = [hwaccel_serializing EXCEPT ![w] = TRUE]
    /\ Step(w, "format")
    /\ UNCHANGED <<codec, fctx, async_lock, buffer_mutex, state, pkt, got_frame, result, hwaccel,
                   async_serializing, die, ctx, progress, after, asleep, userVars, history>>

\* ff_thread_get_format, or none: the user's thread is asked if its callback is
\* not thread safe.
GetFormat(w) ==
    /\ At(w, "format")
    /\ \/ /\ Step(w, "buffer")
          /\ hwaccel' \in IF UsesHw /\ ~Callbacks
                          THEN {[hwaccel EXCEPT ![w] = b] : b \in BOOLEAN}
                          ELSE {hwaccel}
          /\ UNCHANGED <<state, asleep>>
       \/ /\ Callbacks
          /\ state' = [state EXCEPT ![w] = "GET_FORMAT"]
          /\ Broadcast(w)
          /\ Step(w, "askFormat")
          /\ UNCHANGED hwaccel
    /\ UNCHANGED <<codec, fctx, locks, pkt, got_frame, result, hwaccel_serializing,
                   async_serializing, die, ctx, progress, after, userVars, history>>

FormatAnswered(w) ==
    /\ At(w, "askFormat") /\ Awake(w)
    /\ IF state[w] # "SETTING_UP"
       THEN SleepOn(w, w) /\ UNCHANGED <<wpc, hwaccel>>
       ELSE /\ Step(w, "buffer")
            /\ hwaccel' \in IF UsesHw THEN {[hwaccel EXCEPT ![w] = b] : b \in BOOLEAN}
                            ELSE {hwaccel}
            /\ UNCHANGED asleep
    /\ UNCHANGED <<codec, fctx, locks, state, pkt, got_frame, result, hwaccel_serializing,
                   async_serializing, die, ctx, progress, after, userVars, history>>

\* ff_thread_get_buffer under buffer_mutex, by the worker or by the user's
\* thread.  Without update_thread_context the answer also ends the setup.
GetBuffer(w) ==
    /\ At(w, "buffer") /\ buffer_mutex = None
    /\ IF Callbacks
       THEN /\ buffer_mutex' = w
            /\ state' = [state EXCEPT ![w] = "GET_BUFFER"]
            /\ Broadcast(w)
            /\ Step(w, "askBuffer")
       ELSE /\ Step(w, "handover")
            /\ UNCHANGED <<buffer_mutex, state, asleep>>
    /\ UNCHANGED <<codec, fctx, async_lock, hwaccel_mutex, pkt, got_frame, result, hwaccel,
                   hwaccel_serializing, async_serializing, die, ctx, progress, after,
                   userVars, history>>

BufferAnswered(w) ==
    /\ At(w, "askBuffer") /\ Awake(w)
    /\ IF state[w] # "SETTING_UP"
       THEN SleepOn(w, w) /\ UNCHANGED <<wpc, buffer_mutex>>
       ELSE /\ IF HasUpdate THEN Step(w, "handover") /\ buffer_mutex' = None
               ELSE Step(w, "finishSetup") /\ UNCHANGED buffer_mutex
            /\ UNCHANGED asleep
    /\ UNCHANGED <<codec, fctx, async_lock, hwaccel_mutex, slotVars, after, userVars, history>>

\* The codec's context now holds what the packet changed in it.
Advance(w) == ctx' = [ctx EXCEPT ![w] = IF @ = Lost THEN Lost
                                       ELSE IF @ = pkt[w] - 1 THEN pkt[w] ELSE Stale]

\* The codec calls ff_thread_finish_setup, or returns without having done so:
\* then the worker calls it for the codec.
LeaveSetup(w) ==
    /\ At(w, "handover") \/ At(w, "buffer")
    /\ Step(w, "finishSetup")
    /\ Advance(w)
    /\ \/ /\ At(w, "handover")
          /\ UNCHANGED <<after, result>>
       \/ /\ after' = [after EXCEPT ![w] = "unlockHw"]
          /\ \E r \in {"ok", "error"} : result' = [result EXCEPT ![w] = r]
    /\ UNCHANGED <<codec, fctx, locks, state, pkt, got_frame, hwaccel, hwaccel_serializing,
                   async_serializing, die, progress, asleep, userVars, history>>

\* ff_thread_finish_setup: hwaccel_mutex first, then async_lock, then the state.
FinishSetupHw(w) ==
    /\ At(w, "finishSetup")
    /\ IF hwaccel[w] /\ ~hwaccel_serializing[w]
       THEN /\ TakeHw(w)
            /\ hwaccel_serializing' = [hwaccel_serializing EXCEPT ![w] = TRUE]
       ELSE UNCHANGED <<hwaccel_mutex, hwaccel_serializing>>
    /\ Step(w, "finishAsync")
    /\ UNCHANGED <<codec, fctx, async_lock, buffer_mutex, state, pkt, got_frame, result, hwaccel,
                   async_serializing, die, ctx, progress, after, asleep, userVars, history>>

\* The variant takes every hwaccel for an async safe one.
NeedsAsyncNever(w) == FALSE
NeedsAsync(w) == hwaccel[w] /\ ~AsyncSafe

\* async_serializing is set before the lock is taken; only its own thread reads it.
FinishSetupAsync(w) ==
    /\ At(w, "finishAsync")
    /\ IF NeedsAsync(w)
       THEN /\ ~async_lock
            /\ async_lock' = TRUE
            /\ async_serializing' = [async_serializing EXCEPT ![w] = TRUE]
       ELSE UNCHANGED <<async_lock, async_serializing>>
    /\ Step(w, "finishState")
    /\ UNCHANGED <<codec, fctx, hwaccel_mutex, buffer_mutex, state, pkt, got_frame, result,
                   hwaccel, hwaccel_serializing, die, ctx, progress, after, asleep,
                   userVars, history>>

\* The state changes and all sleepers wake up; if this ran inside get_buffer,
\* that returns and unlocks buffer_mutex.
FinishSetupState(w) ==
    /\ At(w, "finishState")
    /\ state' = [state EXCEPT ![w] = "SETUP_FINISHED"]
    /\ Broadcast(w)
    /\ buffer_mutex' = IF buffer_mutex = w THEN None ELSE buffer_mutex
    /\ Step(w, after[w]) /\ after' = [after EXCEPT ![w] = "decode"]
    /\ UNCHANGED <<codec, fctx, async_lock, hwaccel_mutex, pkt, got_frame, result, hwaccel,
                   hwaccel_serializing, async_serializing, die, ctx, progress,
                   userVars, history>>

\* ff_thread_await_progress on the frame of the submission before, whose owner
\* is the slot before, unless that frame needs no reference.
Owner(w) == (w + N - 1) % N
\* The variant waits for whatever the owner decodes now.
RefDoneOwner(w) == progress[Owner(w)]
RefDone(w) == pkt[Owner(w)] # pkt[w] - 1 \/ progress[Owner(w)]

AwaitProgress(w) ==
    /\ At(w, "decode") /\ Awake(w)
    /\ \/ /\ ~HasUpdate \/ pkt[w] = 1 \/ RefDone(w)
          /\ Step(w, "report")
          /\ UNCHANGED asleep
       \/ /\ HasUpdate /\ pkt[w] # 1 /\ ~RefDone(w)
          /\ SleepOn(w, Owner(w))
          /\ UNCHANGED wpc
    /\ UNCHANGED <<codec, fctx, locks, slotVars, after, userVars, history>>

\* ff_thread_report_progress; a codec reports every frame to its end, also the
\* frames it fails on.

ReportProgress(w) ==
    /\ At(w, "report")
    /\ progress' = [progress EXCEPT ![w] = TRUE]
    /\ Broadcast(w)
    /\ Step(w, "return")
    /\ UNCHANGED <<codec, fctx, locks, state, pkt, got_frame, result, hwaccel, hwaccel_serializing,
                   async_serializing, die, ctx, after, userVars, history>>

\* codec->decode returns a frame, nothing, or an error.
DecodeReturns(w) ==
    /\ At(w, "return")
    /\ \E g \in BOOLEAN, r \in {"ok", "error"} :
          /\ g => r = "ok"
          /\ got_frame' = [got_frame EXCEPT ![w] = g]
          /\ result' = [result EXCEPT ![w] = r]
    /\ Step(w, "unlockHw")
    /\ UNCHANGED <<codec, fctx, locks, state, pkt, hwaccel, hwaccel_serializing, async_serializing,
                   die, ctx, progress, after, asleep, userVars, history>>

UnlockHw(w) ==
    /\ At(w, "unlockHw")
    /\ hwaccel_serializing' = [hwaccel_serializing EXCEPT ![w] = FALSE]
    /\ hwaccel_mutex' = IF hwaccel_serializing[w] THEN None ELSE hwaccel_mutex
    /\ Step(w, "unlockAsync")
    /\ UNCHANGED <<codec, fctx, async_lock, buffer_mutex, state, pkt, got_frame, result, hwaccel,
                   async_serializing, die, ctx, progress, after, asleep, userVars, history>>

UnlockAsync(w) ==
    /\ At(w, "unlockAsync")
    /\ async_serializing' = [async_serializing EXCEPT ![w] = FALSE]
    /\ async_lock' = IF async_serializing[w] THEN FALSE ELSE async_lock
    /\ Step(w, "ready")
    /\ UNCHANGED <<codec, fctx, hwaccel_mutex, buffer_mutex, state, pkt, got_frame, result, hwaccel,
                   hwaccel_serializing, die, ctx, progress, after, asleep, userVars, history>>

\* INPUT_READY under progress_mutex; the worker still holds p->mutex.
Ready(w) ==
    /\ At(w, "ready")
    /\ state' = [state EXCEPT ![w] = "INPUT_READY"]
    /\ progress' = [progress EXCEPT ![w] = TRUE]
    /\ Broadcast(w)
    /\ Step(w, "loop")
    /\ UNCHANGED <<codec, fctx, locks, pkt, got_frame, result, hwaccel, hwaccel_serializing,
                   async_serializing, die, ctx, after, userVars, history>>

AwaitInput(w) ==
    /\ At(w, "loop")
    /\ Step(w, "wait")
    /\ UNCHANGED <<codec, fctx, locks, slotVars, after, asleep, userVars, history>>

SpuriousWakeup(t) ==
    /\ ~Awake(t)
    /\ asleep' = [asleep EXCEPT ![t] = None]
    /\ UNCHANGED <<codec, fctx, locks, slotVars, wpc, after, userVars, history>>

-----------------------------------------------------------------------------
WorkerStep(w) ==
    \/ TakeInput(w) \/ Die(w) \/ LockHw(w)
    \/ GetFormat(w) \/ FormatAnswered(w) \/ GetBuffer(w) \/ BufferAnswered(w)
    \/ LeaveSetup(w) \/ FinishSetupHw(w) \/ FinishSetupAsync(w) \/ FinishSetupState(w)
    \/ AwaitProgress(w) \/ ReportProgress(w) \/ DecodeReturns(w)
    \/ UnlockHw(w) \/ UnlockAsync(w) \/ Ready(w) \/ AwaitInput(w)

\* The steps by which the user's thread goes on with the call it is in.
CallStep ==
    \/ Submit \/ UpdateFromPrev \/ StartWorker \/ Service \/ Output \/ Finish
    \/ Flush \/ FreeStep \/ Freed
    \/ upc = "free" /\ Park

\* Nothing happens once the decoder has been closed.
Closed == upc = "freed" /\ UNCHANGED vars

Next ==
    \/ Decode
    \/ upc = "out" /\ Park
    \/ CallStep
    \/ \E w \in Slots : WorkerStep(w)
    \/ \E t \in Slots \cup {User} : SpuriousWakeup(t)
    \/ Closed

\* Threads are scheduled and the codec returns from its calls.  Fairness is strong
\* because a thread that waits for a mutex gets it if it is free again and again;
\* all other waits are for conditions that stay true.  The user need not make
\* another call.
Fairness == SF_vars(CallStep) /\ \A w \in Slots : SF_vars(WorkerStep(w))

Spec == Init /\ [][Next]_vars
FairSpec == Spec /\ Fairness

-----------------------------------------------------------------------------
\* The types of the variables.
TypeOK ==
    /\ codec \in Codecs
    /\ prev_thread \in Slots \cup {None} /\ next_decoding \in 0..N
    /\ next_finished \in Slots /\ finished \in Slots
    /\ {delaying, async_lock, empty, draining} \subseteq BOOLEAN
    /\ hwaccel_mutex \in Slots \cup {None} /\ buffer_mutex \in Slots \cup {None}
    /\ state \in [Slots -> {"INPUT_READY", "SETTING_UP", "GET_BUFFER", "GET_FORMAT",
                            "SETUP_FINISHED"}]
    /\ pkt \in [Slots -> 0..MaxPkt] /\ ctx \in [Slots -> Lost..MaxPkt]
    /\ result \in [Slots -> {"ok", "error"}]
    /\ \A f \in {got_frame, hwaccel, hwaccel_serializing, async_serializing, die, progress} :
          f \in [Slots -> BOOLEAN]
    /\ wpc \in [Slots -> {"none", "wait", "lockHw", "format", "askFormat", "buffer",
                          "askBuffer", "handover", "finishSetup", "finishAsync",
                          "finishState", "decode", "report", "return", "unlockHw",
                          "unlockAsync", "ready", "loop"}]
    /\ after \in [Slots -> {"decode", "unlockHw"}]
    /\ asleep \in [Slots \cup {User} -> Slots \cup {None}]
    /\ upc \in {"out", "submit", "prev", "packet", "service", "output", "finish",
                "parkFlush", "parkFree", "free", "freed"}
    /\ accepted \in 0..MaxPkt /\ taken \in 0..MaxPkt
    /\ outcome \in {"none", "frame", "eof", "error"}

\* Every submission the user has not taken is in the ring, and the output loop
\* reaches them in their order from where it stands.  No packet is put into a slot
\* whose frame was not taken, though only next_decoding, next_finished and
\* delaying together limit the number in flight.
Distance(p) == (p + N - (IF upc = "output" THEN finished ELSE next_finished)) % N
RingInOrder ==
    /\ \A k \in taken + 1 .. accepted :
          \E p \in Slots : /\ pkt[p] = k
                          /\ \A q \in Slots : pkt[q] > k => Distance(q) > Distance(p)
    /\ upc \in {"submit", "prev", "packet"} =>
          next_decoding \in Slots /\ pkt[next_decoding] <= taken

\* ff_thread_decode_frame reports the end of the stream only when nothing is left
\* in any thread.
EofMeansEmpty ==
    outcome = "eof" => /\ taken = accepted
                       /\ \A p \in Slots : state[p] = "INPUT_READY" /\ ~got_frame[p]

\* Frames are returned in the order of their packets and none is returned twice,
\* also across failed calls; a flush starts afresh, and no frame from before it
\* comes out after it.
FramesInOrder ==
    [][(upc = "output" /\ upc' = "finish" /\ outcome' = "frame") => taken' > taken]_vars

\* Every packet is decoded with the context its predecessor left, although that
\* is still being decoded by another thread, and also over failed submissions
\* and flushes.
ContextChain ==
    HasUpdate => \A p \in Slots :
        wpc[p] \in {"format", "askFormat", "buffer", "askBuffer", "handover", "decode",
                    "report", "return"} =>
            ctx[p] \in {Lost, pkt[p] - (IF state[p] = "SETUP_FINISHED" THEN 0 ELSE 1)}

\* The workers in the part of the codec that may use the hwaccel.
InHw == {w \in Slots : hwaccel[w] /\ wpc[w] \in {"decode", "report", "return"}}

\* Decoding with a hwaccel is serialized between the threads, and if the hwaccel
\* is not async safe it does not overlap with the user's own code either.
HwaccelSerialized ==
    /\ Cardinality(InHw) <= 1
    /\ (InHw # {} /\ ~AsyncSafe) => upc # "out"

\* async_lock has exactly one holder, so av_assert0(fctx->async_lock) in
\* async_unlock cannot fail: the user's thread outside its calls, or one worker.
AsyncLockOwned ==
    Cardinality({w \in Slots : async_serializing[w]}) + (IF upc \in {"out", "free", "freed"} THEN 1 ELSE 0)
        = IF async_lock THEN 1 ELSE 0

\* What a thread waits for has come: a mutex, a packet, an answer, the setup or
\* the progress of another slot.
UserGoesOn ==
    \/ upc \in {"packet", "free"}
    \/ upc = "submit" /\ wpc[next_decoding] = "wait" /\ buffer_mutex = None
    \/ upc = "prev" /\ PrevReady
    \/ upc = "service" /\ state[next_decoding] # "SETTING_UP"
    \/ upc = "output" /\ state[finished] = "INPUT_READY"
    \/ upc = "finish" /\ ~async_lock
    \/ upc = "parkFlush" /\ Parked /\ ~async_lock /\ buffer_mutex = None
    \/ /\ upc = "parkFree" /\ Parked /\ ~async_lock
       /\ \/ \A p \in Slots : wpc[p] = "none"
          \/ \E p \in Slots : /\ wpc[p] = "wait" /\ ~die[p]
                              /\ \A q \in Slots : q < p => wpc[q] = "none"
WorkerGoesOn(w) ==
    \/ wpc[w] \in {"format", "handover", "finishState", "report", "return", "unlockHw",
                   "unlockAsync", "ready", "loop"}
    \/ wpc[w] = "wait" /\ (die[w] \/ state[w] # "INPUT_READY")
    \/ wpc[w] = "lockHw" /\ hwaccel_mutex = None
    \/ wpc[w] \in {"askFormat", "askBuffer"} /\ state[w] = "SETTING_UP"
    \/ wpc[w] = "buffer" /\ buffer_mutex = None
    \/ wpc[w] = "finishSetup" /\ (hwaccel[w] /\ ~hwaccel_serializing[w] => hwaccel_mutex = None)
    \/ wpc[w] = "finishAsync" /\ (NeedsAsync(w) => ~async_lock)
    \/ wpc[w] = "decode" /\ (~HasUpdate \/ pkt[w] = 1 \/ RefDone(w))

\* No wakeup is lost, although progress_cond is shared and a callback is answered
\* with pthread_cond_signal: nobody sleeps once what it waits for has come.
NoWakeupLost ==
    /\ ~Awake(User) => ~UserGoesOn
    /\ \A w \in Slots : ~Awake(w) => ~WorkerGoesOn(w)

\* In every call some thread goes on: the waits of the threads for each other and
\* for the three locks never close a circle.
NoCallHangs ==
    /\ NoWakeupLost
    /\ upc \notin {"out", "freed"} => UserGoesOn \/ \E w \in Slots : WorkerGoesOn(w)

\* Every call returns: no deadlock between callbacks, progress and locks.
CallsReturn == upc \notin {"out", "freed"} ~> upc \in {"out", "freed"}
=============================================================================
