--------------------------- MODULE AsyncProtocol ---------------------------
(***************************************************************************)
(* libavformat/async.c: the "async:" protocol reads its source ahead, in a *)
(* background thread, into a ring that also keeps some bytes behind the    *)
(* position of the reader, so that short seeks need not disturb the source.*)
(*                                                                         *)
(* The reader's calls come from one thread.  A section between the lock    *)
(* and the unlock (or the wait) of c->mutex is one action; the write into  *)
(* the ring, and the decision of a seek, run without the mutex and are     *)
(* actions of their own.  A byte of the file is its position.              *)
(***************************************************************************)
EXTENDS Integers, Sequences

CONSTANTS
    FileSize,     \* size of the inner file; its bytes are 0..FileSize-1
    Capacity,     \* BUFFER_CAPACITY
    ReadBack,     \* READ_BACK_CAPACITY
    ShortSeek,    \* SHORT_SEEK_THRESHOLD
    Chunk,        \* most bytes written at a time, 4096
    MaxRead,      \* bound: the size of a read
    Targets       \* bound: the positions a caller seeks to

ASSUME AsyncAssumption ==
    /\ FileSize \in Nat /\ ShortSeek \in Nat /\ ReadBack \in Nat
    /\ Capacity \in Nat \ {0} /\ Chunk \in Nat \ {0} /\ MaxRead \in Nat \ {0}
    /\ Targets \subseteq Int

VARIABLES
    opened,          \* the protocol is open
    fifo, read_pos,  \* the RingBuffer: what it holds, how much of it was read
    inner_pos,       \* the position of c->inner
    logical_pos, logical_size,
    seek_request, seek_pos, seek_completed, seek_ret,
    inner_io_error, io_error, io_eof_reached,
    abort_request,
    to_copy, copied, \* the background thread's: what its write still has to read and
                     \* what it has read
    bg,              \* the background thread: where it is
    reader,          \* the reader's thread: outside a call, running, asleep
    call,            \* the call it is in, and the bytes it still has to read
    result           \* what its last call has returned

sourceVars == <<inner_pos, inner_io_error>>
seekVars == <<seek_request, seek_pos, seek_completed, seek_ret>>
ringVars == <<fifo, read_pos>>
ioVars == <<io_error, io_eof_reached>>
chunkVars == <<to_copy, copied>>
readerVars == <<reader, call, result>>
vars == <<opened, fifo, read_pos, inner_pos, logical_pos, logical_size, seek_request,
          seek_pos, seek_completed, seek_ret, inner_io_error, io_error, io_eof_reached,
          abort_request, to_copy, copied, bg, reader, call, result>>

NoCall == [op |-> "none", arg |-> 0]
NoResult == [code |-> "none", data |-> <<>>, pos |-> 0]
Smaller(a, b) == IF a < b THEN a ELSE b

\* ring_size, ring_space and ring_size_of_read_back
RingSize == Len(fifo) - read_pos
RingSpace == Capacity + ReadBack - Len(fifo)

-----------------------------------------------------------------------------
\* A context before async_open; logical_size is not positive when the size of
\* the source is not known.
Init ==
    /\ opened = FALSE
    /\ fifo = <<>> /\ read_pos = 0 /\ inner_pos = 0
    /\ logical_pos = 0 /\ logical_size \in {FileSize, 0}
    /\ seek_request = FALSE /\ seek_pos = 0 /\ seek_completed = FALSE /\ seek_ret = "none"
    /\ inner_io_error = "none" /\ io_error = "none" /\ io_eof_reached = FALSE
    /\ abort_request = FALSE /\ to_copy = 0 /\ copied = 0
    /\ bg = "none" /\ reader = "out" /\ call = NoCall /\ result = NoResult

\* async_open on a fresh context.  Every step of it that fails undoes the steps
\* before.
Open ==
    /\ ~opened /\ opened' = TRUE
    /\ fifo' = <<>> /\ read_pos' = 0 /\ inner_pos' = 0
    /\ logical_pos' = 0 /\ logical_size' \in {FileSize, 0}
    /\ seek_request' = FALSE /\ seek_pos' = 0
    /\ seek_completed' = FALSE /\ seek_ret' = "none"
    /\ inner_io_error' = "none" /\ io_error' = "none" /\ io_eof_reached' = FALSE
    /\ abort_request' = FALSE /\ to_copy' = 0 /\ copied' = 0
    /\ bg' = "running" /\ result' = NoResult
    /\ UNCHANGED <<reader, call>>

\* async_check_interrupt: the callback of the application may answer anything,
\* but once it was heard abort_request stays.  The variant does not keep it.
InterruptForgotten(answer) == UNCHANGED abort_request
Interrupt(answer) ==
    /\ abort_request => answer
    /\ abort_request' = answer

\* pthread_cond_signal of cond_wakeup_main and of cond_wakeup_background; each
\* has one thread that may wait on it.
SignalMain == reader' = IF reader = "asleep" THEN "running" ELSE reader
SignalBackground == bg' = IF bg = "asleep" THEN "running" ELSE bg

-----------------------------------------------------------------------------
\* The background thread, async_buffer_task.

BgExit ==
    /\ bg = "running"
    /\ Interrupt(TRUE)
    /\ io_eof_reached' = TRUE /\ io_error' = "EXIT"
    /\ SignalMain
    /\ bg' = "exited"
    /\ UNCHANGED <<opened, ringVars, sourceVars, logical_pos, logical_size, seekVars,
                   chunkVars, call, result>>

\* ring_reset, and a variant that forgets the bytes behind the reader.
RingRewound == fifo' = <<>> /\ UNCHANGED read_pos
RingReset == fifo' = <<>> /\ read_pos' = 0

\* ffurl_seek of the source fails, or moves it where it was asked to.
BgSeek ==
    /\ bg = "running" /\ Interrupt(FALSE)
    /\ seek_request
    /\ \/ /\ seek_pos <= FileSize
          /\ inner_pos' = seek_pos /\ seek_ret' = "ok"
          /\ io_eof_reached' = FALSE /\ io_error' = "none"
          /\ RingReset
       \/ /\ seek_ret' = "EIO"
          /\ UNCHANGED <<inner_pos, ioVars, ringVars>>
    /\ seek_completed' = TRUE /\ seek_request' = FALSE
    /\ SignalMain
    /\ UNCHANGED <<opened, inner_io_error, logical_pos, logical_size, seek_pos, chunkVars,
                   bg, call, result>>

\* Nothing to read, or no room: wait.
BgWait ==
    /\ bg = "running" /\ Interrupt(FALSE)
    /\ ~seek_request
    /\ io_eof_reached \/ RingSpace <= 0
    /\ SignalMain
    /\ bg' = "asleep"
    /\ UNCHANGED <<opened, ringVars, sourceVars, logical_pos, logical_size, seekVars,
                   ioVars, chunkVars, call, result>>

\* FFMIN(4096, fifo_space), and a variant that takes the whole chunk.
WholeChunk == Chunk
WriteSize == Smaller(Chunk, RingSpace)

\* The room is read under the mutex and used after it is released.
BgClaim ==
    /\ bg = "running" /\ Interrupt(FALSE)
    /\ ~seek_request /\ ~io_eof_reached /\ RingSpace > 0
    /\ to_copy' = WriteSize
    /\ bg' = "writing"
    /\ UNCHANGED <<copied, opened, ringVars, sourceVars, logical_pos, logical_size, seekVars,
                   ioVars, readerVars>>

\* av_fifo_generic_write reads the source until the chunk is full, straight into
\* the memory of the ring, with no mutex held.
BgRead ==
    /\ bg = "writing"
    /\ \E n \in 1..to_copy :
          /\ inner_pos + n <= FileSize
          /\ inner_pos' = inner_pos + n
          /\ to_copy' = to_copy - n /\ copied' = copied + n
          /\ bg' = IF n = to_copy THEN "fetched" ELSE "writing"
    /\ inner_io_error' = "none"
    /\ UNCHANGED <<opened, ringVars, logical_pos, logical_size, seekVars, ioVars,
                   abort_request, readerVars>>

\* A read that fails ends the write; what was read before counts.  At the end of
\* the file the source returns an error or 0; an interrupt ends its reads too.
BgReadFails ==
    /\ bg = "writing"
    /\ inner_io_error' \in
          {"EIO", "EXIT"} \cup IF inner_pos = FileSize THEN {"none", "EOF"} ELSE {}
    /\ IF inner_io_error' = "EXIT" THEN Interrupt(TRUE) ELSE UNCHANGED abort_request
    /\ bg' = "fetched"
    /\ UNCHANGED <<opened, ringVars, inner_pos, logical_pos, logical_size, seekVars, ioVars,
                   chunkVars, readerVars>>

\* The bytes that were read, from where the source stood before them.
BytesFetched == [i \in 1..copied |-> inner_pos - copied + i - 1]

\* The write index moves once, after the loop: only then does the ring hold what
\* was read.  Still no mutex.
BgAppend ==
    /\ bg = "fetched"
    /\ fifo' = fifo \o BytesFetched
    /\ bg' = "written"
    /\ UNCHANGED <<opened, read_pos, sourceVars, logical_pos, logical_size, seekVars, ioVars,
                   abort_request, chunkVars, readerVars>>

BgPublish ==
    /\ bg = "written"
    /\ IF copied = 0
       THEN /\ io_eof_reached' = TRUE
            /\ io_error' = IF inner_io_error # "none" THEN inner_io_error ELSE io_error
       ELSE UNCHANGED ioVars
    /\ SignalMain
    /\ bg' = "running" /\ to_copy' = 0 /\ copied' = 0
    /\ UNCHANGED <<opened, ringVars, sourceVars, logical_pos, logical_size, seekVars,
                   abort_request, call, result>>

Background ==
    \/ BgExit \/ BgSeek \/ BgWait \/ BgClaim \/ BgRead \/ BgReadFails \/ BgAppend \/
       BgPublish

-----------------------------------------------------------------------------
\* The reader.

Return(code, data, pos) ==
    /\ result' = [code |-> code, data |-> data, pos |-> pos]
    /\ reader' = "out" /\ call' = NoCall

\* async_read; async_read_internal's loop does the rest.
Read ==
    /\ opened /\ reader = "out"
    /\ \E size \in 1..MaxRead : call' = [op |-> "read", arg |-> size]
    /\ reader' = "running"
    /\ UNCHANGED <<opened, ringVars, sourceVars, logical_pos, logical_size, seekVars,
                   ioVars, abort_request, chunkVars, bg, result>>

\* ring_generic_read: only what exceeds the read-back capacity leaves the fifo.
RingRead(n) ==
    LET drained == IF read_pos + n > ReadBack THEN read_pos + n - ReadBack ELSE 0 IN
    /\ fifo' = SubSeq(fifo, drained + 1, Len(fifo))
    /\ read_pos' = read_pos + n - drained

\* The loop of async_read_internal, up to its wait or to its end.  A read ends
\* with the first bytes it gets; "skip", the forward seek within the ring, is
\* a read_complete that copies nothing, and its errors are not looked at.
LoopReads ==
    /\ reader = "running" /\ call.op \in {"read", "skip"}
    /\ Interrupt(FALSE)
    /\ RingSize > 0
    /\ LET n == Smaller(call.arg, RingSize) IN
       /\ RingRead(n)
       /\ logical_pos' = logical_pos + n
       /\ \/ call.op = "read" /\ Return("ok", SubSeq(fifo, read_pos + 1, read_pos + n), 0)
          \/ call.op = "skip" /\ n = call.arg /\ Return("ok", <<>>, logical_pos')
          \/ /\ call.op = "skip" /\ n < call.arg
             /\ call' = [call EXCEPT !.arg = @ - n]
             /\ reader' = "asleep"
             /\ UNCHANGED result
    /\ SignalBackground
    /\ UNCHANGED <<opened, sourceVars, logical_size, seekVars, ioVars, chunkVars>>

\* The source is at its end and the ring is empty.  The variant does not look
\* at the ring.
NothingLeftToFetch == io_eof_reached
NothingLeft == RingSize <= 0 /\ io_eof_reached

\* The loop ends with an error: an interrupt, or the end of what the source gives.
LoopEnds ==
    /\ reader = "running" /\ call.op \in {"read", "skip"}
    /\ \E code \in {"EXIT", "EIO", "EOF"} :
          /\ \/ Interrupt(TRUE) /\ code = "EXIT"
             \/ /\ Interrupt(FALSE) /\ NothingLeft
                /\ code = IF io_error # "none" THEN io_error ELSE "EOF"
          /\ IF call.op = "read" THEN Return(code, <<>>, 0) ELSE Return("ok", <<>>, logical_pos)
    /\ SignalBackground
    /\ UNCHANGED <<opened, ringVars, sourceVars, logical_pos, logical_size, seekVars,
                   ioVars, chunkVars>>

LoopWaits ==
    /\ reader = "running" /\ call.op \in {"read", "skip"}
    /\ Interrupt(FALSE)
    /\ RingSize <= 0 /\ ~io_eof_reached
    /\ SignalBackground
    /\ reader' = "asleep"
    /\ UNCHANGED <<opened, ringVars, sourceVars, logical_pos, logical_size, seekVars,
                   ioVars, chunkVars, call, result>>

\* async_seek has been called, with a target it computes from pos and whence.
Seek ==
    /\ opened /\ reader = "out"
    /\ \E target \in Targets : call' = [op |-> "seek", arg |-> target]
    /\ reader' = "running"
    /\ UNCHANGED <<opened, ringVars, sourceVars, logical_pos, logical_size, seekVars,
                   ioVars, abort_request, chunkVars, bg, result>>

\* The window of a fast seek, which reads the ring without the mutex.
Behind(target) == target >= logical_pos - read_pos
Ahead(target) == target < logical_pos + RingSize + ShortSeek
FastSeek(target) == Behind(target) /\ Ahead(target)

\* ring_drain with a negative offset
RingRewind(n) == read_pos' = read_pos - n

SeekHere ==
    /\ reader = "running" /\ call.op = "seek"
    /\ IF call.arg = logical_pos THEN Return("ok", <<>>, logical_pos)
       ELSE /\ \/ call.arg < 0
               \/ ~FastSeek(call.arg) /\ (logical_size <= 0 \/ call.arg > logical_size)
            /\ Return("EINVAL", <<>>, 0)
    /\ UNCHANGED <<opened, ringVars, sourceVars, logical_pos, logical_size, seekVars,
                   ioVars, abort_request, chunkVars, bg>>

SeekBack ==
    /\ reader = "running" /\ call.op = "seek"
    /\ call.arg >= 0 /\ call.arg < logical_pos /\ FastSeek(call.arg)
    /\ RingRewind(logical_pos - call.arg)
    /\ logical_pos' = call.arg
    /\ Return("ok", <<>>, call.arg)
    /\ UNCHANGED <<opened, fifo, sourceVars, logical_size, seekVars, ioVars, abort_request,
                   chunkVars, bg>>

SeekForward ==
    /\ reader = "running" /\ call.op = "seek"
    /\ call.arg > logical_pos /\ FastSeek(call.arg)
    /\ call' = [op |-> "skip", arg |-> call.arg - logical_pos]
    /\ UNCHANGED <<opened, ringVars, sourceVars, logical_pos, logical_size, seekVars,
                   ioVars, abort_request, chunkVars, bg, reader, result>>

SeekSlowly ==
    /\ reader = "running" /\ call.op = "seek"
    /\ call.arg >= 0 /\ call.arg # logical_pos /\ ~FastSeek(call.arg)
    /\ logical_size > 0 /\ call.arg <= logical_size
    /\ call' = [call EXCEPT !.op = "ask"]
    /\ UNCHANGED <<opened, ringVars, sourceVars, logical_pos, logical_size, seekVars,
                   ioVars, abort_request, chunkVars, bg, reader, result>>

\* The request is made and the loop entered under the mutex.
SeekAsks ==
    /\ reader = "running" /\ call.op = "ask"
    /\ seek_request' = TRUE /\ seek_pos' = call.arg
    /\ seek_completed' = FALSE /\ seek_ret' = "none"
    /\ \/ Interrupt(TRUE) /\ Return("EXIT", <<>>, 0) /\ UNCHANGED bg
       \/ /\ Interrupt(FALSE)
          /\ SignalBackground
          /\ call' = [call EXCEPT !.op = "answer"] /\ reader' = "asleep"
          /\ UNCHANGED result
    /\ UNCHANGED <<opened, ringVars, sourceVars, logical_pos, logical_size, ioVars, chunkVars>>

SeekAnswered ==
    /\ reader = "running" /\ call.op = "answer"
    /\ \/ /\ Interrupt(TRUE) /\ Return("EXIT", <<>>, 0)
          /\ UNCHANGED <<logical_pos, bg>>
       \/ /\ Interrupt(FALSE) /\ seek_completed
          /\ IF seek_ret = "ok"
             THEN logical_pos' = seek_pos /\ Return("ok", <<>>, seek_pos)
             ELSE UNCHANGED logical_pos /\ Return(seek_ret, <<>>, 0)
          /\ UNCHANGED bg
       \/ /\ Interrupt(FALSE) /\ ~seek_completed
          /\ SignalBackground
          /\ reader' = "asleep"
          /\ UNCHANGED <<logical_pos, call, result>>
    /\ UNCHANGED <<opened, ringVars, sourceVars, logical_size, seekVars, ioVars, chunkVars>>

\* async_close: abort, then join.
Close ==
    /\ opened /\ reader = "out"
    /\ abort_request' = TRUE
    /\ SignalBackground
    /\ call' = [op |-> "close", arg |-> 0] /\ reader' = "running"
    /\ UNCHANGED <<opened, ringVars, sourceVars, logical_pos, logical_size, seekVars,
                   ioVars, chunkVars, result>>

CloseJoins ==
    /\ call.op = "close" /\ bg = "exited"
    /\ opened' = FALSE /\ bg' = "none"
    /\ reader' = "out" /\ call' = NoCall
    /\ UNCHANGED <<ringVars, sourceVars, logical_pos, logical_size, seekVars, ioVars,
                   abort_request, chunkVars, result>>

\* pthread_cond_wait may return without a signal, in either thread.
SpuriousWakeup ==
    /\ \/ reader = "asleep" /\ reader' = "running" /\ UNCHANGED bg
       \/ bg = "asleep" /\ bg' = "running" /\ UNCHANGED reader
    /\ UNCHANGED <<opened, ringVars, sourceVars, logical_pos, logical_size, seekVars,
                   ioVars, abort_request, chunkVars, call, result>>

ReaderStep ==
    \/ LoopReads \/ LoopEnds \/ LoopWaits
    \/ SeekHere \/ SeekBack \/ SeekForward \/ SeekSlowly \/ SeekAsks \/ SeekAnswered
    \/ CloseJoins

Next == Open \/ Read \/ Seek \/ Close \/ ReaderStep \/ Background \/ SpuriousWakeup

\* Each thread runs, and the mutex is never held for ever, because the reads
\* and seeks of the source return.  No call is obliged to be made.
Fairness == WF_vars(Background) /\ WF_vars(ReaderStep)
Spec == Init /\ [][Next]_vars
FairSpec == Spec /\ Fairness

-----------------------------------------------------------------------------
\* The types of the variables.
TypeOK ==
    /\ opened \in BOOLEAN
    /\ fifo \in Seq(0..(FileSize - 1)) /\ Len(fifo) <= Capacity + ReadBack
    /\ read_pos \in 0..Len(fifo)
    /\ inner_pos \in 0..FileSize /\ logical_pos \in 0..FileSize
    /\ logical_size \in {0, FileSize}
    /\ seek_request \in BOOLEAN /\ seek_completed \in BOOLEAN
    /\ seek_pos \in 0..FileSize /\ seek_ret \in {"none", "ok", "EIO"}
    /\ inner_io_error \in {"none", "EOF", "EIO", "EXIT"}
    /\ io_error \in {"none", "EOF", "EIO", "EXIT"} /\ io_eof_reached \in BOOLEAN
    /\ abort_request \in BOOLEAN
    /\ to_copy \in 0..Chunk /\ copied \in 0..Chunk
    /\ bg \in {"none", "running", "asleep", "writing", "fetched", "written", "exited"}
    /\ reader \in {"out", "running", "asleep"}
    /\ call.op \in {"none", "read", "skip", "seek", "ask", "answer", "close"}

\* The position the ring belongs to: between the moment the background thread
\* has moved the source and the moment the reader learns of it, the new one.
RingOwner ==
    IF call.op = "answer" /\ seek_completed /\ seek_ret = "ok" THEN seek_pos ELSE logical_pos

\* What the write under way has read and the ring does not show yet.
Unseen == IF bg \in {"writing", "fetched"} THEN copied ELSE 0

\* The ring is a window of the file around the position of the reader, and the
\* source stands at its end, or further by what the write under way has read:
\* whatever the seeks and writes that cross, no byte of it is stale and none is
\* missing.  An abort ends this: the ring may then be ahead of a reader who has
\* given up, and is never read again.
RingIsWindowOfFile ==
    opened /\ ~abort_request =>
        /\ inner_pos = RingOwner - read_pos + Len(fifo) + Unseen
        /\ \A i \in 1..Len(fifo) : fifo[i] = RingOwner - read_pos + i - 1

\* The write that is under way fits into the ring, though the room for it was
\* read before the mutex was released (the av_assert2 of ring_generic_write).
WriteFits == bg \in {"writing", "fetched"} => to_copy + copied <= RingSpace
=============================================================================
