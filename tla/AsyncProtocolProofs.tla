------------------------- MODULE AsyncProtocolProofs -------------------------
(***************************************************************************)
(* Theorems about AsyncProtocol, for every size of the file, of the ring,  *)
(* of the read-back, of the chunks and of the reads.                       *)
(***************************************************************************)
EXTENDS AsyncProtocolMC, SequenceTheorems, TLAPS

Positions == 0..FileSize
Bytes == 0..(FileSize - 1)
Calls == [op : {"none", "read", "skip", "seek", "ask", "answer", "close"}, arg : Int]

\* The call in progress: there is none while the reader is
\* outside or the protocol closed; it has something left to read, it asks for a position of
\* the file; and a seek that is requested is that of a reader who waits for it.
CallInv ==
    /\ call \in Calls
    /\ reader = "out" \/ ~opened => call = NoCall
    /\ call.op \in {"read", "skip"} => call.arg > 0
    /\ call.op = "ask" => call.arg \in Positions
    /\ opened /\ ~abort_request /\ seek_request => call.op = "answer" /\ ~seek_completed

\* The write under way: it fits, and it never exceeds a chunk.
WriteInv ==
    /\ WriteFits
    /\ to_copy + copied <= Chunk
    /\ bg \notin {"writing", "fetched", "written"} => copied = 0
    /\ copied <= inner_pos

\* The inductive invariant.
RingInv == TypeOK /\ RingIsWindowOfFile /\ CallInv /\ WriteInv

\* What the ring invariants are about stays as it is.
RingUntouched ==
    /\ UNCHANGED <<fifo, read_pos, inner_pos>>
    /\ RingOwner' = RingOwner /\ Unseen' = Unseen
    /\ opened' /\ ~abort_request' => opened /\ ~abort_request

-----------------------------------------------------------------------------
\* The ring is not longer than its capacity, and what is to be read is a number.
LEMMA Sizes ==
    ASSUME TypeOK
    PROVE  /\ Len(fifo) \in Nat /\ RingSize \in Nat /\ RingSpace \in Nat
           /\ RingOwner \in Positions
<1>1. Len(fifo) \in Nat
  BY LenProperties DEF TypeOK
<1> QED
  BY <1>1, AsyncAssumption DEF TypeOK, RingSize, RingSpace, RingOwner, Positions

LEMMA InCall ==
    ASSUME CallInv, call.op # "none"
    PROVE  opened
BY DEF CallInv, NoCall

\* A step that leaves the ring and its owner alone keeps the window.
LEMMA WindowKept ==
    ASSUME RingIsWindowOfFile, RingUntouched
    PROVE  RingIsWindowOfFile'
BY DEF RingIsWindowOfFile, RingUntouched, Unseen

\* Bytes read from the source at its position and appended to the ring.
LEMMA AppendedBytes ==
    ASSUME NEW S, NEW s \in Seq(S), NEW p \in Int, NEW n \in Nat,
           \A i \in 1..n : p + i - 1 \in S
    PROVE  LET t == s \o [i \in 1..n |-> p + i - 1] IN
           /\ t \in Seq(S) /\ Len(t) = Len(s) + n
           /\ \A i \in 1..(Len(s) + n) :
                 t[i] = IF i <= Len(s) THEN s[i] ELSE p + (i - Len(s)) - 1
<1> DEFINE u == [i \in 1..n |-> p + i - 1]
<1>1. u \in Seq(S) /\ Len(u) = n /\ \A i \in 1..n : u[i] = p + i - 1
  OBVIOUS
<1> HIDE DEF u
<1>2. /\ s \o u \in Seq(S) /\ Len(s \o u) = Len(s) + Len(u)
      /\ \A i \in 1..(Len(s) + Len(u)) :
            (s \o u)[i] = IF i <= Len(s) THEN s[i] ELSE u[i - Len(s)]
  BY <1>1, ConcatProperties
<1>3. Len(s) \in Nat
  BY LenProperties
<1>4. \A i \in 1..(Len(s) + n) : i > Len(s) => i - Len(s) \in 1..n
  BY <1>3
<1>5. \A i \in 1..(Len(s) + n) : i > Len(s) => u[i - Len(s)] = p + (i - Len(s)) - 1
  BY <1>1, <1>4
<1>6. \A i \in 1..(Len(s) + n) :
          (s \o u)[i] = IF i <= Len(s) THEN s[i] ELSE p + (i - Len(s)) - 1
  BY <1>1, <1>2, <1>3, <1>5
<1> QED
  BY <1>1, <1>2, <1>6 DEF u

-----------------------------------------------------------------------------
\* The background thread.

LEMMA BgExitStep ==
    ASSUME RingInv, BgExit
    PROVE  RingInv'
<1> USE DEF RingInv, BgExit, Interrupt, ringVars, sourceVars, seekVars, chunkVars, SignalMain
<1>1. TypeOK'
  BY DEF TypeOK
<1>2. RingIsWindowOfFile'
  BY DEF RingIsWindowOfFile, Unseen
<1>3. CallInv' /\ WriteInv'
  BY DEF CallInv, WriteInv, WriteFits, RingSpace, Calls
<1> QED
  BY <1>1, <1>2, <1>3

\* The seek a reader waits for: the ring then belongs to the position sought.
LEMMA BgSeekStep ==
    ASSUME RingInv, BgSeek
    PROVE  RingInv'
<1> USE DEF RingInv, BgSeek, Interrupt, ringVars, ioVars, chunkVars, SignalMain
<1>1. seek_request /\ ~abort_request /\ ~abort_request' /\ UNCHANGED <<opened, call, bg>>
  OBVIOUS
<1>2. CASE seek_ret' = "ok" /\ inner_pos' = seek_pos /\ seek_pos <= FileSize /\ RingReset
           /\ io_eof_reached' = FALSE /\ io_error' = "none"
  <2>1. fifo' = <<>> /\ Len(fifo') = 0 /\ fifo' \in Seq(Bytes) /\ read_pos' = 0
    BY <1>2, EmptySeq DEF RingReset
  <2>2. fifo' \in Seq(0..(FileSize - 1)) /\ Len(fifo') <= Capacity + ReadBack
        /\ read_pos' \in 0..Len(fifo')
    BY <2>1, AsyncAssumption DEF Bytes
  <2>3. inner_pos' \in 0..FileSize
    BY <1>2 DEF TypeOK
  <2>4. TypeOK'
    <3>1. UNCHANGED <<opened, inner_io_error, logical_pos, logical_size, seek_pos, to_copy,
                      copied, bg, call>>
      OBVIOUS
    <3> QED
      BY <1>1, <1>2, <3>1, <2>2, <2>3 DEF TypeOK
  <2>5. RingIsWindowOfFile'
    BY <1>1, <1>2, <2>1 DEF RingIsWindowOfFile, RingOwner, CallInv, TypeOK, Unseen
  <2>6. CallInv'
    BY <1>1 DEF CallInv
  <2>7. WriteInv'
    BY <1>1, <1>2, <2>1, <2>3 DEF WriteInv, WriteFits, TypeOK
  <2> QED
    BY <2>4, <2>5, <2>6, <2>7
<1>3. CASE seek_ret' = "EIO" /\ UNCHANGED <<inner_pos, ioVars, ringVars>>
  <2>0. UNCHANGED <<inner_pos, io_error, io_eof_reached, fifo, read_pos>>
    BY <1>3
  <2>1. TypeOK'
    BY <2>0, <1>1, <1>3 DEF TypeOK
  <2>2. opened => RingOwner' = RingOwner
    BY <1>1, <1>3 DEF RingOwner, CallInv
  <2>3. RingIsWindowOfFile'
    BY <1>1, <1>3, <2>2 DEF RingIsWindowOfFile, Unseen
  <2>4. CallInv'
    BY <1>1 DEF CallInv
  <2>5. WriteInv'
    BY <1>1, <1>3 DEF WriteInv, WriteFits, RingSpace
  <2> QED
    BY <2>1, <2>3, <2>4, <2>5
<1> QED
  BY <1>2, <1>3

LEMMA BgWaitStep ==
    ASSUME RingInv, BgWait
    PROVE  RingInv'
<1>1. /\ bg = "running" /\ bg' = "asleep" /\ reader' \in {reader, "running"}
      /\ ~abort_request /\ abort_request' \in BOOLEAN /\ ~abort_request'
      /\ UNCHANGED <<opened, fifo, read_pos, inner_pos, inner_io_error, logical_pos,
                     logical_size, seek_request, seek_pos, seek_completed, seek_ret,
                     io_error, io_eof_reached, to_copy, copied, call>>
  BY DEF BgWait, Interrupt, ringVars, sourceVars, seekVars, ioVars, chunkVars, SignalMain
<1>2. TypeOK'
  BY <1>1 DEF RingInv, TypeOK
<1>3. RingIsWindowOfFile'
  BY <1>1, WindowKept DEF RingInv, RingUntouched, RingOwner, Unseen
<1>4. CallInv' /\ WriteInv'
  BY <1>1 DEF RingInv, CallInv, WriteInv, WriteFits, RingSpace
<1> QED
  BY <1>2, <1>3, <1>4 DEF RingInv

\* The write is given what fits.
LEMMA BgClaimStep ==
    ASSUME RingInv, BgClaim
    PROVE  RingInv'
<1>1. /\ bg = "running" /\ bg' = "writing" /\ to_copy' = WriteSize
      /\ ~abort_request /\ abort_request' \in BOOLEAN /\ ~abort_request'
      /\ UNCHANGED <<opened, fifo, read_pos, inner_pos, inner_io_error, logical_pos,
                     logical_size, seek_request, seek_pos, seek_completed, seek_ret,
                     io_error, io_eof_reached, copied, reader, call>>
  BY DEF BgClaim, Interrupt, ringVars, sourceVars, seekVars, ioVars, readerVars
<1>2. WriteSize \in 0..Chunk /\ WriteSize <= RingSpace
  BY Sizes, AsyncAssumption DEF RingInv, WriteSize, Smaller
<1>3. TypeOK'
  BY <1>1, <1>2 DEF RingInv, TypeOK
<1>4. RingIsWindowOfFile'
  BY <1>1, WindowKept DEF RingInv, RingUntouched, RingOwner, Unseen, WriteInv
<1>5. CallInv'
  BY <1>1 DEF RingInv, CallInv
<1>6. WriteInv'
  BY <1>1, <1>2, AsyncAssumption DEF RingInv, WriteInv, WriteFits, RingSpace, TypeOK
<1> QED
  BY <1>3, <1>4, <1>5, <1>6 DEF RingInv

\* What is read moves the source, and is not in the ring yet.
LEMMA BgReadStep ==
    ASSUME RingInv, BgRead
    PROVE  RingInv'
<1> USE DEF RingInv, BgRead, ringVars, seekVars, ioVars, readerVars
<1>1. PICK n \in 1..to_copy :
         /\ inner_pos + n <= FileSize
         /\ inner_pos' = inner_pos + n
         /\ to_copy' = to_copy - n /\ copied' = copied + n
  OBVIOUS
<1>2. /\ bg = "writing" /\ bg' \in {"writing", "fetched"} /\ inner_io_error' = "none"
      /\ UNCHANGED <<opened, fifo, read_pos, logical_pos, logical_size, seek_request, seek_pos,
                     seek_completed, seek_ret, io_error, io_eof_reached, abort_request,
                     reader, call>>
  OBVIOUS
<1>3. /\ n \in Nat /\ n > 0 /\ inner_pos \in Nat /\ to_copy \in Nat /\ copied \in Nat
      /\ Len(fifo) \in Int /\ read_pos \in Int /\ RingOwner \in Int
  BY <1>1, Sizes, AsyncAssumption DEF TypeOK, Positions
<1>4. TypeOK'
  <2>1. inner_pos' \in 0..FileSize
    BY <1>1, <1>3, AsyncAssumption
  <2>2. to_copy' \in 0..Chunk /\ copied' \in 0..Chunk
    BY <1>1, <1>3, AsyncAssumption DEF WriteInv
  <2> QED
    BY <1>2, <2>1, <2>2 DEF TypeOK
<1>5. RingIsWindowOfFile'
  <2>1. RingOwner' = RingOwner /\ Unseen = copied /\ Unseen' = copied'
    BY <1>2 DEF RingOwner, Unseen
  <2> QED
    BY <1>1, <1>2, <1>3, <2>1 DEF RingIsWindowOfFile, Unseen
<1>6. CallInv'
  BY <1>2 DEF CallInv
<1>7. WriteInv'
  BY <1>1, <1>2, <1>3, AsyncAssumption DEF WriteInv, WriteFits, RingSpace
<1> QED
  BY <1>4, <1>5, <1>6, <1>7

\* The bytes that are appended are the next ones of the window.
LEMMA BgAppendStep ==
    ASSUME RingInv, BgAppend
    PROVE  RingInv'
<1> USE DEF RingInv, BgAppend, sourceVars, seekVars, ioVars, chunkVars, readerVars
<1> DEFINE start == inner_pos - copied
<1>1. /\ bg = "fetched" /\ bg' = "written"
      /\ fifo' = fifo \o [i \in 1..copied |-> start + i - 1]
      /\ UNCHANGED <<opened, read_pos, inner_pos, inner_io_error, logical_pos, logical_size,
                     seek_request, seek_pos, seek_completed, seek_ret, io_error,
                     io_eof_reached, abort_request, to_copy, copied, reader, call>>
  BY DEF BytesFetched
<1>2. /\ copied \in Nat /\ Len(fifo) \in Nat /\ start \in Nat /\ start + copied = inner_pos
      /\ inner_pos \in Nat /\ inner_pos <= FileSize /\ FileSize \in Nat
      /\ fifo \in Seq(0..(FileSize - 1))
  BY Sizes, AsyncAssumption DEF TypeOK, WriteInv
<1> HIDE DEF start
<1>3. \A i \in 1..copied : start + i - 1 \in 0..(FileSize - 1)
  BY <1>2
<1>4. /\ fifo' \in Seq(0..(FileSize - 1)) /\ Len(fifo') = Len(fifo) + copied
      /\ \A i \in 1..Len(fifo') :
            fifo'[i] = IF i <= Len(fifo) THEN fifo[i] ELSE start + (i - Len(fifo)) - 1
  <2> DEFINE t == fifo \o [i \in 1..copied |-> start + i - 1]
  <2>1. /\ t \in Seq(0..(FileSize - 1)) /\ Len(t) = Len(fifo) + copied
        /\ \A i \in 1..(Len(fifo) + copied) :
              t[i] = IF i <= Len(fifo) THEN fifo[i] ELSE start + (i - Len(fifo)) - 1
    BY <1>2, <1>3, AppendedBytes
  <2> HIDE DEF t
  <2>2. fifo' = t
    BY <1>1 DEF t
  <2> QED
    BY <2>1, <2>2
<1>5. copied <= RingSpace /\ Len(fifo') <= Capacity + ReadBack
  BY <1>1, <1>2, <1>4, AsyncAssumption DEF WriteInv, WriteFits, RingSpace, TypeOK
<1>6. TypeOK'
  <2>1. read_pos' \in 0..Len(fifo')
    BY <1>1, <1>2, <1>4 DEF TypeOK
  <2> QED
    BY <1>1, <1>4, <1>5, <2>1 DEF TypeOK
<1>7. RingIsWindowOfFile'
  <2>1. RingOwner' = RingOwner /\ Unseen = copied /\ Unseen' = 0
    BY <1>1 DEF RingOwner, Unseen
  <2>0. RingOwner \in Int /\ read_pos \in Int
    BY <1>2, Sizes, AsyncAssumption DEF TypeOK, Positions
  <2>2. SUFFICES ASSUME opened, ~abort_request
                 PROVE  /\ inner_pos = RingOwner - read_pos + Len(fifo')
                        /\ \A i \in 1..Len(fifo') : fifo'[i] = RingOwner - read_pos + i - 1
    BY <1>1, <1>2, <1>4, <2>0, <2>1 DEF RingIsWindowOfFile, Unseen
  <2>3. /\ start = RingOwner - read_pos + Len(fifo)
        /\ inner_pos = RingOwner - read_pos + Len(fifo) + copied
        /\ \A i \in 1..Len(fifo) : fifo[i] = RingOwner - read_pos + i - 1
    BY <1>2, <2>0, <2>1, <2>2 DEF RingIsWindowOfFile, Unseen
  <2>4. \A i \in 1..Len(fifo') : i <= Len(fifo) => fifo'[i] = RingOwner - read_pos + i - 1
    BY <1>2, <1>4, <2>0, <2>3
  <2>5. \A i \in 1..Len(fifo') : i > Len(fifo) => fifo'[i] = RingOwner - read_pos + i - 1
    BY <1>2, <1>4, <2>0, <2>3
  <2> QED
    BY <1>2, <1>4, <2>0, <2>3, <2>4, <2>5
<1>8. CallInv' /\ WriteInv'
  BY <1>1, AsyncAssumption DEF CallInv, WriteInv, WriteFits, TypeOK
<1> QED
  BY <1>6, <1>7, <1>8

LEMMA BgReadFailsStep ==
    ASSUME RingInv, BgReadFails
    PROVE  RingInv'
<1>1. /\ bg = "writing" /\ bg' = "fetched"
      /\ inner_io_error' \in {"none", "EOF", "EIO", "EXIT"}
      /\ abort_request' \in BOOLEAN /\ (abort_request => abort_request')
      /\ UNCHANGED <<opened, fifo, read_pos, inner_pos, logical_pos, logical_size,
                     seek_request, seek_pos, seek_completed, seek_ret, io_error,
                     io_eof_reached, to_copy, copied, reader, call>>
  BY DEF RingInv, TypeOK, BgReadFails, Interrupt, ringVars, seekVars, ioVars, chunkVars,
         readerVars
<1>2. TypeOK'
  BY <1>1 DEF RingInv, TypeOK
<1>3. RingIsWindowOfFile'
  BY <1>1, WindowKept DEF RingInv, RingUntouched, RingOwner, Unseen
<1>4. CallInv' /\ WriteInv'
  BY <1>1 DEF RingInv, CallInv, WriteInv, WriteFits, RingSpace
<1> QED
  BY <1>2, <1>3, <1>4 DEF RingInv

LEMMA BgPublishStep ==
    ASSUME RingInv, BgPublish
    PROVE  RingInv'
<1>1. /\ bg = "written" /\ bg' = "running" /\ to_copy' = 0 /\ copied' = 0
      /\ reader' \in {reader, "running"}
      /\ UNCHANGED <<opened, fifo, read_pos, inner_pos, inner_io_error, logical_pos,
                     logical_size, seek_request, seek_pos, seek_completed, seek_ret,
                     abort_request, call>>
  BY DEF BgPublish, ringVars, sourceVars, seekVars, SignalMain
<1>2. /\ io_error' \in {"none", "EOF", "EIO", "EXIT"} /\ io_eof_reached' \in BOOLEAN
  BY DEF RingInv, TypeOK, BgPublish, ioVars
<1>3. TypeOK'
  BY <1>1, <1>2, AsyncAssumption DEF RingInv, TypeOK
<1>4. RingIsWindowOfFile'
  BY <1>1, WindowKept DEF RingInv, RingUntouched, RingOwner, Unseen
<1>5. CallInv' /\ WriteInv'
  BY <1>1, AsyncAssumption DEF RingInv, CallInv, WriteInv, WriteFits, TypeOK
<1> QED
  BY <1>3, <1>4, <1>5 DEF RingInv

-----------------------------------------------------------------------------
\* The steps of a call that move neither the ring nor the reader: the call begins,
\* goes on, sleeps or ends, and may wake the background thread.
CallMoves ==
    /\ UNCHANGED <<fifo, read_pos, inner_pos, inner_io_error, logical_pos, logical_size,
                   seek_request, seek_pos, seek_completed, seek_ret, io_error,
                   io_eof_reached, to_copy, copied>>
    /\ opened' \in BOOLEAN /\ (opened' => opened)
    /\ abort_request' \in BOOLEAN /\ (abort_request => abort_request')
    /\ bg' = bg \/ (bg \in {"asleep", "exited"} /\ bg' \in {"running", "none"})
    /\ reader' \in {"out", "running", "asleep"} /\ (reader' = "out" \/ ~opened' => call' = NoCall)
    /\ call' \in Calls
    /\ call'.op \in {"read", "skip"} => call'.arg > 0
    /\ call'.op = "ask" => call'.arg \in Positions
    /\ opened' /\ ~abort_request' => (call'.op = "answer" <=> call.op = "answer")

LEMMA CallMovesStep ==
    ASSUME RingInv, CallMoves
    PROVE  RingInv'
<1>1. TypeOK'
  BY DEF RingInv, TypeOK, CallMoves, Calls
<1>2. RingIsWindowOfFile'
  <2>1. CASE opened' /\ ~abort_request'
    <3>1. RingOwner' = RingOwner
      BY <2>1 DEF CallMoves, RingOwner
    <3> QED
      BY <3>1, WindowKept DEF RingInv, CallMoves, RingUntouched, Unseen
  <2>2. CASE ~(opened' /\ ~abort_request')
    BY <2>2 DEF RingIsWindowOfFile, Unseen
  <2> QED
    BY <2>1, <2>2
<1>3. CallInv'
  BY DEF RingInv, CallMoves, CallInv
<1>4. WriteInv'
  BY DEF RingInv, CallMoves, WriteInv, WriteFits, RingSpace
<1> QED
  BY <1>1, <1>2, <1>3, <1>4 DEF RingInv

\* A callback that was not heard leaves the request as it is; one that was sets it.
LEMMA Interrupts ==
    ASSUME TypeOK
    PROVE  /\ Interrupt(FALSE) => ~abort_request /\ ~abort_request' /\ abort_request' \in BOOLEAN
           /\ Interrupt(TRUE) => abort_request' /\ abort_request' \in BOOLEAN
BY DEF TypeOK, Interrupt

LEMMA NewCallMoves ==
    ASSUME RingInv, Read \/ Seek \/ Close
    PROVE  CallMoves
<1> USE DEF ringVars, sourceVars, seekVars, ioVars, chunkVars
<1>1. call = NoCall /\ call.op = "none" /\ opened \in BOOLEAN /\ abort_request \in BOOLEAN
  BY DEF RingInv, TypeOK, CallInv, Read, Seek, Close, NoCall
<1>2. CASE Read
  <2>1. PICK size \in 1..MaxRead : call' = [op |-> "read", arg |-> size]
    BY <1>2 DEF Read
  <2> QED
    BY <1>1, <1>2, <2>1, AsyncAssumption DEF Read, CallMoves, Calls
<1>3. CASE Seek
  <2>1. PICK target \in Targets : call' = [op |-> "seek", arg |-> target]
    BY <1>3 DEF Seek
  <2> QED
    BY <1>1, <1>3, <2>1, AsyncAssumption DEF Seek, CallMoves, Calls
<1>4. CASE Close
  BY <1>1, <1>4 DEF Close, CallMoves, Calls, SignalBackground
<1> QED
  BY <1>2, <1>3, <1>4

LEMMA LoopMoves ==
    ASSUME RingInv, LoopEnds \/ LoopWaits
    PROVE  CallMoves
<1> USE DEF ringVars, sourceVars, seekVars, ioVars, chunkVars
<1>1. /\ call.op \in {"read", "skip"} /\ call \in Calls /\ call.arg > 0
      /\ opened \in BOOLEAN /\ abort_request \in BOOLEAN /\ opened
  BY InCall DEF RingInv, TypeOK, CallInv, LoopEnds, LoopWaits
<1>2. NoCall \in Calls /\ NoCall.op = "none"
  BY DEF NoCall, Calls
<1>3. CASE LoopEnds
  <2>1. reader' = "out" /\ call' = NoCall
    BY <1>3 DEF LoopEnds, Return
  <2>2. abort_request' \in BOOLEAN /\ (abort_request => abort_request')
    BY <1>3, Interrupts DEF LoopEnds, RingInv
  <2> QED
    BY <1>1, <1>2, <1>3, <2>1, <2>2 DEF LoopEnds, CallMoves, SignalBackground
<1>4. CASE LoopWaits
  BY <1>1, <1>4, Interrupts DEF RingInv, LoopWaits, CallMoves, SignalBackground
<1> QED
  BY <1>3, <1>4

LEMMA SeekMoves ==
    ASSUME RingInv, SeekHere \/ SeekForward \/ SeekSlowly
    PROVE  CallMoves
<1> USE DEF ringVars, sourceVars, seekVars, ioVars, chunkVars
<1>1. /\ call.op = "seek" /\ call \in Calls /\ opened \in BOOLEAN
      /\ abort_request \in BOOLEAN /\ logical_pos \in Positions /\ opened
  BY InCall DEF RingInv, TypeOK, CallInv, SeekHere, SeekForward, SeekSlowly, Positions
<1>2. NoCall \in Calls /\ NoCall.op = "none"
  BY DEF NoCall, Calls
<1>3. CASE SeekHere
  <2>1. reader' = "out" /\ call' = NoCall
    BY <1>3 DEF SeekHere, Return
  <2> QED
    BY <1>1, <1>2, <1>3, <2>1 DEF SeekHere, CallMoves
<1>4. CASE SeekForward
  <2>1. /\ call' = [op |-> "skip", arg |-> call.arg - logical_pos]
        /\ call.arg > logical_pos /\ reader = "running"
    BY <1>4 DEF SeekForward
  <2>2. call' \in Calls /\ call'.op = "skip" /\ call'.arg > 0
    BY <1>1, <2>1, AsyncAssumption DEF Calls, Positions
  <2> QED
    BY <1>1, <1>4, <2>1, <2>2 DEF SeekForward, CallMoves
<1>5. CASE SeekSlowly
  <2>1. /\ call' = [call EXCEPT !.op = "ask"] /\ reader = "running"
        /\ call.arg >= 0 /\ call.arg <= logical_size
    BY <1>5 DEF SeekSlowly
  <2>2. call' \in Calls /\ call'.op = "ask" /\ call'.arg \in Positions
    <3>1. logical_size \in {0, FileSize} /\ call.arg \in Int
      BY <1>1 DEF RingInv, TypeOK, Calls
    <3>2. call.arg \in Positions
      BY <2>1, <3>1, AsyncAssumption DEF Positions
    <3> QED
      BY <1>1, <2>1, <3>2 DEF Calls
  <2> QED
    BY <1>1, <1>5, <2>1, <2>2 DEF SeekSlowly, CallMoves
<1> QED
  BY <1>3, <1>4, <1>5

LEMMA JoinOrWakeupMoves ==
    ASSUME RingInv, CloseJoins \/ SpuriousWakeup
    PROVE  CallMoves
<1> USE DEF ringVars, sourceVars, seekVars, ioVars, chunkVars
<1>1. call \in Calls /\ opened \in BOOLEAN /\ abort_request \in BOOLEAN
  BY DEF RingInv, TypeOK, CallInv
<1>2. CASE CloseJoins
  <2>1. NoCall \in Calls /\ NoCall.op = "none"
    BY DEF NoCall, Calls
  <2>2. /\ opened' \in BOOLEAN /\ ~opened' /\ call' = NoCall /\ reader' = "out"
        /\ bg = "exited" /\ bg' = "none"
    BY <1>2 DEF CloseJoins
  <2> QED
    BY <1>1, <1>2, <2>1, <2>2 DEF CloseJoins, CallMoves
<1>3. CASE SpuriousWakeup
  <2>1. /\ bg' = bg \/ (bg = "asleep" /\ bg' = "running")
        /\ reader' = reader \/ reader' = "running"
        /\ UNCHANGED call
    BY <1>3 DEF SpuriousWakeup
  <2> QED
    BY <1>1, <1>3, <2>1 DEF SpuriousWakeup, CallMoves, RingInv, TypeOK, CallInv
<1> QED
  BY <1>2, <1>3

-----------------------------------------------------------------------------
\* The steps that move the ring, the reader, or the request of a seek.

LEMMA OpenStep ==
    ASSUME RingInv, Open
    PROVE  RingInv'
<1>1. /\ opened' /\ opened' \in BOOLEAN /\ bg' = "running"
      /\ fifo' = <<>> /\ read_pos' = 0 /\ inner_pos' = 0 /\ logical_pos' = 0
      /\ logical_size' \in {FileSize, 0} /\ seek_pos' = 0 /\ seek_ret' = "none"
      /\ ~seek_request' /\ seek_request' \in BOOLEAN
      /\ ~seek_completed' /\ seek_completed' \in BOOLEAN
      /\ inner_io_error' = "none" /\ io_error' = "none" /\ io_eof_reached' \in BOOLEAN
      /\ abort_request' \in BOOLEAN /\ to_copy' = 0 /\ copied' = 0
      /\ UNCHANGED <<reader, call>>
  BY DEF Open
<1>2. Len(fifo') = 0 /\ fifo' \in Seq(0..(FileSize - 1))
  BY <1>1, EmptySeq
<1>3. TypeOK'
  BY <1>1, <1>2, AsyncAssumption DEF RingInv, TypeOK
<1>4. RingIsWindowOfFile'
  BY <1>1, <1>2 DEF RingIsWindowOfFile, RingOwner, Unseen
<1>5. CallInv' /\ WriteInv'
  BY <1>1, AsyncAssumption DEF RingInv, CallInv, WriteInv, WriteFits
<1> QED
  BY <1>3, <1>4, <1>5 DEF RingInv

\* What is left of a sequence after av_fifo_drain of its first k elements.
LEMMA WithoutFront ==
  ASSUME NEW S, NEW s \in Seq(S), NEW k \in Nat, k <= Len(s)
  PROVE  /\ SubSeq(s, k + 1, Len(s)) \in Seq(S)
         /\ Len(SubSeq(s, k + 1, Len(s))) = Len(s) - k
         /\ \A i \in 1..Len(SubSeq(s, k + 1, Len(s))) :
               SubSeq(s, k + 1, Len(s))[i] = s[k + i]
<1>1. Len(s) \in Nat /\ \A i \in 1..Len(s) : s[i] \in S
  BY ElementOfSeq
<1>2. /\ k + 1 \in Int /\ Len(s) \in Int /\ Len(s) - (k + 1) + 1 = Len(s) - k
      /\ \A i \in (k + 1)..Len(s) : s[i] \in S
  BY <1>1
<1> DEFINE r == SubSeq(s, k + 1, Len(s))
<1>3. /\ r \in Seq(S)
      /\ Len(r) = IF k + 1 <= Len(s) THEN Len(s) - (k + 1) + 1 ELSE 0
      /\ \A i \in 1..(Len(s) - (k + 1) + 1) : r[i] = s[k + 1 + i - 1]
  BY <1>2, SubSeqProperties
<1> HIDE DEF r
<1>4. Len(r) = Len(s) - k /\ 1..Len(r) = 1..(Len(s) - (k + 1) + 1)
  BY <1>1, <1>3
<1>5. ASSUME NEW i \in 1..Len(r) PROVE r[i] = s[k + i]
  <2>1. k + 1 + i - 1 = k + i
    BY <1>4
  <2> QED
    BY <1>3, <1>4, <2>1
<1> QED
  BY <1>3, <1>4, <1>5 DEF r

\* What a read takes from the ring moves the reader by as much, and what is kept
\* behind it is still the window.
LEMMA LoopReadsStep ==
    ASSUME RingInv, LoopReads
    PROVE  RingInv'
<1> DEFINE n == Smaller(call.arg, RingSize)
           drained == IF read_pos + n > ReadBack THEN read_pos + n - ReadBack ELSE 0
           rest == SubSeq(fifo, drained + 1, Len(fifo))
<1>1. /\ call.op \in {"read", "skip"} /\ call \in Calls /\ call.arg > 0
      /\ ~abort_request /\ ~abort_request' /\ abort_request' \in BOOLEAN
      /\ fifo' = rest /\ read_pos' = read_pos + n - drained
      /\ logical_pos' = logical_pos + n
      /\ bg' = bg \/ (bg = "asleep" /\ bg' = "running")
      /\ UNCHANGED <<opened, inner_pos, inner_io_error, logical_size, seek_request, seek_pos,
                     seek_completed, seek_ret, io_error, io_eof_reached, to_copy, copied>>
  <2>1. ~abort_request /\ ~abort_request' /\ abort_request' \in BOOLEAN
    BY Interrupts DEF LoopReads, RingInv
  <2>2. fifo' = rest /\ read_pos' = read_pos + n - drained /\ logical_pos' = logical_pos + n
    BY DEF LoopReads, RingRead
  <2> QED
    BY <2>1, <2>2 DEF LoopReads, RingInv, CallInv, sourceVars, seekVars, ioVars, chunkVars,
                      SignalBackground
<1>2. /\ reader' \in {"out", "running", "asleep"} /\ (reader' = "out" => call' = NoCall)
      /\ call' \in Calls /\ call'.op \in {"none", "skip"}
      /\ call'.op = "skip" => call'.arg > 0
  <2>1. CASE reader' = "out" /\ call' = NoCall
    BY <2>1 DEF NoCall, Calls
  <2>2. CASE /\ call.op = "skip" /\ n < call.arg
             /\ call' = [call EXCEPT !.arg = @ - n] /\ reader' = "asleep"
    <3>1. n \in Int /\ call.arg \in Int
      BY <1>1, Sizes DEF RingInv, Calls, Smaller
    <3>2. call' \in Calls /\ call'.op = "skip" /\ call'.arg = call.arg - n
      BY <1>1, <2>2, <3>1 DEF Calls
    <3> QED
      BY <2>2, <3>1, <3>2
  <2> QED
    BY <2>1, <2>2 DEF LoopReads, Return
<1>3. /\ n \in Nat /\ n <= Len(fifo) - read_pos /\ Len(fifo) \in Nat /\ read_pos \in Nat
      /\ RingOwner = logical_pos /\ logical_pos \in Nat /\ inner_pos \in Nat
      /\ ReadBack \in Nat /\ fifo \in Seq(0..(FileSize - 1))
  <2>1. /\ Len(fifo) \in Nat /\ read_pos \in Nat /\ logical_pos \in Nat /\ inner_pos \in Nat
        /\ ReadBack \in Nat /\ fifo \in Seq(0..(FileSize - 1)) /\ RingSize \in Nat
    BY Sizes, AsyncAssumption DEF RingInv, TypeOK
  <2>2. n \in Nat /\ n <= RingSize
    BY <1>1, <2>1 DEF Smaller, Calls
  <2> QED
    BY <1>1, <2>1, <2>2 DEF RingSize, RingOwner
<1>4. drained \in Nat /\ drained <= read_pos + n /\ drained <= Len(fifo)
  BY <1>3
<1> HIDE DEF n, drained
<1>5. /\ rest \in Seq(0..(FileSize - 1)) /\ Len(rest) = Len(fifo) - drained
      /\ \A i \in 1..Len(rest) : rest[i] = fifo[drained + i]
  BY <1>3, <1>4, WithoutFront
<1> HIDE DEF rest
<1>6. /\ opened /\ inner_pos = logical_pos - read_pos + Len(fifo) + Unseen
      /\ Unseen \in Nat /\ Unseen' = Unseen
      /\ \A i \in 1..Len(fifo) : fifo[i] = logical_pos - read_pos + i - 1
  <2>1. opened
    BY <1>1, InCall DEF RingInv
  <2> QED
    <3>1. Unseen \in Nat /\ Unseen' = Unseen
      BY <1>1, AsyncAssumption DEF RingInv, TypeOK, Unseen
    <3> QED
      BY <1>1, <1>3, <2>1, <3>1 DEF RingInv, RingIsWindowOfFile
<1>7. TypeOK'
  <2>1. logical_pos' \in 0..FileSize
    BY <1>1, <1>3, <1>6, AsyncAssumption DEF RingInv, TypeOK
  <2>2. Len(fifo') <= Capacity + ReadBack
    <3>1. Len(fifo) <= Capacity + ReadBack /\ Capacity \in Nat
      BY AsyncAssumption DEF RingInv, TypeOK
    <3>2. Len(fifo') = Len(fifo) - drained
      BY <1>1, <1>5
    <3> QED
      BY <1>3, <1>4, <3>1, <3>2
  <2>3. read_pos' \in 0..Len(fifo')
    BY <1>1, <1>3, <1>4, <1>5
  <2>4. fifo' \in Seq(0..(FileSize - 1))
    BY <1>1, <1>5
  <2>5. /\ bg' \in {"none", "running", "asleep", "writing", "fetched", "written", "exited"}
        /\ call'.op \in {"none", "read", "skip", "seek", "ask", "answer", "close"}
    BY <1>1, <1>2 DEF RingInv, TypeOK
  <2> QED
    BY <1>1, <1>2, <2>1, <2>2, <2>3, <2>4, <2>5 DEF RingInv, TypeOK
<1>8. RingIsWindowOfFile'
  <2>1. RingOwner' = logical_pos'
    BY <1>2 DEF RingOwner
  <2>2. inner_pos' = RingOwner' - read_pos' + Len(fifo') + Unseen'
    BY <1>1, <1>3, <1>4, <1>5, <1>6, <2>1
  <2>3. \A i \in 1..Len(fifo') : fifo'[i] = RingOwner' - read_pos' + i - 1
    <3>1. TAKE i \in 1..Len(fifo')
    <3>2. drained + i \in 1..Len(fifo) /\ i \in Nat
      BY <1>1, <1>3, <1>4, <1>5
    <3>3. fifo'[i] = logical_pos - read_pos + (drained + i) - 1
      BY <1>1, <1>5, <1>6, <3>2
    <3> QED
      BY <1>1, <1>3, <1>4, <2>1, <3>2, <3>3
  <2> QED
    BY <2>2, <2>3 DEF RingIsWindowOfFile
<1>9. CallInv'
  BY <1>1, <1>2, <1>6 DEF RingInv, CallInv
<1>10. WriteInv'
  BY <1>1, <1>3, <1>4, <1>5, AsyncAssumption DEF RingInv, TypeOK, WriteInv, WriteFits, RingSpace
<1> QED
  BY <1>7, <1>8, <1>9, <1>10 DEF RingInv

\* The reader goes back into what the ring keeps behind it.
LEMMA SeekBackStep ==
    ASSUME RingInv, SeekBack
    PROVE  RingInv'
<1>1. /\ call.op = "seek" /\ call.arg \in Int /\ call.arg >= 0 /\ call.arg < logical_pos
      /\ call.arg >= logical_pos - read_pos
      /\ logical_pos' = call.arg /\ read_pos' = read_pos - (logical_pos - call.arg)
      /\ reader' = "out" /\ call' = NoCall
      /\ UNCHANGED <<opened, fifo, inner_pos, inner_io_error, logical_size, seek_request,
                     seek_pos, seek_completed, seek_ret, io_error, io_eof_reached,
                     abort_request, to_copy, copied, bg>>
  BY DEF RingInv, CallInv, Calls, SeekBack, FastSeek, Behind, RingRewind, Return, sourceVars,
         seekVars, ioVars, chunkVars
<1>2. NoCall \in Calls /\ NoCall.op = "none"
  BY DEF NoCall, Calls
<1>3. /\ Len(fifo) \in Nat /\ read_pos \in 0..Len(fifo) /\ logical_pos \in 0..FileSize
      /\ RingOwner = logical_pos
  BY <1>1, Sizes DEF RingInv, TypeOK, RingOwner
<1>4. logical_pos' \in 0..FileSize /\ read_pos' \in 0..Len(fifo)
  BY <1>1, <1>3, AsyncAssumption
<1>5. TypeOK'
  BY <1>1, <1>2, <1>4 DEF RingInv, TypeOK
<1>6. RingIsWindowOfFile'
  <2>1. RingOwner' = logical_pos' /\ RingOwner' - read_pos' = RingOwner - read_pos
    BY <1>1, <1>2, <1>3, <1>4, AsyncAssumption DEF RingOwner
  <2> QED
    BY <1>1, <2>1 DEF RingInv, RingIsWindowOfFile, Unseen
<1>7. CallInv' /\ WriteInv'
  BY <1>1, <1>2 DEF RingInv, CallInv, WriteInv, WriteFits, RingSpace
<1> QED
  BY <1>5, <1>6, <1>7 DEF RingInv

\* A request is made: the ring still belongs to the reader's position.
LEMMA SeekAsksStep ==
    ASSUME RingInv, SeekAsks
    PROVE  RingInv'
<1>1. /\ call.op = "ask" /\ call \in Calls /\ call.arg \in Positions /\ opened
      /\ seek_request' \in BOOLEAN /\ seek_completed' \in BOOLEAN /\ ~seek_completed'
      /\ seek_pos' = call.arg /\ seek_ret' = "none"
      /\ UNCHANGED <<opened, fifo, read_pos, inner_pos, inner_io_error, logical_pos,
                     logical_size, io_error, io_eof_reached, to_copy, copied>>
  <2>1. call.op = "ask" /\ opened
    BY InCall DEF RingInv, SeekAsks
  <2> QED
    BY <2>1 DEF RingInv, CallInv, SeekAsks, ringVars, sourceVars, ioVars, chunkVars
<1>2. \/ /\ abort_request' /\ abort_request' \in BOOLEAN
         /\ reader' = "out" /\ call' = NoCall /\ bg' = bg
      \/ /\ ~abort_request /\ ~abort_request' /\ abort_request' \in BOOLEAN
         /\ reader' = "asleep" /\ call' = [call EXCEPT !.op = "answer"]
         /\ bg' = bg \/ (bg = "asleep" /\ bg' = "running")
  BY Interrupts DEF RingInv, SeekAsks, Return, SignalBackground
<1>3. /\ call' \in Calls /\ reader' \in {"out", "asleep"} /\ abort_request' \in BOOLEAN
      /\ abort_request' \/ call'.op = "answer"
      /\ call'.op \notin {"read", "skip", "ask"}
      /\ call'.op \in {"none", "answer"} /\ (reader' = "out" => call' = NoCall)
  BY <1>1, <1>2 DEF Calls, NoCall
<1>4. TypeOK'
  <2>1. bg' \in {"none", "running", "asleep", "writing", "fetched", "written", "exited"}
    BY <1>2 DEF RingInv, TypeOK
  <2> QED
    BY <1>1, <1>3, <2>1 DEF RingInv, TypeOK, Positions
<1>5. RingIsWindowOfFile'
  <2>1. RingOwner' = RingOwner
    BY <1>1 DEF RingOwner
  <2> QED
    BY <1>1, <1>2, <2>1, WindowKept DEF RingInv, RingUntouched, RingIsWindowOfFile, Unseen
<1>6. CallInv'
  BY <1>1, <1>3 DEF CallInv
<1>7. WriteInv'
  BY <1>1, <1>2 DEF RingInv, WriteInv, WriteFits, RingSpace
<1> QED
  BY <1>4, <1>5, <1>6, <1>7 DEF RingInv

\* The reader learns of the seek and takes the position the ring belongs to; or
\* gives up, or sleeps again.
LEMMA SeekAnsweredStep ==
    ASSUME RingInv, SeekAnswered
    PROVE  RingInv'
<1>1. /\ call.op = "answer" /\ call \in Calls /\ opened /\ opened \in BOOLEAN
      /\ abort_request \in BOOLEAN
      /\ UNCHANGED <<opened, fifo, read_pos, inner_pos, inner_io_error, logical_size,
                     seek_request, seek_pos, seek_completed, seek_ret, io_error,
                     io_eof_reached, to_copy, copied>>
  <2>1. call.op = "answer" /\ opened
    BY InCall DEF RingInv, SeekAnswered
  <2> QED
    BY <2>1 DEF RingInv, TypeOK, CallInv, SeekAnswered, ringVars, sourceVars, seekVars, ioVars,
                chunkVars
<1>2. NoCall \in Calls /\ NoCall.op = "none"
  BY DEF NoCall, Calls
<1>3. CASE /\ Interrupt(TRUE) /\ Return("EXIT", <<>>, 0) /\ UNCHANGED <<logical_pos, bg>>
  <2>1. abort_request' /\ abort_request' \in BOOLEAN
    BY <1>3, Interrupts DEF RingInv
  <2>2. CallMoves
    BY <1>1, <1>2, <1>3, <2>1 DEF CallMoves, Return
  <2> QED
    BY <2>2, CallMovesStep
<1>4. CASE /\ Interrupt(FALSE) /\ ~seek_completed /\ SignalBackground
           /\ reader' = "asleep" /\ UNCHANGED <<logical_pos, call, result>>
  <2>1. ~abort_request /\ ~abort_request' /\ abort_request' \in BOOLEAN
    BY <1>4, Interrupts DEF RingInv
  <2>2. CallMoves
    BY <1>1, <1>4, <2>1 DEF CallMoves, SignalBackground
  <2> QED
    BY <2>2, CallMovesStep
<1>5. CASE /\ Interrupt(FALSE) /\ seek_completed /\ seek_ret # "ok"
           /\ UNCHANGED logical_pos /\ Return(seek_ret, <<>>, 0) /\ UNCHANGED bg
  <2>1. ~abort_request /\ ~abort_request' /\ abort_request' \in BOOLEAN
    BY <1>5, Interrupts DEF RingInv
  <2>2. reader' = "out" /\ call' = NoCall
    BY <1>5 DEF Return
  <2>3. TypeOK'
    BY <1>1, <1>2, <1>5, <2>1, <2>2 DEF RingInv, TypeOK
  <2>4. RingIsWindowOfFile'
    <3>1. RingOwner' = RingOwner
      BY <1>1, <1>2, <1>5, <2>2 DEF RingOwner
    <3> QED
      BY <1>1, <1>5, <2>1, <3>1, WindowKept DEF RingInv, RingUntouched, Unseen
  <2>5. CallInv' /\ WriteInv'
    BY <1>1, <1>2, <1>5, <2>1, <2>2 DEF RingInv, CallInv, WriteInv, WriteFits, RingSpace
  <2> QED
    BY <2>3, <2>4, <2>5 DEF RingInv
<1>6. CASE /\ Interrupt(FALSE) /\ seek_completed /\ seek_ret = "ok"
           /\ logical_pos' = seek_pos /\ Return("ok", <<>>, seek_pos) /\ UNCHANGED bg
  <2>1. ~abort_request /\ ~abort_request' /\ abort_request' \in BOOLEAN
    BY <1>6, Interrupts DEF RingInv
  <2>2. reader' = "out" /\ call' = NoCall
    BY <1>6 DEF Return
  <2>3. TypeOK'
    BY <1>1, <1>2, <1>6, <2>1, <2>2 DEF RingInv, TypeOK
  <2>4. RingIsWindowOfFile'
    <3>1. RingOwner' = RingOwner
      BY <1>1, <1>2, <1>6, <2>2 DEF RingOwner
    <3> QED
      BY <1>1, <1>6, <2>1, <3>1, WindowKept DEF RingInv, RingUntouched, Unseen
  <2>5. CallInv' /\ WriteInv'
    BY <1>1, <1>2, <1>6, <2>1, <2>2 DEF RingInv, CallInv, WriteInv, WriteFits, RingSpace
  <2> QED
    BY <2>3, <2>4, <2>5 DEF RingInv
<1> QED
  BY <1>3, <1>4, <1>5, <1>6 DEF SeekAnswered

-----------------------------------------------------------------------------
LEMMA RingInvInit == Init => RingInv
<1> SUFFICES ASSUME Init
             PROVE  RingInv
  OBVIOUS
<1>1. Len(fifo) = 0 /\ fifo \in Seq(0..(FileSize - 1))
  BY EmptySeq DEF Init
<1>2. TypeOK
  <2>1. /\ opened \in BOOLEAN /\ seek_request \in BOOLEAN /\ seek_completed \in BOOLEAN
        /\ io_eof_reached \in BOOLEAN /\ abort_request \in BOOLEAN
    BY DEF Init
  <2>2. /\ read_pos = 0 /\ inner_pos = 0 /\ logical_pos = 0 /\ seek_pos = 0 /\ to_copy = 0
        /\ copied = 0 /\ logical_size \in {0, FileSize} /\ seek_ret = "none"
        /\ inner_io_error = "none" /\ io_error = "none" /\ bg = "none" /\ reader = "out"
        /\ call.op = "none"
    BY DEF Init, NoCall
  <2> QED
    BY <1>1, <2>1, <2>2, AsyncAssumption DEF TypeOK
<1>3. CallInv
  BY DEF Init, CallInv, NoCall, Calls
<1>4. RingIsWindowOfFile /\ WriteInv
  BY AsyncAssumption DEF Init, RingIsWindowOfFile, WriteInv, WriteFits, Unseen
<1> QED
  BY <1>2, <1>3, <1>4 DEF RingInv

LEMMA RingInvNext == RingInv /\ [Next]_vars => RingInv'
<1> SUFFICES ASSUME RingInv, [Next]_vars
             PROVE  RingInv'
  OBVIOUS
<1>1. CASE Background
  BY <1>1, BgExitStep, BgSeekStep, BgWaitStep, BgClaimStep, BgReadStep, BgReadFailsStep,
     BgAppendStep, BgPublishStep DEF Background
<1>2. CASE Open
  BY <1>2, OpenStep
<1>3. CASE Read \/ Seek \/ Close
  BY <1>3, NewCallMoves, CallMovesStep
<1>4. CASE ReaderStep
  BY <1>4, LoopReadsStep, LoopMoves, SeekMoves, SeekBackStep, SeekAsksStep, SeekAnsweredStep,
     JoinOrWakeupMoves, CallMovesStep DEF ReaderStep
<1>5. CASE SpuriousWakeup
  BY <1>5, JoinOrWakeupMoves, CallMovesStep
<1>6. CASE UNCHANGED vars
  <2>1. /\ TypeOK' /\ CallInv' /\ WriteInv'
    BY <1>6 DEF vars, RingInv, TypeOK, CallInv, WriteInv, WriteFits, RingSpace
  <2>2. RingIsWindowOfFile'
    BY <1>6 DEF vars, RingInv, RingIsWindowOfFile, RingOwner, Unseen
  <2> QED
    BY <2>1, <2>2 DEF RingInv
<1> QED
  BY <1>1, <1>2, <1>3, <1>4, <1>5, <1>6 DEF Next

LEMMA RingCorrect == Spec => []RingInv
BY RingInvInit, RingInvNext, PTL DEF Spec

\* Every variable keeps its type, the ring its capacity and the reader a position
\* of the file (async.c, all of it).
THEOREM TypeCorrect == Spec => []TypeOK
<1>1. RingInv => TypeOK
  BY DEF RingInv
<1> QED
  BY <1>1, RingCorrect, PTL

\* The ring holds the bytes of the file around the reader, across reads, writes
\* without the mutex, seeks of either kind and interrupts (async_buffer_task,
\* async_read_internal, async_seek).
THEOREM RingCorrespondsToFile == Spec => []RingIsWindowOfFile
<1>1. RingInv => RingIsWindowOfFile
  BY DEF RingInv
<1> QED
  BY <1>1, RingCorrect, PTL

\* The av_assert2 of ring_generic_write holds: what the background thread writes
\* fits into the room it saw before it released the mutex.
THEOREM WritesFit == Spec => []WriteFits
<1>1. RingInv => WriteFits
  BY DEF RingInv, WriteInv
<1> QED
  BY <1>1, RingCorrect, PTL

-----------------------------------------------------------------------------
(* The protocol reads like a file                                          *)

\* What the reader may conclude from the flags of the background thread: an
\* end without an error is the end of the file, and an answered seek that of its call.
EndInv ==
    /\ bg # "none" => opened
    /\ bg \in {"writing", "fetched", "written"} => ~io_eof_reached
    /\ io_eof_reached \/ io_error = "none"
    /\ bg \in {"fetched", "written"} /\ copied = 0 /\ inner_io_error \in {"none", "EOF"} =>
          inner_pos = FileSize
    /\ io_eof_reached /\ io_error \in {"none", "EOF"} => inner_pos = FileSize
    /\ seek_completed => seek_ret # "none"
    /\ call.op = "answer" => seek_pos = call.arg

InTrouble == abort_request \/ io_error \in {"EIO", "EXIT"}

\* The call the reader is in, from what is left of it.
LEMMA CallSeen ==
    /\ call.op = "skip" => CallInProgress = [op |-> "seek", arg |-> logical_pos + call.arg]
    /\ call.op \in {"ask", "answer"} => CallInProgress = [op |-> "seek", arg |-> call.arg]
    /\ call.op \notin {"skip", "ask", "answer"} => CallInProgress = call
<1>1. CASE call.op = "skip"
  BY <1>1 DEF CallInProgress
<1>2. CASE call.op \in {"ask", "answer"}
  BY <1>2 DEF CallInProgress
<1>3. CASE call.op \notin {"skip", "ask", "answer"}
  BY <1>3 DEF CallInProgress
<1> QED
  BY <1>1, <1>2, <1>3

\* The same after a step.
LEMMA NextCallSeen ==
    /\ call'.op = "skip" => CallInProgress' = [op |-> "seek", arg |-> logical_pos' + call'.arg]
    /\ call'.op \in {"ask", "answer"} => CallInProgress' = [op |-> "seek", arg |-> call'.arg]
    /\ call'.op \notin {"skip", "ask", "answer"} => CallInProgress' = call'
<1>1. CASE call'.op = "skip"
  BY <1>1 DEF CallInProgress
<1>2. CASE call'.op \in {"ask", "answer"}
  BY <1>2 DEF CallInProgress
<1>3. CASE call'.op \notin {"skip", "ask", "answer"}
  BY <1>3 DEF CallInProgress
<1> QED
  BY <1>1, <1>2, <1>3

\* A step of the background thread leaves the reader's call and position alone.
ReaderUntouched == UNCHANGED <<opened, logical_pos, logical_size, call, result>>

LEMMA ReaderSeesNothing ==
    ASSUME ReaderUntouched
    PROVE  /\ UNCHANGED <<opened, logical_pos, (logical_size > 0), CallInProgress, result>>
           /\ UNCHANGED <<abort_request, io_error>> => UNCHANGED File!vars
<1>1. CallInProgress' = CallInProgress
  BY Zenon DEF ReaderUntouched, CallInProgress
<1>2. UNCHANGED <<opened, logical_pos, logical_size, result>>
  BY DEF ReaderUntouched
<1>3. ASSUME UNCHANGED <<abort_request, io_error>>
      PROVE  UNCHANGED File!vars
  BY <1>1, <1>2, <1>3, Zenon DEF File!vars
<1> QED
  BY <1>1, <1>2, <1>3

\* It may bring the reader into trouble at any time.
LEMMA TroubleComes ==
    ASSUME ReaderUntouched, opened, InTrouble'
    PROVE  File!Trouble
<1>1. (abort_request \/ io_error \in {"EIO", "EXIT"})' = TRUE
  BY DEF InTrouble
<1> QED
  BY <1>1, ReaderSeesNothing DEF File!Trouble

LEMMA BackgroundIsSeen ==
    ASSUME RingInv, EndInv, Background
    PROVE  EndInv' /\ (File!Next \/ UNCHANGED File!vars)
<1> USE DEF RingInv
<1>0. /\ ReaderUntouched /\ opened
      /\ abort_request \in BOOLEAN /\ inner_pos \in 0..FileSize /\ copied \in Nat
      /\ io_error \in {"none", "EOF", "EIO", "EXIT"}
  <2>1. ReaderUntouched /\ bg # "none"
    BY DEF Background, BgExit, BgSeek, BgWait, BgClaim, BgRead, BgReadFails, BgAppend, BgPublish,
           ReaderUntouched, readerVars
  <2> QED
    BY <2>1 DEF TypeOK, EndInv
<1> USE DEF Interrupt
<1>1. CASE BgExit
  <2>1. /\ abort_request' = TRUE /\ io_eof_reached' = TRUE /\ io_error' = "EXIT"
        /\ bg' = "exited"
        /\ UNCHANGED <<inner_pos, inner_io_error, seek_completed, seek_ret, seek_pos, copied>>
    BY <1>1 DEF BgExit, sourceVars, seekVars, chunkVars
  <2>2. EndInv'
    BY <1>0, <2>1 DEF EndInv, ReaderUntouched
  <2> QED
    BY <1>0, <2>1, <2>2, TroubleComes DEF File!Next, InTrouble
<1>2. CASE BgSeek
  <2>1. /\ ~abort_request /\ ~abort_request' /\ seek_request /\ bg = "running" /\ bg' = bg
        /\ UNCHANGED <<inner_io_error, seek_pos, copied>>
        /\ \/ seek_ret' = "ok" /\ io_eof_reached' = FALSE /\ io_error' = "none"
           \/ seek_ret' = "EIO" /\ UNCHANGED <<inner_pos, io_error, io_eof_reached>>
    BY <1>2 DEF BgSeek, ioVars, chunkVars
  <2>2. call.op = "answer"
    BY <1>0, <2>1 DEF CallInv
  <2>3. EndInv'
    BY <1>0, <2>1 DEF EndInv, ReaderUntouched
  <2>4. CASE io_error' = "none"
    <3>1. (abort_request \/ io_error \in {"EIO", "EXIT"})' = FALSE
      BY <2>1, <2>4
    <3>2. CallInProgress.op = "seek"
      BY <2>2, CallSeen
    <3>3. File!Recover
      BY <1>0, <3>1, <3>2, ReaderSeesNothing DEF File!Recover
    <3> QED
      BY <2>3, <3>3 DEF File!Next
  <2>5. CASE io_error' = io_error
    <3>1. UNCHANGED <<abort_request, io_error>>
      BY <1>0, <2>1, <2>5, <1>2 DEF BgSeek
    <3> QED
      BY <1>0, <2>3, <3>1, ReaderSeesNothing
  <2> QED
    BY <2>1, <2>4, <2>5
<1>3. CASE BgWait \/ BgClaim \/ BgRead \/ BgAppend
  <2>1. UNCHANGED <<abort_request, io_error, io_eof_reached, seek_completed, seek_ret, seek_pos>>
    BY <1>0, <1>3 DEF BgWait, BgClaim, BgRead, BgAppend, ioVars, seekVars
  <2>2. EndInv'
    <3>1. CASE BgWait
      BY <1>0, <2>1, <3>1 DEF EndInv, ReaderUntouched, BgWait, sourceVars, chunkVars
    <3>2. CASE BgClaim
      BY <1>0, <2>1, <3>2 DEF EndInv, ReaderUntouched, BgClaim, sourceVars
    <3>3. CASE BgRead
      <4>1. bg = "writing" /\ bg' \in {"writing", "fetched"} /\ copied' # 0
        BY <1>0, <3>3 DEF BgRead, TypeOK
      <4> QED
        BY <1>0, <2>1, <4>1 DEF EndInv, ReaderUntouched
    <3>4. CASE BgAppend
      BY <1>0, <2>1, <3>4 DEF EndInv, ReaderUntouched, BgAppend, sourceVars, chunkVars
    <3> QED
      BY <1>3, <3>1, <3>2, <3>3, <3>4
  <2> QED
    BY <1>0, <2>1, <2>2, ReaderSeesNothing
<1>4. CASE BgReadFails
  <2>1. /\ bg = "writing" /\ bg' = "fetched"
        /\ UNCHANGED <<inner_pos, io_error, io_eof_reached, seek_completed, seek_ret, seek_pos,
                       copied>>
        /\ inner_io_error' \in {"none", "EOF"} => inner_pos = FileSize
        /\ abort_request' = TRUE \/ UNCHANGED abort_request
    BY <1>4 DEF BgReadFails, ioVars, seekVars, chunkVars
  <2>2. EndInv'
    BY <1>0, <2>1 DEF EndInv, ReaderUntouched
  <2>3. CASE abort_request' = TRUE
    BY <1>0, <2>2, <2>3, TroubleComes DEF File!Next, InTrouble
  <2>4. CASE UNCHANGED abort_request
    BY <1>0, <2>1, <2>2, <2>4, ReaderSeesNothing
  <2> QED
    BY <2>1, <2>3, <2>4
<1>5. CASE BgPublish
  <2>1. /\ bg = "written" /\ bg' = "running" /\ copied' = 0
        /\ UNCHANGED <<inner_pos, inner_io_error, abort_request, seek_completed, seek_ret,
                       seek_pos>>
        /\ \/ /\ copied = 0 /\ io_eof_reached' = TRUE
              /\ io_error' = IF inner_io_error # "none" THEN inner_io_error ELSE io_error
           \/ UNCHANGED <<io_error, io_eof_reached>>
    BY <1>5 DEF BgPublish, ioVars, sourceVars, seekVars
  <2>2. io_error = "none"
    BY <2>1 DEF EndInv
  <2>3. EndInv'
    BY <1>0, <2>1, <2>2 DEF EndInv, ReaderUntouched
  <2>4. CASE io_error' \in {"EIO", "EXIT"}
    BY <1>0, <2>3, <2>4, TroubleComes DEF File!Next, InTrouble
  <2>5. CASE io_error' \notin {"EIO", "EXIT"}
    <3>1. (abort_request \/ io_error \in {"EIO", "EXIT"})' =
          (abort_request \/ io_error \in {"EIO", "EXIT"})
      BY <1>0, <2>1, <2>2, <2>5
    <3>2. UNCHANGED File!vars
      BY <1>0, <3>1, ReaderSeesNothing DEF File!vars
    <3> QED
      BY <2>3, <3>2
  <2> QED
    BY <2>4, <2>5
<1> QED
  BY <1>1, <1>2, <1>3, <1>4, <1>5 DEF Background

\* What EndInv says of the background thread is not touched by the reader, who may wake
\* it and abort.
LEMMA ReaderKeepsEnd ==
    ASSUME EndInv, opened, opened', seek_completed' => seek_completed,
           UNCHANGED <<inner_pos, inner_io_error, io_error, io_eof_reached, copied, seek_ret>>,
           bg' = bg \/ (bg' = "running" /\ bg = "asleep"),
           call'.op = "answer" => seek_pos' = call'.arg
    PROVE  EndInv'
BY DEF EndInv

\* An interrupt is trouble from now on; without it there is as much as before.
LEMMA InterruptSeen ==
    ASSUME RingInv, UNCHANGED io_error, NEW answer \in BOOLEAN, Interrupt(answer)
    PROVE  /\ answer => (abort_request \/ io_error \in {"EIO", "EXIT"})' = TRUE
           /\ ~answer => /\ ~abort_request /\ UNCHANGED abort_request
                         /\ (abort_request \/ io_error \in {"EIO", "EXIT"})' =
                            (abort_request \/ io_error \in {"EIO", "EXIT"})
<1>1. abort_request \in BOOLEAN
  BY DEF RingInv, TypeOK
<1>2. CASE answer = TRUE
  BY <1>2 DEF Interrupt
<1>3. CASE answer = FALSE
  <2>1. abort_request = FALSE /\ abort_request' = FALSE
    BY <1>1, <1>3 DEF Interrupt
  <2>2. UNCHANGED <<abort_request, io_error>>
    BY <2>1
  <2> QED
    BY <1>3, <2>1, <2>2
<1> QED
  BY <1>2, <1>3

\* What av_fifo_generic_peek_at finds behind the first k elements of a sequence.
LEMMA Middle ==
    ASSUME NEW S, NEW s \in Seq(S), NEW k \in Nat, NEW m \in Nat, k + m <= Len(s)
    PROVE  /\ SubSeq(s, k + 1, k + m) \in Seq(S)
           /\ Len(SubSeq(s, k + 1, k + m)) = m
           /\ \A i \in 1..m : SubSeq(s, k + 1, k + m)[i] = s[k + i]
<1>1. Len(s) \in Nat /\ \A i \in 1..Len(s) : s[i] \in S
  BY ElementOfSeq
<1>2. /\ k + 1 \in Int /\ k + m \in Int /\ k + m - (k + 1) + 1 = m
      /\ \A i \in (k + 1)..(k + m) : s[i] \in S
  BY <1>1
<1> DEFINE r == SubSeq(s, k + 1, k + m)
<1>3. /\ r \in Seq(S)
      /\ Len(r) = IF k + 1 <= k + m THEN k + m - (k + 1) + 1 ELSE 0
      /\ \A i \in 1..(k + m - (k + 1) + 1) : r[i] = s[k + 1 + i - 1]
  BY <1>2, SubSeqProperties
<1> HIDE DEF r
<1>4. Len(r) = m
  BY <1>3
<1>5. ASSUME NEW i \in 1..m PROVE r[i] = s[k + i]
  <2>1. k + 1 + i - 1 = k + i /\ i \in 1..(k + m - (k + 1) + 1)
    OBVIOUS
  <2> QED
    BY <1>3, <2>1
<1> QED
  BY <1>3, <1>4, <1>5 DEF r

\* The bytes a read returns are those of the file.
LEMMA BytesRead ==
    ASSUME RingInv, opened, ~abort_request, call.op # "answer",
           NEW n \in 1..RingSize
    PROVE  /\ SubSeq(fifo, read_pos + 1, read_pos + n) = [i \in 1..n |-> logical_pos + i - 1]
           /\ logical_pos + n <= FileSize
<1>1. /\ fifo \in Seq(Bytes) /\ Len(fifo) \in Nat /\ read_pos \in Nat /\ read_pos + n <= Len(fifo)
      /\ inner_pos \in 0..FileSize /\ logical_pos \in Nat /\ n \in Nat
  BY Sizes, AsyncAssumption DEF RingInv, TypeOK, RingSize, Bytes
<1>2. /\ inner_pos = logical_pos - read_pos + Len(fifo) + Unseen
      /\ \A i \in 1..Len(fifo) : fifo[i] = logical_pos - read_pos + i - 1
      /\ Unseen \in Nat
  BY AsyncAssumption DEF RingInv, TypeOK, RingIsWindowOfFile, RingOwner, Unseen
<1>3. logical_pos + n <= FileSize
  BY <1>1, <1>2, AsyncAssumption
<1> DEFINE s == SubSeq(fifo, read_pos + 1, read_pos + n)
           t == [i \in 1..n |-> logical_pos + i - 1]
<1>4. /\ s \in Seq(Bytes) /\ Len(s) = n
      /\ \A i \in 1..n : s[i] = fifo[read_pos + i]
  BY <1>1, Middle
<1>5. s \in Seq(Int)
  BY <1>4, AsyncAssumption DEF Bytes
<1>6. t \in Seq(Int) /\ Len(t) = n /\ \A i \in 1..n : t[i] = logical_pos + i - 1
  BY <1>1
<1>7. \A i \in 1..n : s[i] = t[i]
  BY <1>1, <1>2, <1>4, <1>6
<1> HIDE DEF s, t
<1>8. s = t
  BY <1>4, <1>5, <1>6, <1>7, SeqEqual
<1> QED
  BY <1>3, <1>8 DEF s, t

LEMMA NewCallIsSeen ==
    ASSUME RingInv, EndInv, Read \/ Seek \/ Close
    PROVE  EndInv' /\ File!Call
<1> USE DEF RingInv
<1>1. /\ opened /\ opened' /\ call = NoCall
      /\ UNCHANGED <<opened, logical_pos, logical_size, io_error, result, inner_pos,
                     inner_io_error, io_eof_reached, copied, seek_completed, seek_ret, seek_pos>>
      /\ bg' = bg \/ (bg' = "running" /\ bg = "asleep")
  BY DEF Read, Seek, Close, SignalBackground, sourceVars, seekVars, ioVars, chunkVars, CallInv,
         ringVars
<1>2. /\ call' \in [op : {"read"}, arg : 1..MaxRead] \cup [op : {"seek"}, arg : Targets]
                 \cup [op : {"close"}, arg : {0}]
      /\ call'.op \notin {"skip", "ask", "answer"}
      /\ IF call'.op = "close" THEN abort_request' = TRUE ELSE UNCHANGED abort_request
  BY DEF Read, Seek, Close
<1>3. EndInv'
  BY <1>1, <1>2, ReaderKeepsEnd
<1>4. CallInProgress = File!NoCall /\ CallInProgress' = call'
  BY <1>1, <1>2, CallSeen, NextCallSeen DEF NoCall, File!NoCall
<1>5. (abort_request \/ io_error \in {"EIO", "EXIT"})' =
         ((abort_request \/ io_error \in {"EIO", "EXIT"}) \/ call'.op = "close")
  BY <1>1, <1>2
<1> QED
  BY <1>1, <1>2, <1>3, <1>4, <1>5 DEF File!Call

LEMMA LoopReadsIsSeen ==
    ASSUME RingInv, EndInv, LoopReads
    PROVE  EndInv' /\ File!Next
<1> DEFINE n == Smaller(call.arg, RingSize)
<1>1. /\ call.op \in {"read", "skip"} /\ call \in Calls /\ call.arg > 0 /\ call.arg \in Int /\ opened
      /\ logical_pos \in Nat /\ RingSize \in Nat /\ FileSize \in Nat
  <2>1. opened
    BY InCall DEF RingInv, LoopReads
  <2> QED
    BY <2>1, Sizes, AsyncAssumption DEF RingInv, CallInv, TypeOK, LoopReads, Calls
<1>2. /\ Interrupt(FALSE) /\ RingSize > 0 /\ logical_pos' = logical_pos + n
      /\ bg' = bg \/ (bg' = "running" /\ bg = "asleep")
      /\ UNCHANGED <<opened, logical_size, io_error, inner_pos, inner_io_error, io_eof_reached,
                     copied, seek_completed, seek_ret, seek_pos>>
      /\ \/ /\ call.op = "read" /\ call' = NoCall
            /\ result' = [code |-> "ok", data |-> SubSeq(fifo, read_pos + 1, read_pos + n),
                          pos |-> 0]
         \/ /\ call.op = "skip" /\ n = call.arg /\ call' = NoCall
            /\ result' = [code |-> "ok", data |-> <<>>, pos |-> logical_pos']
         \/ /\ call.op = "skip" /\ n < call.arg /\ call' = [call EXCEPT !.arg = @ - n]
            /\ UNCHANGED result
  BY DEF LoopReads, SignalBackground, Return, sourceVars, seekVars, ioVars, chunkVars
<1>3. /\ ~abort_request
      /\ (abort_request \/ io_error \in {"EIO", "EXIT"})' =
            (abort_request \/ io_error \in {"EIO", "EXIT"})
  BY <1>2, InterruptSeen
<1>4. n \in 1..RingSize /\ n \in Nat /\ n > 0 /\ n <= call.arg
  BY <1>1, <1>2 DEF Smaller
<1>5. /\ SubSeq(fifo, read_pos + 1, read_pos + n) = [i \in 1..n |-> logical_pos + i - 1]
      /\ logical_pos + n <= FileSize
  BY <1>1, <1>3, <1>4, BytesRead
<1>6. EndInv'
  <2>1. call'.op # "answer"
    BY <1>1, <1>2 DEF NoCall, Calls
  <2> QED
    BY <1>1, <1>2, <2>1, ReaderKeepsEnd
<1> HIDE DEF n
<1>7. call' = NoCall => CallInProgress' = File!NoCall
  BY NextCallSeen DEF NoCall, File!NoCall
<1>8. CASE call.op = "read"
  <2>1. CallInProgress = call
    BY <1>8, CallSeen
  <2>2. /\ call' = NoCall
        /\ result' = [code |-> "ok", data |-> [i \in 1..n |-> logical_pos + i - 1], pos |-> 0]
    BY <1>2, <1>5, <1>8
  <2>3. n \in 1..call.arg
    BY <1>1, <1>4
  <2>4. UNCHANGED (logical_size > 0)
    BY <1>2
  <2>5. File!ReadReturns
    BY <1>2, <1>3, <1>5, <1>7, <1>8, <2>1, <2>2, <2>3, <2>4 DEF File!ReadReturns
  <2> QED
    BY <1>6, <2>5 DEF File!Next, File!Return
<1>9. CASE call.op = "skip" /\ n = call.arg /\ call' = NoCall
  <2>1. CallInProgress = [op |-> "seek", arg |-> logical_pos + n]
    BY <1>9, CallSeen
  <2>2. /\ logical_pos + n \in 0..FileSize
        /\ result' = [code |-> "ok", data |-> <<>>, pos |-> logical_pos']
    BY <1>1, <1>2, <1>4, <1>5, <1>9
  <2>3. File!SeekReturns
    BY <1>2, <1>3, <1>7, <1>9, <2>1, <2>2 DEF File!SeekReturns
  <2> QED
    BY <1>6, <2>3 DEF File!Next, File!Return
<1>10. CASE /\ call.op = "skip" /\ n < call.arg /\ call' = [call EXCEPT !.arg = @ - n]
            /\ UNCHANGED result
  <2>1. CallInProgress = [op |-> "seek", arg |-> logical_pos + call.arg]
    BY <1>10, CallSeen
  <2>2. call'.op = "skip" /\ call'.arg = call.arg - n
    BY <1>1, <1>4, <1>10 DEF Calls
  <2>3. CallInProgress' = [op |-> "seek", arg |-> logical_pos' + call'.arg]
    BY <2>2, NextCallSeen
  <2>4. logical_pos' + call'.arg = logical_pos + call.arg
    BY <1>1, <1>2, <1>4, <2>2
  <2>5. CallInProgress' = CallInProgress
    BY <2>1, <2>3, <2>4
  <2>6. logical_pos' \in logical_pos..FileSize /\ logical_pos' <= CallInProgress.arg
    BY <1>1, <1>2, <1>4, <1>5, <2>1, <1>10
  <2>7. File!Advance
    BY <1>2, <1>3, <1>10, <2>1, <2>5, <2>6 DEF File!Advance
  <2> QED
    BY <1>6, <2>7 DEF File!Next
<1> QED
  BY <1>2, <1>8, <1>9, <1>10

LEMMA LoopEndsIsSeen ==
    ASSUME RingInv, EndInv, LoopEnds
    PROVE  EndInv' /\ File!Next
<1>1. /\ call.op \in {"read", "skip"} /\ call \in Calls /\ call.arg > 0 /\ call.arg \in Int /\ opened
      /\ logical_pos \in 0..FileSize /\ FileSize \in Nat /\ io_error \in {"none", "EOF", "EIO", "EXIT"}
  <2>1. opened
    BY InCall DEF RingInv, LoopEnds
  <2> QED
    BY <2>1, AsyncAssumption DEF RingInv, CallInv, TypeOK, LoopEnds, Calls
<1>2. PICK code \in {"EXIT", "EIO", "EOF"} :
          /\ \/ Interrupt(TRUE) /\ code = "EXIT"
             \/ /\ Interrupt(FALSE) /\ NothingLeft
                /\ code = IF io_error # "none" THEN io_error ELSE "EOF"
          /\ IF call.op = "read" THEN Return(code, <<>>, 0) ELSE Return("ok", <<>>, logical_pos)
  BY DEF LoopEnds
<1>3. /\ bg' = bg \/ (bg' = "running" /\ bg = "asleep")
      /\ UNCHANGED <<opened, logical_pos, logical_size, io_error, inner_pos, inner_io_error,
                     io_eof_reached, copied, seek_completed, seek_ret, seek_pos>>
      /\ call' = NoCall
  BY <1>2 DEF LoopEnds, SignalBackground, Return, sourceVars, seekVars, ioVars, chunkVars
<1>4. EndInv'
  BY <1>1, <1>3, ReaderKeepsEnd DEF NoCall
<1>5. CallInProgress' = File!NoCall
  BY <1>3, NextCallSeen DEF NoCall, File!NoCall
<1> DEFINE Bad == abort_request \/ io_error \in {"EIO", "EXIT"}
\* The end without an error, and without an interrupt, is the end of the file.
<1>6. \/ Bad' = TRUE /\ code = "EXIT"
      \/ Bad' = Bad /\ ~abort_request /\ NothingLeft /\ code = "EOF" /\ io_error \in {"none", "EOF"}
      \/ Bad' = Bad /\ Bad /\ code \in {"EIO", "EXIT"}
  <2>1. CASE Interrupt(TRUE) /\ code = "EXIT"
    <3>1. Bad' = TRUE
      BY <1>3, <2>1, InterruptSeen
    <3> QED
      BY <2>1, <3>1, Zenon
  <2>2. CASE /\ Interrupt(FALSE) /\ NothingLeft
             /\ code = IF io_error # "none" THEN io_error ELSE "EOF"
    <3>1. ~abort_request /\ Bad' = Bad
      BY <1>3, <2>2, InterruptSeen
    <3>2. CASE io_error \in {"none", "EOF"}
      <4>1. code = "EOF"
        BY <2>2, <3>2
      <4> QED
        BY <2>2, <3>1, <3>2, <4>1, Zenon
    <3>3. CASE io_error \in {"EIO", "EXIT"}
      <4>1. code \in {"EIO", "EXIT"}
        BY <2>2, <3>3
      <4> QED
        BY <3>1, <3>3, <4>1
    <3> QED
      BY <1>1, <3>2, <3>3
  <2> QED
    BY <1>2, <2>1, <2>2
<1>7. ASSUME ~abort_request, NothingLeft, io_error \in {"none", "EOF"}
      PROVE  logical_pos = FileSize
  <2>1. inner_pos = FileSize
    BY <1>7 DEF EndInv, NothingLeft
  <2>2. inner_pos = logical_pos - read_pos + Len(fifo)
    <3>1. Unseen = 0
      BY <1>7 DEF EndInv, NothingLeft, Unseen
    <3> QED
      BY <1>1, <1>7, <3>1, Sizes DEF RingInv, RingIsWindowOfFile, RingOwner, TypeOK
  <2>3. read_pos \in 0..Len(fifo) /\ Len(fifo) \in Nat /\ Len(fifo) - read_pos <= 0
    BY <1>7, Sizes DEF RingInv, TypeOK, NothingLeft, RingSize
  <2> QED
    BY <1>1, <2>1, <2>2, <2>3
<1>8. UNCHANGED (logical_size > 0)
  BY <1>3
<1>9. CASE call.op = "read"
  <2>1. CallInProgress.op = "read"
    BY <1>9, CallSeen
  <2>2. result' = [code |-> code, data |-> <<>>, pos |-> 0]
    BY <1>2, <1>9 DEF Return
  <2>3. /\ code \in {"EOF", "EIO", "EXIT"}
        /\ code = "EOF" => logical_pos = FileSize
        /\ code = "EIO" => Bad
        /\ Bad' = (Bad \/ code = "EXIT")
    BY <1>6, <1>7
  <2>4. File!ReadFails
    BY <1>3, <1>5, <1>8, <2>1, <2>2, <2>3 DEF File!ReadFails
  <2> QED
    BY <1>4, <2>4 DEF File!Next, File!Return
<1>10. CASE call.op = "skip"
  <2>1. CallInProgress = [op |-> "seek", arg |-> logical_pos + call.arg]
    BY <1>10, CallSeen
  <2>2. result' = [code |-> "ok", data |-> <<>>, pos |-> logical_pos']
    BY <1>2, <1>3, <1>10 DEF Return
  <2>3. logical_pos < logical_pos + call.arg
    BY <1>1
  <2>4. /\ Bad' \in {Bad, TRUE}
        /\ logical_pos = FileSize \/ Bad'
    BY <1>6, <1>7
  <2>5. File!SeekReturns
    BY <1>3, <1>5, <1>8, <2>1, <2>2, <2>3, <2>4 DEF File!SeekReturns
  <2> QED
    BY <1>4, <2>5 DEF File!Next, File!Return
<1> QED
  BY <1>1, <1>9, <1>10

\* A seek that the ring or its arguments decide, without the background thread.
LEMMA SeekHereIsSeen ==
    ASSUME RingInv, EndInv, SeekHere
    PROVE  EndInv' /\ File!Next
<1>1. /\ call.op = "seek" /\ call.arg \in Int /\ opened
      /\ logical_pos \in 0..FileSize /\ FileSize \in Nat /\ logical_size \in {0, FileSize}
  <2>1. opened
    BY InCall DEF RingInv, SeekHere
  <2> QED
    BY <2>1, AsyncAssumption DEF RingInv, CallInv, TypeOK, SeekHere, Calls
<1>2. /\ UNCHANGED <<opened, logical_pos, logical_size, io_error, abort_request, inner_pos,
                     inner_io_error, io_eof_reached, copied, seek_completed, seek_ret, seek_pos, bg>>
      /\ call' = NoCall
      /\ \/ call.arg = logical_pos /\ result' = [code |-> "ok", data |-> <<>>, pos |-> logical_pos]
         \/ /\ call.arg < 0 \/ logical_size <= 0 \/ call.arg > logical_size
            /\ result' = [code |-> "EINVAL", data |-> <<>>, pos |-> 0]
  BY DEF SeekHere, Return, sourceVars, seekVars, ioVars, chunkVars
<1>3. EndInv'
  BY <1>1, <1>2, ReaderKeepsEnd DEF NoCall
<1>4. CallInProgress = call /\ CallInProgress' = File!NoCall
  BY <1>1, <1>2, CallSeen, NextCallSeen DEF NoCall, File!NoCall
<1> DEFINE Bad == abort_request \/ io_error \in {"EIO", "EXIT"}
<1>5. Bad' = Bad /\ Bad' = (Bad \/ FALSE) /\ UNCHANGED (logical_size > 0)
  BY <1>2
<1>6. CASE call.arg = logical_pos /\ result' = [code |-> "ok", data |-> <<>>, pos |-> logical_pos]
  <2>1. File!SeekReturns
    BY <1>1, <1>2, <1>4, <1>5, <1>6 DEF File!SeekReturns
  <2> QED
    BY <1>3, <2>1 DEF File!Next, File!Return
<1>7. CASE /\ call.arg < 0 \/ logical_size <= 0 \/ call.arg > logical_size
           /\ result' = [code |-> "EINVAL", data |-> <<>>, pos |-> 0]
  <2>1. ~(logical_size > 0) \/ call.arg \notin 0..FileSize
    BY <1>1, <1>7
  <2>2. File!SeekFails
    BY <1>1, <1>2, <1>4, <1>5, <1>7, <2>1 DEF File!SeekFails
  <2> QED
    BY <1>3, <2>2 DEF File!Next, File!Return
<1> QED
  BY <1>2, <1>6, <1>7

LEMMA SeekBackIsSeen ==
    ASSUME RingInv, EndInv, SeekBack
    PROVE  EndInv' /\ File!Next
<1>1. /\ call.op = "seek" /\ call.arg \in Int /\ call.arg >= 0 /\ call.arg < logical_pos /\ opened
      /\ logical_pos \in 0..FileSize /\ FileSize \in Nat
  <2>1. opened
    BY InCall DEF RingInv, SeekBack
  <2> QED
    BY <2>1, AsyncAssumption DEF RingInv, CallInv, TypeOK, SeekBack, Calls
<1>2. /\ UNCHANGED <<opened, logical_size, io_error, abort_request, inner_pos,
                     inner_io_error, io_eof_reached, copied, seek_completed, seek_ret, seek_pos, bg>>
      /\ logical_pos' = call.arg /\ call' = NoCall
      /\ result' = [code |-> "ok", data |-> <<>>, pos |-> call.arg]
  BY DEF SeekBack, Return, sourceVars, seekVars, ioVars, chunkVars
<1>3. EndInv'
  BY <1>1, <1>2, ReaderKeepsEnd DEF NoCall
<1>4. CallInProgress = call /\ CallInProgress' = File!NoCall
  BY <1>1, <1>2, CallSeen, NextCallSeen DEF NoCall, File!NoCall
<1>5. UNCHANGED <<(abort_request \/ io_error \in {"EIO", "EXIT"}), (logical_size > 0)>>
  BY <1>2
<1>6. call.arg \in 0..FileSize
  BY <1>1
<1>7. File!SeekReturns
  BY <1>1, <1>2, <1>4, <1>5, <1>6 DEF File!SeekReturns
<1> QED
  BY <1>3, <1>7 DEF File!Next, File!Return

\* Steps of a call that its caller does not see.
LEMMA InsideCall ==
    ASSUME EndInv, opened,
           UNCHANGED <<opened, logical_pos, logical_size, io_error, abort_request, inner_pos,
                       inner_io_error, io_eof_reached, copied, seek_ret, result>>,
           seek_completed' => seek_completed,
           bg' = bg \/ (bg' = "running" /\ bg = "asleep"),
           call'.op = "answer" => seek_pos' = call'.arg,
           CallInProgress' = CallInProgress
    PROVE  EndInv' /\ UNCHANGED File!vars
<1>1. EndInv'
  BY ReaderKeepsEnd
<1>2. UNCHANGED File!vars
  BY Zenon DEF File!vars
<1> QED
  BY <1>1, <1>2

LEMMA HiddenSteps ==
    ASSUME RingInv, EndInv, LoopWaits \/ SeekForward \/ SeekSlowly
    PROVE  EndInv' /\ UNCHANGED File!vars
<1>1. call \in Calls /\ logical_pos \in Nat /\ opened
  <2>1. opened
    BY InCall DEF RingInv, LoopWaits, SeekForward, SeekSlowly
  <2> QED
    BY <2>1, AsyncAssumption DEF RingInv, CallInv, TypeOK
<1>2. /\ UNCHANGED <<opened, logical_pos, logical_size, io_error, inner_pos, inner_io_error,
                     io_eof_reached, copied, seek_completed, seek_ret, seek_pos, result>>
      /\ bg' = bg \/ (bg' = "running" /\ bg = "asleep")
  BY DEF LoopWaits, SeekForward, SeekSlowly, SignalBackground, sourceVars, seekVars, ioVars,
         chunkVars
<1>3. UNCHANGED abort_request
  BY <1>2, InterruptSeen DEF LoopWaits, SeekForward, SeekSlowly
<1>4. CallInProgress' = CallInProgress /\ call'.op # "answer"
  <2>1. CASE LoopWaits
    <3>1. call' = call /\ call.op \in {"read", "skip"}
      BY <2>1 DEF LoopWaits
    <3> QED
      BY <1>2, <3>1, CallSeen, NextCallSeen
  <2>2. CASE SeekForward
    <3>1. call.op = "seek" /\ call' = [op |-> "skip", arg |-> call.arg - logical_pos]
      BY <2>2 DEF SeekForward
    <3>2. CallInProgress' = [op |-> "seek", arg |-> logical_pos' + (call.arg - logical_pos)]
      BY <3>1, NextCallSeen
    <3>3. logical_pos' + (call.arg - logical_pos) = call.arg
      BY <1>1, <1>2 DEF Calls
    <3>4. CallInProgress = call /\ call = [op |-> "seek", arg |-> call.arg]
      BY <1>1, <3>1, CallSeen DEF Calls
    <3> QED
      BY <3>1, <3>2, <3>3, <3>4
  <2>3. CASE SeekSlowly
    <3>1. call.op = "seek" /\ call'.op = "ask" /\ call'.arg = call.arg
      BY <1>1, <2>3 DEF SeekSlowly, Calls
    <3>2. CallInProgress' = [op |-> "seek", arg |-> call.arg]
      BY <3>1, NextCallSeen
    <3>3. CallInProgress = call /\ call = [op |-> "seek", arg |-> call.arg]
      BY <1>1, <3>1, CallSeen DEF Calls
    <3> QED
      BY <3>1, <3>2, <3>3
  <2> QED
    BY <2>1, <2>2, <2>3
<1> QED
  BY <1>1, <1>2, <1>3, <1>4, InsideCall

\* A seek that waits for the background thread, or is interrupted.
LEMMA SlowSeekIsSeen ==
    ASSUME RingInv, EndInv, SeekAsks \/ SeekAnswered
    PROVE  EndInv' /\ (File!Next \/ UNCHANGED File!vars)
<1>1. /\ call.op \in {"ask", "answer"} /\ call \in Calls /\ opened /\ seek_pos \in 0..FileSize
      /\ logical_pos \in 0..FileSize /\ FileSize \in Nat /\ seek_ret \in {"none", "ok", "EIO"}
  <2>1. opened
    BY InCall DEF RingInv, SeekAsks, SeekAnswered
  <2> QED
    BY <2>1, AsyncAssumption DEF RingInv, CallInv, TypeOK, SeekAsks, SeekAnswered
<1>2. /\ UNCHANGED <<opened, logical_size, io_error, inner_pos, inner_io_error,
                     io_eof_reached, copied>>
      /\ bg' = bg \/ (bg' = "running" /\ bg = "asleep")
      /\ ~seek_completed' \/ UNCHANGED <<seek_completed, seek_ret, seek_pos>>
  BY DEF SeekAsks, SeekAnswered, SignalBackground, sourceVars, seekVars, ioVars, chunkVars
<1>3. CallInProgress = [op |-> "seek", arg |-> call.arg]
  BY <1>1, CallSeen
<1>4. UNCHANGED (logical_size > 0)
  BY <1>2
<1> DEFINE Bad == abort_request \/ io_error \in {"EIO", "EXIT"}
<1>5. ASSUME call'.op = "answer" => seek_pos' = call'.arg
      PROVE  EndInv'
  BY <1>1, <1>2, <1>5 DEF EndInv
<1>6. ASSUME call' = NoCall
      PROVE  EndInv' /\ CallInProgress' = File!NoCall
  BY <1>5, <1>6, NextCallSeen DEF NoCall, File!NoCall
<1>7. CASE Interrupt(TRUE) /\ Return("EXIT", <<>>, 0) /\ UNCHANGED logical_pos
  <2>1. Bad' = (Bad \/ "EXIT" = "EXIT")
    BY <1>2, <1>7, InterruptSeen
  <2>2. call' = NoCall /\ result' = [code |-> "EXIT", data |-> <<>>, pos |-> 0]
    BY <1>7 DEF Return
  <2>3. File!SeekFails
    BY <1>2, <1>3, <1>4, <1>6, <1>7, <2>1, <2>2 DEF File!SeekFails
  <2> QED
    BY <1>6, <2>2, <2>3 DEF File!Next, File!Return
<1>8. CASE SeekAsks /\ Interrupt(FALSE) /\ call' = [call EXCEPT !.op = "answer"] /\ UNCHANGED result
  <2>1. call.op = "ask" /\ seek_pos' = call.arg /\ UNCHANGED logical_pos
    BY <1>8 DEF SeekAsks
  <2>2. call'.op = "answer" /\ call'.arg = call.arg
    BY <1>1, <1>8 DEF Calls
  <2>3. CallInProgress' = CallInProgress
    BY <1>3, <2>2, NextCallSeen
  <2>4. UNCHANGED abort_request
    BY <1>2, <1>8, InterruptSeen
  <2>5. UNCHANGED File!vars
    BY <1>2, <1>8, <2>1, <2>3, <2>4, Zenon DEF File!vars
  <2> QED
    BY <1>5, <2>1, <2>2, <2>5
<1>9. CASE SeekAnswered /\ Interrupt(FALSE) /\ seek_completed
           /\ IF seek_ret = "ok"
              THEN logical_pos' = seek_pos /\ Return("ok", <<>>, seek_pos)
              ELSE UNCHANGED logical_pos /\ Return(seek_ret, <<>>, 0)
  <2>1. call.op = "answer" /\ seek_pos = call.arg /\ seek_ret \in {"ok", "EIO"} /\ call' = NoCall
    BY <1>1, <1>9 DEF EndInv, SeekAnswered, Return
  <2>2. Bad' = Bad /\ Bad' = (Bad \/ FALSE)
    BY <1>2, <1>9, InterruptSeen
  <2>3. CASE seek_ret = "ok"
    <3>1. /\ logical_pos' = call.arg /\ call.arg \in 0..FileSize
          /\ result' = [code |-> "ok", data |-> <<>>, pos |-> logical_pos']
      BY <1>1, <1>9, <2>1, <2>3 DEF Return
    <3>2. File!SeekReturns
      BY <1>2, <1>3, <1>4, <1>6, <2>1, <2>2, <3>1 DEF File!SeekReturns
    <3> QED
      BY <1>6, <2>1, <3>2 DEF File!Next, File!Return
  <2>4. CASE seek_ret = "EIO"
    <3>1. UNCHANGED logical_pos /\ result' = [code |-> "EIO", data |-> <<>>, pos |-> 0]
      BY <1>9, <2>4 DEF Return
    <3>2. File!SeekFails
      BY <1>2, <1>3, <1>4, <1>6, <2>1, <2>2, <3>1 DEF File!SeekFails
    <3> QED
      BY <1>6, <2>1, <3>2 DEF File!Next, File!Return
  <2> QED
    BY <2>1, <2>3, <2>4
<1>10. CASE SeekAnswered /\ Interrupt(FALSE) /\ UNCHANGED <<logical_pos, call, result>>
  <2>1. UNCHANGED <<seek_completed, seek_ret, seek_pos>>
    BY <1>10 DEF SeekAnswered, seekVars
  <2>2. CallInProgress' = CallInProgress
    BY <1>3, <1>10, <1>1, NextCallSeen
  <2>3. UNCHANGED abort_request
    BY <1>2, <1>10, InterruptSeen
  <2>4. UNCHANGED File!vars
    BY <1>2, <1>10, <2>2, <2>3, Zenon DEF File!vars
  <2>5. call'.op = "answer" => seek_pos' = call'.arg
    BY <1>10, <2>1 DEF EndInv
  <2> QED
    BY <1>5, <2>4, <2>5
<1> QED
  BY <1>7, <1>8, <1>9, <1>10 DEF SeekAsks, SeekAnswered

LEMMA RestIsSeen ==
    ASSUME RingInv, EndInv, Open \/ CloseJoins \/ SpuriousWakeup \/ UNCHANGED vars
    PROVE  EndInv' /\ (File!Next \/ UNCHANGED File!vars)
<1>1. CASE Open
  <2>1. /\ ~opened /\ opened' = TRUE /\ logical_pos' = 0 /\ logical_size' \in {FileSize, 0}
        /\ ~io_eof_reached' /\ io_error' = "none" /\ abort_request' = FALSE /\ ~seek_completed'
        /\ bg' = "running" /\ result' = NoResult /\ UNCHANGED call
    BY <1>1 DEF Open
  <2>2. call = NoCall
    BY <2>1 DEF RingInv, CallInv
  <2>3. EndInv'
    BY <2>1, <2>2 DEF EndInv, NoCall
  <2>4. CallInProgress' = CallInProgress
    BY <2>1, <2>2, CallSeen, NextCallSeen DEF NoCall
  <2>5. (abort_request \/ io_error \in {"EIO", "EXIT"})' = FALSE /\ (logical_size > 0)' \in BOOLEAN
    BY <2>1
  <2>6. File!Open
    BY <2>1, <2>4, <2>5 DEF File!Open, NoResult, File!NoResult
  <2> QED
    BY <2>3, <2>6 DEF File!Next
<1>2. CASE CloseJoins
  <2>1. /\ call.op = "close" /\ opened' = FALSE /\ bg' = "none" /\ call' = NoCall
        /\ UNCHANGED <<logical_pos, logical_size, io_error, abort_request, inner_pos,
                       inner_io_error, io_eof_reached, copied, seek_completed, seek_ret, seek_pos,
                       result>>
    BY <1>2 DEF CloseJoins, sourceVars, seekVars, ioVars, chunkVars
  <2>2. EndInv'
    BY <2>1 DEF EndInv, NoCall
  <2>3. CallInProgress = call /\ CallInProgress' = File!NoCall
    BY <2>1, CallSeen, NextCallSeen DEF NoCall, File!NoCall
  <2>4. UNCHANGED <<(abort_request \/ io_error \in {"EIO", "EXIT"}), (logical_size > 0)>>
    BY <2>1
  <2>5. File!CloseReturns
    BY <2>1, <2>3, <2>4 DEF File!CloseReturns
  <2> QED
    BY <2>2, <2>5 DEF File!Next, File!Return
<1>3. CASE SpuriousWakeup \/ UNCHANGED vars
  <2>1. /\ UNCHANGED <<opened, logical_pos, logical_size, io_error, abort_request, inner_pos,
                       inner_io_error, io_eof_reached, copied, seek_completed, seek_ret, seek_pos,
                       call, result>>
        /\ bg' = bg \/ (bg' = "running" /\ bg = "asleep")
    BY <1>3 DEF SpuriousWakeup, vars, sourceVars, seekVars, ioVars, chunkVars
  <2>2. EndInv'
    BY <2>1 DEF EndInv
  <2>3. UNCHANGED File!vars
    BY <2>1, ReaderSeesNothing DEF ReaderUntouched
  <2> QED
    BY <2>2, <2>3
<1> QED
  BY <1>1, <1>2, <1>3

\* Every step of async.c's two threads is a step of the file its caller reads, or one the
\* caller cannot see: in particular the end of the file is reported there and nowhere else.
THEOREM StepsOfFile == Spec => File!Init /\ [][File!Next]_(File!vars)
<1>1. Init => EndInv /\ File!Init
  <2> SUFFICES ASSUME Init
               PROVE  EndInv /\ File!Init
    OBVIOUS
  <2>1. EndInv
    BY DEF Init, EndInv, NoCall
  <2>2. CallInProgress = File!NoCall
    BY CallSeen DEF Init, NoCall, File!NoCall
  <2>3. /\ (abort_request \/ io_error \in {"EIO", "EXIT"}) = FALSE
        /\ (logical_size > 0) \in BOOLEAN
    BY DEF Init
  <2>4. File!Init
    BY <2>2, <2>3 DEF Init, File!Init, NoResult, File!NoResult
  <2> QED
    BY <2>1, <2>4
<1>2. RingInv /\ EndInv /\ [Next]_vars => EndInv' /\ [File!Next]_(File!vars)
  <2> SUFFICES ASSUME RingInv, EndInv, [Next]_vars
               PROVE  EndInv' /\ (File!Next \/ UNCHANGED File!vars)
    OBVIOUS
  <2>1. CASE Background
    BY <2>1, BackgroundIsSeen
  <2>2. CASE Read \/ Seek \/ Close
    BY <2>2, NewCallIsSeen DEF File!Next
  <2>3. CASE ReaderStep
    BY <2>3, LoopReadsIsSeen, LoopEndsIsSeen, SeekHereIsSeen, SeekBackIsSeen, HiddenSteps,
       SlowSeekIsSeen, RestIsSeen DEF ReaderStep
  <2>4. CASE Open \/ SpuriousWakeup \/ UNCHANGED vars
    BY <2>4, RestIsSeen
  <2> QED
    BY <2>1, <2>2, <2>3, <2>4 DEF Next
<1> QED
  BY <1>1, <1>2, RingCorrect, PTL DEF Spec

-----------------------------------------------------------------------------
(***************************************************************************)
(* Reader and background thread never wait for each other.                 *)
(***************************************************************************)

\* The background thread is on its way to one of its signals.
Active == bg \in {"running", "writing", "fetched", "written"}

\* While the reader sleeps, or waits for the background thread to end, that one
\* goes on.
NoCallHangs ==
    /\ reader = "asleep" => Active
    /\ call.op = "close" => abort_request /\ (Active \/ bg = "exited")

\* The inductive invariant: the thread ends for an abort only.
SleepInv ==
    /\ NoCallHangs
    /\ opened => bg # "none"
    /\ bg = "exited" => abort_request

LEMMA BackgroundKeepsOn ==
    ASSUME TypeOK, CallInv, SleepInv, Background
    PROVE  SleepInv'
<1> USE DEF SleepInv, NoCallHangs, Active, SignalMain
<1>1. UNCHANGED <<opened, call>>
  BY DEF Background, BgExit, BgSeek, BgWait, BgClaim, BgRead, BgReadFails, BgAppend,
         BgPublish, readerVars
<1>2. CASE BgExit
  BY <1>1, <1>2, Interrupts DEF BgExit, TypeOK
<1>3. CASE BgSeek
  BY <1>1, <1>3, Interrupts DEF BgSeek, TypeOK
<1>4. CASE BgWait
  BY <1>1, <1>4, Interrupts DEF BgWait, TypeOK
<1>5. CASE BgClaim
  BY <1>1, <1>5, Interrupts DEF BgClaim, readerVars, TypeOK
<1>6. CASE BgRead
  BY <1>1, <1>6 DEF BgRead, readerVars, TypeOK
<1>7. CASE BgReadFails
  BY <1>1, <1>7, Interrupts DEF BgReadFails, readerVars, TypeOK
<1>8. CASE BgAppend
  BY <1>1, <1>8 DEF BgAppend, readerVars, TypeOK
<1>9. CASE BgPublish
  BY <1>1, <1>9 DEF BgPublish, TypeOK
<1> QED
  BY <1>2, <1>3, <1>4, <1>5, <1>6, <1>7, <1>8, <1>9 DEF Background

\* The reader goes to sleep after it has woken the background thread, and not
\* after an abort.
LEMMA ReaderSleepsSafely ==
    ASSUME TypeOK, CallInv, SleepInv, opened,
           opened', call'.op # "close",
           \/ reader' # "asleep" /\ bg' = bg
           \/ reader' # "asleep" /\ SignalBackground
           \/ ~abort_request /\ SignalBackground,
           abort_request => abort_request'
    PROVE  SleepInv'
BY DEF SleepInv, NoCallHangs, Active, SignalBackground, TypeOK

LEMMA ReaderKeepsOn ==
    ASSUME TypeOK, CallInv, SleepInv, ReaderStep
    PROVE  SleepInv'
<1>1. CASE CloseJoins
  BY <1>1 DEF CloseJoins, SleepInv, NoCallHangs, NoCall
<1> SUFFICES ASSUME ~CloseJoins, reader = "running", call.op \notin {"none", "close"}
             PROVE  SleepInv'
  BY <1>1 DEF ReaderStep, LoopReads, LoopEnds, LoopWaits, SeekHere, SeekBack, SeekForward,
              SeekSlowly, SeekAsks, SeekAnswered
<1>2. opened
  BY InCall
<1> USE <1>2, ReaderSleepsSafely
<1>3. CASE LoopReads
  <2>1. /\ ~abort_request /\ SignalBackground /\ opened' = opened
        /\ call'.op # "close"
    BY <1>3, Interrupts DEF LoopReads, Return, NoCall, CallInv, Calls
  <2> QED
    BY <2>1
<1>4. CASE LoopEnds
  <2>1. /\ reader' = "out" /\ call' = NoCall /\ SignalBackground /\ opened' = opened
        /\ (abort_request => abort_request')
    BY <1>4, Interrupts DEF LoopEnds, Return
  <2> QED
    BY <2>1 DEF NoCall
<1>5. CASE LoopWaits
  BY <1>5, Interrupts DEF LoopWaits
<1>6. CASE SeekHere \/ SeekBack
  <2>1. /\ reader' = "out" /\ call' = NoCall /\ bg' = bg /\ opened' = opened
        /\ abort_request' = abort_request
    BY <1>6 DEF SeekHere, SeekBack, Return
  <2> QED
    BY <2>1 DEF NoCall
<1>7. CASE SeekForward \/ SeekSlowly
  <2>1. /\ reader' = reader /\ bg' = bg /\ opened' = opened /\ abort_request' = abort_request
    BY <1>7 DEF SeekForward, SeekSlowly
  <2>2. call'.op # "close"
    <3>1. CASE SeekForward
      BY <3>1 DEF SeekForward
    <3>2. CASE SeekSlowly
      BY <3>2 DEF SeekSlowly, CallInv, Calls
    <3> QED
      BY <1>7, <3>1, <3>2
  <2> QED
    BY <2>1, <2>2
<1>8. CASE SeekAsks
  <2>1. CASE Interrupt(TRUE)
    BY <1>8, <2>1, Interrupts DEF SeekAsks, Return, NoCall, Interrupt, CallInv, Calls
  <2>2. CASE Interrupt(FALSE)
    <3>1. ~abort_request /\ ~abort_request' /\ opened' = opened
      BY <1>8, <2>2, Interrupts DEF SeekAsks
    <3>2. SignalBackground /\ call' = [call EXCEPT !.op = "answer"]
      BY <1>8, <3>1, Interrupts DEF SeekAsks
    <3> QED
      BY <3>1, <3>2 DEF CallInv, Calls
  <2> QED
    BY <1>8, <2>1, <2>2 DEF SeekAsks
<1>9. CASE SeekAnswered
  <2>1. CASE Interrupt(TRUE)
    <3>1. reader' = "out" /\ call' = NoCall /\ bg' = bg /\ opened' = opened /\ abort_request'
      BY <1>9, <2>1, Interrupts DEF SeekAnswered, Return
    <3> QED
      BY <3>1 DEF NoCall
  <2>2. CASE Interrupt(FALSE) /\ seek_completed
    <3>1. reader' = "out" /\ call' = NoCall /\ bg' = bg /\ opened' = opened /\ ~abort_request
      BY <1>9, <2>2, Interrupts DEF SeekAnswered, Return
    <3> QED
      BY <3>1 DEF NoCall
  <2>3. CASE Interrupt(FALSE) /\ ~seek_completed
    BY <1>9, <2>3, Interrupts DEF SeekAnswered
  <2> QED
    BY <1>9, <2>1, <2>2, <2>3 DEF SeekAnswered
<1> QED
  BY <1>3, <1>4, <1>5, <1>6, <1>7, <1>8, <1>9 DEF ReaderStep

LEMMA SleepStep == TypeOK /\ CallInv /\ SleepInv /\ [Next]_vars => SleepInv'
<1> SUFFICES ASSUME TypeOK, CallInv, SleepInv, [Next]_vars PROVE SleepInv'
  OBVIOUS
<1> USE DEF SleepInv, NoCallHangs, Active
<1>1. CASE Open
  BY <1>1 DEF Open, CallInv, NoCall
<1>2. CASE Read \/ Seek
  BY <1>2 DEF Read, Seek
<1>3. CASE Close
  BY <1>3 DEF Close, SignalBackground, TypeOK
<1>4. CASE SpuriousWakeup
  BY <1>4 DEF SpuriousWakeup
<1>5. CASE UNCHANGED vars
  BY <1>5 DEF vars
<1> QED
  BY <1>1, <1>2, <1>3, <1>4, <1>5, BackgroundKeepsOn, ReaderKeepsOn DEF Next

\* The two condition variables of async.c lose no wakeup: async_read, async_seek
\* and async_close never wait for a background thread that sleeps, or that has
\* ended without their knowledge.
THEOREM CallsNeverHang == Spec => []NoCallHangs
<1>1. Init => SleepInv
  BY DEF Init, SleepInv, NoCallHangs, NoCall
<1>2. RingInv /\ SleepInv /\ [Next]_vars => SleepInv'
  BY SleepStep DEF RingInv
<1>3. SleepInv => NoCallHangs
  BY DEF SleepInv
<1> QED
  BY <1>1, <1>2, <1>3, RingCorrect, PTL DEF Spec
=============================================================================
