-------------------------- MODULE PlayQueuesProofs --------------------------
(***************************************************************************)
(* Proofs about PlayQueues, for any number of packets, any size of the     *)
(* frame queue and any number of seeks and switches.                       *)
(*                                                                         *)
(* The invariants are proved one after the other, each with the help of    *)
(* the ones before: where the threads are while the stream is closed and   *)
(* opened (ThreadsInv), the types of the packet queue (QueueInv), the ring *)
(* of frames (RingInv), what the end of the stream means (EndInv), who has *)
(* quit (QuitInv), which seek packets and frames belong to (EpochInv), in  *)
(* which order they are (OrderInv), and who sleeps (NoWakeupLost).         *)
(***************************************************************************)
EXTENDS PlayQueues, SequenceTheorems, TLAPS

\* While there is no stream, neither the decoder nor the callback runs; and
\* packet_queue_start is called then only.
ThreadsInv ==
    /\ audio \in BOOLEAN /\ aborted \in BOOLEAN
    /\ main \in {"open", "opened"} => ~audio
    /\ main \in {"abort", "signal", "join", "device", "start"} => audio
    /\ main \in {"signal", "join", "device", "start"} => aborted
    /\ ~audio => aborted
    /\ ~audio \/ main \in {"device", "start"} => dec = "off"
    /\ ~audio \/ main = "start" => cb = "off"

\* packet_queue_put wakes the decoder, if it wakes anybody.
LEMMA PutWakes ==
  ASSUME NEW p, Put(p)
  PROVE  dec' = dec \/ (dec = "await_packet" /\ dec' = "get")
BY Zenon DEF Put, SignalPackets

\* What the reading thread leaves alone.
LEMMA ReadKeeps ==
  ReadStep =>
     /\ UNCHANGED <<aborted, ring, rindex, windex, size, rindex_shown, pkt_serial, finished,
                    codec, draining, pkt, audio, af, main, cb, inUse, played, switched>>
     /\ dec' = dec \/ (dec = "await_packet" /\ dec' = "get")
<1> SUFFICES ASSUME ReadStep
             PROVE  /\ UNCHANGED <<aborted, ring, rindex, windex, size, rindex_shown,
                          pkt_serial, finished, codec, draining, pkt, audio, af, main, cb,
                          inUse, played, switched>>
                    /\ dec' = dec \/ (dec = "await_packet" /\ dec' = "get")
  OBVIOUS
<1> USE DEF queueVars, ringVars, decVars, stateVars, histVars
<1>1. CASE ReadAborts \/ ReadSeek \/ ReadFlush \/ ReadSought \/ ReadFill \/ ReadCheck
           \/ ReadCheckFrames \/ ReadDone \/ ReadFrame \/ ReadAtEnd
  BY <1>1, Zenon DEF ReadAborts, ReadSeek, ReadFlush, ReadSought, ReadFill, ReadCheck,
     ReadCheckFrames, ReadDone, ReadFrame, ReadAtEnd
<1>2. CASE ReadPutFlush
  BY <1>2, PutWakes, Zenon DEF ReadPutFlush
<1>3. CASE ReadPut
  BY <1>3, PutWakes, Zenon DEF ReadPut
<1>4. CASE ReadPutNull
  BY <1>4, PutWakes, Zenon DEF ReadPutNull
<1> QED
  BY <1>1, <1>2, <1>3, <1>4, Zenon DEF ReadStep

\* What the commands of the user, a spurious wakeup and a stuttering step leave alone.
LEMMA OthersKeep ==
  UserSeeks \/ UserCycles \/ Quit \/ SpuriousWakeup \/ Terminated \/ UNCHANGED vars =>
     /\ UNCHANGED <<packets, aborted, serial, ring, rindex, windex, size, rindex_shown,
                    pkt_serial, finished, codec, draining, pkt, audio, eof, file, read, af,
                    epoch, inUse, played>>
     /\ dec' = dec \/ (dec = "await_packet" /\ dec' = "get")
                   \/ (dec = "await_slot" /\ dec' = "write")
     /\ cb' = cb \/ (cb = "await_frame" /\ cb' = "peek")
     /\ \/ main' = main
        \/ main = "idle" /\ main' = (IF audio THEN "abort" ELSE "open") /\ switched'
        \/ main = "idle" /\ main' = "wait_read"
     /\ switched' = switched \/ switched' = TRUE
<1> USE DEF queueVars, ringVars, decVars, stateVars, histVars
<1>1. CASE UserSeeks BY <1>1, Zenon DEF UserSeeks
<1>2. CASE UserCycles BY <1>2, Zenon DEF UserCycles
<1>3. CASE Quit BY <1>3, Zenon DEF Quit
<1>4. CASE SpuriousWakeup BY <1>4, Zenon DEF SpuriousWakeup
<1>5. CASE Terminated \/ UNCHANGED vars BY <1>5, Zenon DEF Terminated, vars
<1> QED
  BY <1>1, <1>2, <1>3, <1>4, <1>5, Zenon

LEMMA ThreadsInvariant == Spec => []ThreadsInv
<1>1. Init => ThreadsInv
  BY DEF Init, ThreadsInv
<1>2. ThreadsInv /\ [Next]_vars => ThreadsInv'
  <2> SUFFICES ASSUME ThreadsInv, [Next]_vars PROVE ThreadsInv'
    OBVIOUS
  <2>1. CASE ReadStep
    <3>1. /\ aborted' = aborted /\ audio' = audio /\ main' = main /\ cb' = cb
          /\ dec' = dec \/ (dec = "await_packet" /\ dec' = "get")
      BY <2>1, ReadKeeps, Zenon
    <3> QED
      BY <3>1 DEF ThreadsInv
  <2>2. CASE DecoderStep
    BY <2>2 DEF DecoderStep, DecStale, DecReceive, DecGet, DecGot, DecFeed, DecWrite, DecPush,
                ThreadsInv, queueVars, ringVars, decVars, stateVars, histVars
  <2>3. CASE CallbackStep
    BY <2>3 DEF CallbackStep, CallbackStarts, CallbackPeek, CallbackNext, CallbackTest,
                CallbackReturns, SignalFrames,
                ThreadsInv, queueVars, ringVars, decVars, stateVars, histVars
  <2>4. CASE MainStep
    <3> USE <2>4 DEF ThreadsInv, queueVars, ringVars, decVars, stateVars, histVars
    <3>1. CASE WaitRead BY <3>1 DEF WaitRead
    <3>2. CASE CloseAbort BY <3>2 DEF CloseAbort, SignalPackets
    <3>3. CASE CloseSignal BY <3>3 DEF CloseSignal, SignalSleeper, SignalFrames
    <3>4. CASE CloseJoin BY <3>4 DEF CloseJoin
    <3>5. CASE CloseStream BY <3>5 DEF CloseStream
    <3>6. CASE OpenCodec BY <3>6 DEF OpenCodec
    <3>7. CASE OpenStream BY <3>7 DEF OpenStream
    <3>8. CASE OpenStart BY <3>8 DEF OpenStart
    <3> QED
      BY <3>1, <3>2, <3>3, <3>4, <3>5, <3>6, <3>7, <3>8 DEF MainStep
  <2>5. CASE UserSeeks \/ UserCycles \/ Quit \/ SpuriousWakeup \/ Terminated \/ UNCHANGED vars
    <3>1. /\ aborted' = aborted /\ audio' = audio
          /\ dec = "off" => dec' = "off"
          /\ cb = "off" => cb' = "off"
          /\ \/ main' = main
             \/ main = "idle" /\ main' = (IF audio THEN "abort" ELSE "open")
             \/ main = "idle" /\ main' = "wait_read"
      BY <2>5, OthersKeep, Zenon
    <3> QED
      BY <3>1 DEF ThreadsInv
  <2> QED
    BY <2>1, <2>2, <2>3, <2>4, <2>5 DEF Next
<1> QED
  BY <1>1, <1>2, PTL DEF Spec

-----------------------------------------------------------------------------
Queued(ser) == [kind : {"flush", "null", "data"}, num : 0..NPackets, epoch : Nat,
                serial : 1..ser]
Taken == [kind : {"none", "flush", "null", "data"}, num : 0..NPackets, epoch : Nat,
          serial : Nat]

\* The types of the queue and of what the decoder has taken out of it: no
\* serial is ahead of the queue's, and a frame is made under a serial.
QueueInv ==
    /\ serial \in Nat /\ serial > 0
    /\ packets \in Seq(Queued(serial))
    /\ pkt \in Taken
    /\ codec \in Seq(Taken)
    /\ pkt_serial \in Int /\ -1 <= pkt_serial /\ pkt_serial <= serial
    /\ finished \in Nat /\ finished <= serial
    /\ epoch \in Nat
    /\ file \in Nat /\ 0 < file /\ file <= NPackets + 1 /\ (read = "put" => file > 1)
    /\ dec \in {"got", "feed", "write", "await_slot", "slot"} => pkt_serial > 0

LEMMA PacketTypes ==
  ASSUME NEW kind \in {"none", "flush", "null", "data"}, NEW num \in 0..NPackets,
         NEW ep \in Nat, NEW ser \in Nat
  PROVE  /\ Packet(kind, num, ep) \in Taken /\ Packet(kind, num, ep).kind = kind
         /\ FlushPacket(ser) = [kind |-> "flush", num |-> 0, epoch |-> 0, serial |-> ser]
BY PlayAssumption DEF Packet, FlushPacket, Taken

\* The packet p with another serial.
LEMMA Restamped ==
  ASSUME NEW p \in Taken, p.kind # "none", NEW ser \in Nat, ser > 0
  PROVE  /\ [p EXCEPT !.serial = ser] \in Queued(ser)
         /\ [p EXCEPT !.serial = ser].kind = p.kind
         /\ [p EXCEPT !.serial = ser].num = p.num
         /\ [p EXCEPT !.serial = ser].epoch = p.epoch
         /\ [p EXCEPT !.serial = ser].serial = ser
<1>1. /\ p.kind \in {"flush", "null", "data"} /\ p.num \in 0..NPackets /\ p.epoch \in Nat
      /\ p = [kind |-> p.kind, num |-> p.num, epoch |-> p.epoch, serial |-> p.serial]
  BY DEF Taken
<1>2. [p EXCEPT !.serial = ser] =
         [kind |-> p.kind, num |-> p.num, epoch |-> p.epoch, serial |-> ser]
  BY <1>1
<1> QED
  BY <1>1, <1>2 DEF Queued

\* packet_queue_put appends the packet with the queue's serial.
LEMMA PutAppends ==
  ASSUME NEW p \in Taken, p.kind # "none", Put(p), serial \in Nat, serial > 0,
         packets \in Seq(Queued(serial)), UNCHANGED aborted
  PROVE  /\ serial' \in Nat /\ serial' > 0 /\ serial <= serial'
         /\ packets' \in Seq(Queued(serial'))
         /\ \/ aborted /\ packets' = packets /\ serial' = serial
            \/ /\ ~aborted /\ serial' = (IF p.kind = "flush" THEN serial + 1 ELSE serial)
               /\ packets' = Append(packets, [p EXCEPT !.serial = serial'])
<1>1. CASE aborted
  BY <1>1 DEF Put
<1>2. CASE ~aborted
  <2>1. /\ serial' = IF p.kind = "flush" THEN serial + 1 ELSE serial
        /\ packets' = Append(packets, [p EXCEPT !.serial = serial'])
    BY <1>2, Zenon DEF Put
  <2>2. serial' \in Nat /\ serial' > 0 /\ serial <= serial'
    BY <2>1
  <2>3. [p EXCEPT !.serial = serial'] \in Queued(serial')
    BY <2>2, Restamped
  <2>4. packets \in Seq(Queued(serial'))
    <3>1. Queued(serial) \subseteq Queued(serial')
      BY <2>2 DEF Queued
    <3> QED
      BY <3>1, SeqMonotonic
  <2>5. packets' \in Seq(Queued(serial'))
    BY <2>1, <2>3, <2>4, AppendProperties
  <2> QED
    BY <1>2, <2>1, <2>2, <2>5
<1> QED
  BY <1>1, <1>2

LEMMA QueueInvariant == Spec => []QueueInv
<1>1. Init => QueueInv
  <2> SUFFICES ASSUME Init PROVE QueueInv
    OBVIOUS
  <2>1. FlushPacket(1) \in Queued(1) /\ pkt \in Taken
    BY PacketTypes, PlayAssumption DEF Queued, Init
  <2>2. packets \in Seq(Queued(serial)) /\ codec \in Seq(Taken)
    BY <2>1, EmptySeq DEF Init
  <2> QED
    BY <2>1, <2>2, PlayAssumption DEF Init, QueueInv
<1>2. ThreadsInv /\ QueueInv /\ [Next]_vars => QueueInv'
  <2> SUFFICES ASSUME ThreadsInv, QueueInv, [Next]_vars PROVE QueueInv'
    OBVIOUS
  <2>a. NPackets \in Nat
    BY PlayAssumption
  <2> USE <2>a
  <2>1. CASE ReadStep
    <3>1. /\ UNCHANGED <<aborted, pkt, codec, pkt_serial, finished>>
          /\ dec' = dec \/ (dec = "await_packet" /\ dec' = "get")
      BY <2>1, ReadKeeps, Zenon
    <3>2. CASE ReadAborts \/ ReadSought \/ ReadFill \/ ReadCheck \/ ReadCheckFrames
               \/ ReadDone \/ ReadAtEnd
      <4>1. UNCHANGED <<packets, serial, epoch, file>> /\ read' # "put"
        BY <3>2 DEF ReadAborts, ReadSought, ReadFill, ReadCheck, ReadCheckFrames, ReadDone,
           ReadAtEnd, queueVars, histVars
      <4> QED
        BY <3>1, <4>1 DEF QueueInv
    <3>3. CASE ReadSeek \/ ReadFrame
      <4>1. /\ UNCHANGED <<packets, serial, epoch>>
            /\ file' \in Nat /\ 0 < file' /\ file' <= NPackets + 1
        BY <3>3 DEF ReadSeek, ReadFrame, queueVars, histVars, QueueInv
      <4>2. read' = "put" => file' > 1
        BY <3>3 DEF ReadSeek, ReadFrame, queueVars, histVars, QueueInv
      <4> QED
        BY <3>1, <4>1, <4>2 DEF QueueInv
    <3>4. CASE ReadFlush
      <4>1. UNCHANGED <<serial, file>> /\ epoch' \in Nat /\ read' # "put"
        BY <3>4 DEF ReadFlush, QueueInv
      <4>2. packets' \in Seq(Queued(serial'))
        BY <3>4, <4>1, EmptySeq DEF ReadFlush, QueueInv
      <4> QED
        BY <3>1, <4>1, <4>2 DEF QueueInv
    <3>5. CASE ReadPutFlush
      <4>1. UNCHANGED <<aborted, file>> /\ epoch' = epoch + 1 /\ read' = "sought"
        BY <3>5, Zenon DEF ReadPutFlush
      <4>2. Put(FlushPacket(0)) /\ FlushPacket(0) \in Taken /\ FlushPacket(0).kind # "none"
        <5>1. Put(FlushPacket(0))
          BY <3>5, Zenon DEF ReadPutFlush
        <5>2. FlushPacket(0) = [kind |-> "flush", num |-> 0, epoch |-> 0, serial |-> 0]
          BY DEF FlushPacket, Packet
        <5> QED
          BY <5>1, <5>2 DEF Taken
      <4>3. serial' \in Nat /\ serial' > 0 /\ serial <= serial' /\ packets' \in Seq(Queued(serial'))
        BY <4>1, <4>2, PutAppends DEF QueueInv
      <4> QED
        BY <3>1, <4>1, <4>3 DEF QueueInv
    <3>6. CASE ReadPut \/ ReadPutNull
      <4>1. UNCHANGED <<aborted, file, epoch>> /\ read' # "put"
        BY <3>6 DEF ReadPut, ReadPutNull, histVars, queueVars
      <4>2. PICK p \in Taken : p.kind # "none" /\ (Put(p) \/ UNCHANGED <<packets, serial>>)
        <5>1. CASE ReadPut
          <6>1. file - 1 \in 0..NPackets /\ epoch \in Nat
            BY <5>1 DEF ReadPut, QueueInv
          <6> QED
            BY <5>1, <6>1, PacketTypes DEF ReadPut
        <5>2. CASE ReadPutNull
          <6>1. 0 \in 0..NPackets /\ 0 \in Nat
            OBVIOUS
          <6> QED
            BY <5>2, <6>1, PacketTypes DEF ReadPutNull
        <5> QED
          BY <3>6, <5>1, <5>2
      <4>3. serial' \in Nat /\ serial' > 0 /\ serial <= serial' /\ packets' \in Seq(Queued(serial'))
        <5>1. CASE Put(p)
          BY <4>1, <4>2, <5>1, PutAppends DEF QueueInv
        <5>2. CASE UNCHANGED <<packets, serial>>
          BY <5>2 DEF QueueInv
        <5> QED
          BY <4>2, <5>1, <5>2
      <4> QED
        BY <3>1, <4>1, <4>3 DEF QueueInv
    <3> QED
      BY <2>1, <3>2, <3>3, <3>4, <3>5, <3>6 DEF ReadStep
  <2>2. CASE DecoderStep
    <3> USE DEF queueVars, ringVars, decVars, stateVars, histVars
    <3>1. CASE DecStale \/ DecGot \/ DecWrite
      <4>1. UNCHANGED <<packets, serial, pkt, codec, pkt_serial, finished, epoch, file, read>>
        BY <3>1 DEF DecStale, DecGot, DecWrite
      <4>2. dec' \in {"got", "feed", "write", "await_slot", "slot"} => dec \in {"got", "write"}
        BY <3>1 DEF DecStale, DecGot, DecWrite
      <4> QED
        BY <4>1, <4>2 DEF QueueInv
    <3>2. CASE DecReceive
      <4>1. UNCHANGED <<packets, serial, epoch, file, read, pkt_serial>> /\ serial = pkt_serial
        BY <3>2 DEF DecReceive
      <4>2. finished' \in {finished, pkt_serial}
        BY <3>2 DEF DecReceive, EndOfStream
      <4>3. pkt' \in Taken /\ codec' \in Seq(Taken)
        BY <3>2, HeadTailProperties DEF DecReceive, QueueInv
      <4> QED
        BY <4>1, <4>2, <4>3 DEF QueueInv
    <3>3. CASE DecGet
      <4>1. UNCHANGED <<serial, codec, finished, epoch, file, read>>
        BY <3>3 DEF DecGet
      <4>2. CASE dec' # "got" /\ UNCHANGED <<packets, pkt, pkt_serial>>
        BY <3>3, <4>1, <4>2 DEF DecGet, QueueInv
      <4>3. CASE /\ packets # <<>> /\ pkt' = Head(packets) /\ packets' = Tail(packets)
                 /\ pkt_serial' = pkt'.serial /\ dec' = "got"
        <5>1. pkt' \in Queued(serial) /\ packets' \in Seq(Queued(serial))
          BY <4>3, HeadTailProperties DEF QueueInv
        <5>2. pkt' \in Taken /\ pkt_serial' \in Nat /\ pkt_serial' > 0 /\ pkt_serial' <= serial
          <6> DEFINE q == pkt'
          <6>1. q \in Queued(serial)
            BY <5>1
          <6> HIDE DEF q
          <6>2. q \in Taken /\ q.serial \in Nat /\ q.serial > 0 /\ q.serial <= serial
            BY <6>1 DEF QueueInv, Queued, Taken
          <6> QED
            BY <4>3, <6>2 DEF q
        <5> QED
          BY <4>1, <5>1, <5>2 DEF QueueInv
      <4> QED
        BY <3>3, <4>2, <4>3 DEF DecGet
    <3>4. CASE DecFeed
      <4>1. /\ UNCHANGED <<packets, serial, pkt_serial, epoch, file, read>> /\ dec' = "loop"
            /\ finished' \in {0, finished} /\ pkt' = Packet("none", 0, 0)
        BY <3>4 DEF DecFeed
      <4>2. pkt' \in Taken
        BY <4>1, PacketTypes
      <4>3. codec' \in Seq(Taken)
        <5>1. codec' \in {codec, <<>>, Append(codec, pkt)}
          BY <3>4 DEF DecFeed, FlushBuffers
        <5>2. <<>> \in Seq(Taken) /\ Append(codec, pkt) \in Seq(Taken)
          BY EmptySeq, AppendProperties DEF QueueInv
        <5> QED
          BY <5>1, <5>2 DEF QueueInv
      <4> QED
        BY <4>1, <4>2, <4>3 DEF QueueInv
    <3>5. CASE DecPush
      <4>1. /\ UNCHANGED <<packets, serial, codec, pkt_serial, finished, epoch, file, read>>
            /\ dec' \in {"exited", "loop", "failed"} /\ pkt' = Packet("none", 0, 0)
        BY <3>5 DEF DecPush
      <4>2. pkt' \in Taken
        BY <4>1, PacketTypes
      <4> QED
        BY <4>1, <4>2 DEF QueueInv
    <3> QED
      BY <2>2, <3>1, <3>2, <3>3, <3>4, <3>5 DEF DecoderStep
  <2>3. CASE CallbackStep
    <3>1. /\ UNCHANGED <<packets, serial, pkt, codec, pkt_serial, finished, epoch, file, read>>
          /\ dec' = dec \/ (dec = "await_slot" /\ dec' = "write")
      BY <2>3, Zenon DEF CallbackStep, CallbackStarts, CallbackPeek, CallbackNext, CallbackTest,
         CallbackReturns, SignalFrames, queueVars, ringVars, decVars, stateVars, histVars
    <3> QED
      BY <3>1 DEF QueueInv
  <2>4. CASE MainStep
    <3> USE DEF queueVars, ringVars, decVars, stateVars, histVars
    <3>1. CASE WaitRead \/ CloseAbort \/ CloseSignal \/ CloseStream \/ OpenCodec
      <4>1. /\ UNCHANGED <<packets, serial, pkt, codec, pkt_serial, finished, epoch, file, read>>
            /\ dec' = dec \/ (dec = "await_slot" /\ dec' = "write") \/ dec' = "get"
        BY <3>1, Zenon DEF WaitRead, CloseAbort, CloseSignal, CloseStream, OpenCodec,
           SignalPackets, SignalSleeper, SignalFrames
      <4> QED
        BY <4>1 DEF QueueInv
    <3>2. CASE CloseJoin
      <4>1. UNCHANGED <<serial, pkt, codec, pkt_serial, finished, epoch, file, read>>
        BY <3>2, Zenon DEF CloseJoin
      <4>2. dec' = "off" /\ packets' \in Seq(Queued(serial))
        BY <3>2, EmptySeq DEF CloseJoin
      <4> QED
        BY <4>1, <4>2 DEF QueueInv
    <3>3. CASE OpenStream
      <4>1. /\ UNCHANGED <<packets, serial, pkt, epoch, file, read, dec>>
            /\ \/ pkt_serial' = -1 /\ finished' = 0 /\ codec' = <<>>
               \/ UNCHANGED <<pkt_serial, finished, codec>>
        BY <3>3, Zenon DEF OpenStream
      <4>2. dec = "off"
        BY <3>3 DEF OpenStream, ThreadsInv
      <4>3. codec' \in Seq(Taken)
        BY <4>1, EmptySeq DEF QueueInv
      <4> QED
        BY <4>1, <4>2, <4>3 DEF QueueInv
    <3>4. CASE OpenStart
      <4>1. /\ UNCHANGED <<pkt, codec, pkt_serial, finished, epoch, file, read>>
            /\ dec' \in {"loop", "failed"} /\ serial' = serial + 1
            /\ packets' = Append(packets, FlushPacket(serial'))
        BY <3>4, Zenon DEF OpenStart
      <4>2. serial' \in Nat /\ serial' > 0
        BY <4>1 DEF QueueInv
      <4>3. FlushPacket(serial') \in Queued(serial')
        BY <4>2, PacketTypes DEF Queued
      <4>4. packets \in Seq(Queued(serial'))
        <5>1. Queued(serial) \subseteq Queued(serial')
          BY <4>1 DEF Queued, QueueInv
        <5> QED
          BY <5>1, SeqMonotonic DEF QueueInv
      <4>5. packets' \in Seq(Queued(serial'))
        BY <4>1, <4>3, <4>4, AppendProperties
      <4> QED
        BY <4>1, <4>2, <4>5 DEF QueueInv
    <3> QED
      BY <2>4, <3>1, <3>2, <3>3, <3>4 DEF MainStep
  <2>5. CASE UserSeeks \/ UserCycles \/ Quit \/ SpuriousWakeup \/ Terminated \/ UNCHANGED vars
    <3>1. /\ UNCHANGED <<packets, serial, pkt, codec, pkt_serial, finished, epoch, file, read>>
          /\ dec' = dec \/ (dec = "await_packet" /\ dec' = "get")
                        \/ (dec = "await_slot" /\ dec' = "write")
      BY <2>5, OthersKeep, Zenon
    <3> QED
      BY <3>1 DEF QueueInv
  <2> QED
    BY <2>1, <2>2, <2>3, <2>4, <2>5 DEF Next
<1> QED
  BY <1>1, <1>2, ThreadsInvariant, PTL DEF Spec

-----------------------------------------------------------------------------
\* The ring of frames: windex is size slots after rindex.  There is a free slot
\* for a decoder that has found one, and a frame for a callback that has seen
\* one, though both look without keeping the lock.  The callback's frame is the
\* one that frame_queue_next has kept.
RingInv ==
    /\ ring \in [Slots -> Frame]
    /\ rindex \in 0..(MaxFrames - 1) /\ windex \in 0..(MaxFrames - 1)
    /\ af \in 0..(MaxFrames - 1)
    /\ size \in Nat /\ size <= MaxFrames
    /\ rindex_shown \in {0, 1} /\ rindex_shown <= size
    /\ windex = IF rindex + size < MaxFrames THEN rindex + size ELSE rindex + size - MaxFrames
    /\ dec = "slot" /\ ~aborted => size < MaxFrames
    /\ cb = "peeked" /\ ~aborted => rindex_shown < size
    /\ cb \in {"test", "play"} => af = rindex /\ rindex_shown = 1 /\ ring[af] = inUse

\* An index that moves one slot on.
LEMMA NextSlot ==
  ASSUME NEW k \in Nat, k < 2 * MaxFrames
  PROVE  k % MaxFrames = IF k < MaxFrames THEN k ELSE k - MaxFrames
BY PlayAssumption

LEMMA RingInvariant == Spec => []RingInv
<1>1. Init => RingInv
  <2> SUFFICES ASSUME Init PROVE RingInv
    OBVIOUS
  <2>1. NoFrame \in Frame
    BY PlayAssumption DEF NoFrame, Frame
  <2>2. ring \in [Slots -> Frame]
    BY <2>1 DEF Init
  <2> QED
    BY <2>2, PlayAssumption DEF Init, RingInv
<1>2. ThreadsInv /\ QueueInv /\ RingInv /\ [Next]_vars => RingInv'
  <2> SUFFICES ASSUME ThreadsInv, QueueInv, RingInv, [Next]_vars PROVE RingInv'
    OBVIOUS
  <2>a. MaxFrames \in Nat /\ MaxFrames > 1
    BY PlayAssumption
  <2>b. aborted \in BOOLEAN
    BY DEF ThreadsInv
  <2>1. CASE ReadStep
    <3>1. /\ UNCHANGED <<aborted, ring, rindex, windex, size, rindex_shown, af, cb, inUse>>
          /\ dec' = "slot" => dec = "slot"
      BY <2>1, ReadKeeps, Zenon
    <3> QED
      BY <2>b, <3>1 DEF RingInv
  <2>2. CASE DecoderStep
    <3> USE DEF queueVars, ringVars, decVars, stateVars, histVars
    <3>1. CASE DecStale \/ DecReceive \/ DecGet \/ DecGot \/ DecFeed
      <4>1. /\ UNCHANGED <<aborted, ring, rindex, windex, size, rindex_shown, af, cb, inUse>>
            /\ dec' # "slot"
        BY <3>1 DEF DecStale, DecReceive, DecGet, DecGot, DecFeed
      <4> QED
        BY <2>b, <4>1 DEF RingInv
    <3>2. CASE DecWrite
      <4>1. /\ UNCHANGED <<aborted, ring, rindex, windex, size, rindex_shown, af, cb, inUse>>
            /\ dec' = IF NoSlot /\ ~aborted THEN "await_slot" ELSE "slot"
        BY <3>2, Zenon DEF DecWrite
      <4> QED
        BY <2>a, <2>b, <4>1 DEF RingInv, NoSlot
    <3>3. CASE DecPush
      <4>1. /\ UNCHANGED <<aborted, rindex, rindex_shown, af, inUse>> /\ dec = "slot"
            /\ dec' # "slot"
        BY <3>3, Zenon DEF DecPush
      <4>2. CASE aborted
        <5>1. UNCHANGED <<ring, windex, size, cb>>
          BY <3>3, <4>2, Zenon DEF DecPush
        <5> QED
          BY <2>b, <4>1, <5>1 DEF RingInv
      <4>3. CASE ~aborted
        <5> DEFINE frame == [epoch |-> pkt.epoch, num |-> pkt.num, serial |-> pkt_serial]
        <5>1. /\ ring' = [ring EXCEPT ![windex] = frame]
              /\ windex' = (windex + 1) % MaxFrames
              /\ size' = size + 1
              /\ cb' = IF cb = "await_frame" THEN "peek" ELSE cb
          BY <3>3, <4>3 DEF DecPush
        <5>2. frame \in Frame
          BY <4>1 DEF QueueInv, Taken, Frame
        <5> HIDE DEF frame
        <5>3. ring' \in [Slots -> Frame]
          BY <5>1, <5>2 DEF RingInv
        <5>4. size < MaxFrames
          BY <4>1, <4>3 DEF RingInv
        <5>5. windex' = IF windex + 1 < MaxFrames THEN windex + 1 ELSE windex + 1 - MaxFrames
          BY <2>a, <5>1, NextSlot DEF RingInv
        <5>6. cb \in {"test", "play"} => windex # rindex
          BY <2>a, <5>4 DEF RingInv
        <5>7. cb' \in {"test", "play"} => ring'[af'] = inUse'
          BY <4>1, <5>1, <5>6 DEF RingInv, Slots
        <5>8. cb' \in {"test", "play", "peeked"} => cb' = cb
          BY <5>1
        <5> QED
          BY <2>a, <4>1, <5>1, <5>3, <5>4, <5>5, <5>7, <5>8 DEF RingInv
      <4> QED
        BY <4>2, <4>3
    <3> QED
      BY <2>2, <3>1, <3>2, <3>3 DEF DecoderStep
  <2>3. CASE CallbackStep
    <3> USE DEF queueVars, ringVars, decVars, stateVars, histVars
    <3>1. CASE CallbackStarts \/ CallbackReturns
      <4>1. /\ UNCHANGED <<aborted, ring, rindex, windex, size, rindex_shown, dec>>
            /\ af' \in {af, 0} /\ cb' \in {"peek", "idle"}
        BY <3>1 DEF CallbackStarts, CallbackReturns
      <4> QED
        BY <2>a, <2>b, <4>1 DEF RingInv
    <3>2. CASE CallbackPeek
      <4>1. /\ UNCHANGED <<aborted, ring, rindex, windex, size, rindex_shown, dec, af, inUse>>
            /\ cb' = IF size - rindex_shown <= 0 /\ ~aborted THEN "await_frame" ELSE "peeked"
        BY <3>2, Zenon DEF CallbackPeek
      <4> QED
        BY <2>a, <2>b, <4>1 DEF RingInv
    <3>3. CASE CallbackTest
      <4>1. /\ UNCHANGED <<aborted, ring, rindex, windex, size, rindex_shown, dec>>
            /\ \/ cb' = "peek" /\ af' = 0
               \/ cb = "test" /\ cb' = "play" /\ UNCHANGED <<af, inUse>>
        BY <3>3, Zenon DEF CallbackTest
      <4> QED
        BY <2>a, <2>b, <4>1 DEF RingInv
    <3>4. CASE CallbackNext
      <4>1. UNCHANGED <<aborted, windex>> /\ cb = "peeked"
        BY <3>4, Zenon DEF CallbackNext
      <4>2. CASE aborted
        <5>1. UNCHANGED <<ring, rindex, size, rindex_shown, af, inUse, dec>> /\ cb' = "idle"
          BY <3>4, <4>2, Zenon DEF CallbackNext
        <5> QED
          BY <2>b, <4>1, <5>1 DEF RingInv
      <4>3. CASE ~aborted /\ rindex_shown = 0
        <5>1. /\ af' = (rindex + rindex_shown) % MaxFrames /\ inUse' = ring[af']
              /\ rindex_shown' = 1 /\ cb' = "test"
              /\ UNCHANGED <<ring, rindex, size, dec>>
          BY <3>4, <4>3, Zenon DEF CallbackNext, KeepsLast
        <5>2. af' = rindex
          BY <2>a, <4>3, <5>1, NextSlot DEF RingInv
        <5>3. rindex_shown < size
          BY <4>1, <4>3 DEF RingInv
        <5> QED
          BY <2>a, <2>b, <4>1, <4>3, <5>1, <5>2, <5>3 DEF RingInv
      <4>4. CASE ~aborted /\ rindex_shown # 0
        <5>1. /\ af' = (rindex + rindex_shown) % MaxFrames /\ inUse' = ring[af']
              /\ ring' = [ring EXCEPT ![rindex] = NoFrame]
              /\ rindex' = (rindex + 1) % MaxFrames /\ size' = size - 1
              /\ rindex_shown' = rindex_shown
          BY <3>4, <4>4, Zenon DEF CallbackNext, KeepsLast
        <5>2. cb' = "test" /\ dec' \in {dec, "write"}
          BY <3>4, <4>4 DEF CallbackNext, KeepsLast, SignalFrames
        <5>3. rindex_shown = 1 /\ rindex_shown < size
          BY <4>1, <4>4 DEF RingInv
        <5>4. /\ rindex' = IF rindex + 1 < MaxFrames THEN rindex + 1 ELSE rindex + 1 - MaxFrames
              /\ af' = rindex'
          BY <2>a, <5>1, <5>3, NextSlot DEF RingInv
        <5>5. NoFrame \in Frame
          BY PlayAssumption DEF NoFrame, Frame
        <5>6. ring' \in [Slots -> Frame]
          BY <5>1, <5>5 DEF RingInv
        <5>7. ring'[af'] = inUse'
          BY <2>a, <5>1, <5>4 DEF RingInv, Slots
        <5>8. /\ rindex' \in 0..(MaxFrames - 1) /\ size' \in Nat /\ size' <= MaxFrames
              /\ rindex_shown' <= size' /\ size' < MaxFrames
              /\ windex' = IF rindex' + size' < MaxFrames THEN rindex' + size'
                           ELSE rindex' + size' - MaxFrames
          BY <2>a, <4>1, <5>1, <5>3, <5>4 DEF RingInv
        <5> QED
          BY <2>a, <4>1, <5>1, <5>2, <5>3, <5>4, <5>6, <5>7, <5>8 DEF RingInv
      <4> QED
        BY <4>2, <4>3, <4>4
    <3> QED
      BY <2>3, <3>1, <3>2, <3>3, <3>4 DEF CallbackStep
  <2>4. CASE MainStep
    <3> USE DEF queueVars, ringVars, decVars, stateVars, histVars
    <3>1. UNCHANGED <<ring, rindex, windex, size, rindex_shown, af, inUse>>
      BY <2>4, Zenon DEF MainStep, WaitRead, CloseAbort, CloseSignal, CloseJoin, CloseStream,
         OpenCodec, OpenStream, OpenStart
    <3>2. CASE OpenStart
      <4>1. dec' \in {"loop", "failed"} /\ cb' \in {"idle", "off"}
        BY <3>2 DEF OpenStart, ThreadsInv
      <4> QED
        BY <3>1, <4>1 DEF RingInv
    <3>3. CASE ~OpenStart
      <4>1. /\ dec' = "slot" => dec = "slot"
            /\ cb' \in {"test", "play", "peeked"} => cb' = cb
        BY <2>4, <3>3 DEF MainStep, WaitRead, CloseAbort, CloseSignal, CloseJoin, CloseStream,
           OpenCodec, OpenStream, SignalPackets, SignalSleeper, SignalFrames
      <4>2. aborted' = aborted \/ aborted'
        BY <2>4, <3>3, Zenon DEF MainStep, WaitRead, CloseAbort, CloseSignal, CloseJoin,
           CloseStream, OpenCodec, OpenStream
      <4>3. ~aborted' => ~aborted
        BY <2>b, <4>2
      <4> QED
        BY <3>1, <4>1, <4>3 DEF RingInv
    <3> QED
      BY <3>2, <3>3
  <2>5. CASE UserSeeks \/ UserCycles \/ Quit \/ SpuriousWakeup \/ Terminated \/ UNCHANGED vars
    <3>1. /\ UNCHANGED <<aborted, ring, rindex, windex, size, rindex_shown, af, inUse>>
          /\ dec' = "slot" => dec = "slot"
          /\ cb' \in {"test", "play", "peeked"} => cb' = cb
      <4>1. /\ dec' = dec \/ (dec = "await_packet" /\ dec' = "get")
                          \/ (dec = "await_slot" /\ dec' = "write")
            /\ cb' = cb \/ (cb = "await_frame" /\ cb' = "peek")
        BY <2>5, OthersKeep, Zenon
      <4>2. UNCHANGED <<aborted, ring, rindex, windex, size, rindex_shown, af, inUse>>
        BY <2>5, OthersKeep, Zenon
      <4> QED
        BY <4>1, <4>2
    <3> QED
      BY <2>b, <3>1 DEF RingInv
  <2> QED
    BY <2>1, <2>2, <2>3, <2>4, <2>5 DEF Next
<1> QED
  BY <1>1, <1>2, ThreadsInvariant, QueueInvariant, PTL DEF Spec

-----------------------------------------------------------------------------
FlagsInv == eof \in BOOLEAN /\ seek_req \in BOOLEAN /\ abort_request \in BOOLEAN

LEMMA FlagsInvariant == Spec => []FlagsInv
<1>1. Init => FlagsInv
  BY DEF Init, FlagsInv
<1>2. FlagsInv /\ [Next]_vars => FlagsInv'
  <2> SUFFICES ASSUME [Next]_vars
               PROVE  /\ eof' = eof \/ eof' = TRUE \/ eof' = FALSE
                      /\ seek_req' = seek_req \/ seek_req' = TRUE \/ seek_req' = FALSE
                      /\ abort_request' = abort_request \/ abort_request' = TRUE
    BY DEF FlagsInv
  <2> USE DEF queueVars, ringVars, decVars, stateVars, histVars
  <2>1. CASE ReadStep
    BY <2>1, Zenon DEF ReadStep, ReadAborts, ReadSeek, ReadFlush, ReadPutFlush, ReadSought,
       ReadFill, ReadCheck, ReadCheckFrames, ReadDone, ReadFrame, ReadPut, ReadPutNull,
       ReadAtEnd
  <2>2. CASE DecoderStep
    BY <2>2, Zenon DEF DecoderStep, DecStale, DecReceive, DecGet, DecGot, DecFeed, DecWrite,
       DecPush
  <2>3. CASE CallbackStep
    BY <2>3, Zenon DEF CallbackStep, CallbackStarts, CallbackPeek, CallbackNext, CallbackTest,
       CallbackReturns
  <2>4. CASE MainStep
    BY <2>4, Zenon DEF MainStep, WaitRead, CloseAbort, CloseSignal, CloseJoin, CloseStream,
       OpenCodec, OpenStream, OpenStart
  <2>5. CASE UserSeeks \/ UserCycles \/ Quit \/ SpuriousWakeup \/ Terminated \/ UNCHANGED vars
    BY <2>5, Zenon DEF UserSeeks, UserCycles, Quit, SpuriousWakeup, Terminated, vars
  <2> QED
    BY <2>1, <2>2, <2>3, <2>4, <2>5, Zenon DEF Next
<1> QED
  BY <1>1, <1>2, PTL DEF Spec

\* Every variable keeps its type: the indexes of the frame queue stay in the
\* ring and its size within its slots, no serial is ahead of the packet queue's.
THEOREM TypeCorrect == Spec => []TypeOK
<1>1. ThreadsInv /\ QueueInv /\ RingInv /\ FlagsInv => TypeOK
  <2> SUFFICES ASSUME ThreadsInv, QueueInv, RingInv, FlagsInv PROVE TypeOK
    OBVIOUS
  <2> DEFINE P == [kind : {"flush", "null", "data"}, num : 0..NPackets, epoch : Nat,
                   serial : Nat \ {0}]
  <2>1. packets \in Seq(P)
    <3>1. Queued(serial) \subseteq P
      BY DEF QueueInv, Queued
    <3> QED
      BY <3>1, SeqMonotonic DEF QueueInv
  <2>2. windex = (rindex + size) % MaxFrames
    BY NextSlot, PlayAssumption DEF RingInv
  <2>3. /\ pkt_serial \in -1..serial /\ finished \in 0..serial /\ serial \in Nat \ {0}
        /\ file \in 1..(NPackets + 1)
    BY PlayAssumption DEF QueueInv
  <2>4. /\ size \in 0..MaxFrames /\ rindex_shown \in {0, 1} /\ rindex_shown <= size
        /\ rindex \in Slots /\ windex \in Slots /\ af \in Slots /\ ring \in [Slots -> Frame]
    BY PlayAssumption DEF RingInv, Slots
  <2> QED
    BY <2>1, <2>2, <2>3, <2>4, Zenon DEF ThreadsInv, FlagsInv, TypeOK
<1> QED
  BY <1>1, ThreadsInvariant, QueueInvariant, RingInvariant, FlagsInvariant, PTL

\* The slot of the frame the audio callback uses is not reused by the decoder,
\* for any size of the ring: frame_queue_next keeps it (keep_last) and a frame is
\* written only where there is room.
THEOREM CallbackFrameKept == Spec => []FrameInUseKept
<1>1. RingInv => FrameInUseKept
  BY DEF RingInv, FrameInUseKept
<1> QED
  BY <1>1, RingInvariant, PTL

-----------------------------------------------------------------------------
\* The end of the stream.  What the packet queue holds, as far as it matters:
NoKind(k)  == \A j \in 1..Len(packets) : packets[j].kind # k
HeadFlush  == packets # <<>> /\ packets[1].kind = "flush"
FlushFirst == \A j \in 1..Len(packets) : packets[j].kind = "flush" => j = 1
NullsLast  == \A j, k \in 1..Len(packets) :
                 j < k /\ packets[j].kind = "null" => packets[k].kind # "data"
AllCurrent == \A j \in 1..Len(packets) : packets[j].serial = serial

LEMMA EmptyPackets ==
  ASSUME packets' = <<>>
  PROVE  (\A k \in {"flush", "null", "data"} : NoKind(k)') /\ ~HeadFlush' /\ FlushFirst'
         /\ NullsLast' /\ AllCurrent'
<1>1. Len(packets') = 0
  BY EmptySeq
<1> QED
  BY <1>1 DEF NoKind, HeadFlush, FlushFirst, NullsLast, AllCurrent

LEMMA AppendedPacket ==
  ASSUME NEW ser \in Nat, packets \in Seq(Queued(ser)), NEW q \in Queued(ser),
         packets' = Append(packets, q)
  PROVE  /\ \A k \in {"flush", "null", "data"} : NoKind(k)' <=> NoKind(k) /\ q.kind # k
         /\ packets = <<>> => HeadFlush' = (q.kind = "flush")
         /\ HeadFlush => HeadFlush'
         /\ FlushFirst /\ (q.kind # "flush" \/ packets = <<>>) => FlushFirst'
         /\ NullsLast /\ (NoKind("null") \/ q.kind # "data") => NullsLast'
         /\ AllCurrent /\ (serial' = serial \/ packets = <<>>) /\ q.serial = serial'
               => AllCurrent'
<1>1. /\ Len(packets) \in Nat /\ Len(packets') = Len(packets) + 1
      /\ \A j \in 1..Len(packets) : packets'[j] = packets[j]
      /\ packets'[Len(packets) + 1] = q
  BY AppendProperties, LenProperties
<1>2. packets = <<>> <=> Len(packets) = 0
  BY EmptySeq
<1>3. packets' # <<>>
  BY <1>1, EmptySeq
<1>4. \A j \in 1..Len(packets') : j \in 1..Len(packets) \/ j = Len(packets) + 1
  BY <1>1
<1>5. Len(packets) + 1 \in 1..Len(packets') /\ \A j \in 1..Len(packets) : j \in 1..Len(packets')
  BY <1>1
<1>6. ASSUME NEW k \in {"flush", "null", "data"}
      PROVE  NoKind(k)' <=> NoKind(k) /\ q.kind # k
  BY <1>1, <1>4, <1>5 DEF NoKind
<1>7. packets = <<>> => HeadFlush' = (q.kind = "flush")
  BY <1>1, <1>2, <1>3 DEF HeadFlush
<1>8. HeadFlush => HeadFlush'
  <2>1. packets # <<>> => 1 \in 1..Len(packets)
    BY <1>1, <1>2
  <2> QED
    BY <1>1, <1>3, <2>1 DEF HeadFlush
<1>9. FlushFirst /\ (q.kind # "flush" \/ packets = <<>>) => FlushFirst'
  BY <1>1, <1>2, <1>4 DEF FlushFirst
<1>10. NullsLast /\ (NoKind("null") \/ q.kind # "data") => NullsLast'
  <2> SUFFICES ASSUME NullsLast, NoKind("null") \/ q.kind # "data",
                      NEW j \in 1..Len(packets'), NEW k \in 1..Len(packets'), j < k,
                      packets'[j].kind = "null"
               PROVE  packets'[k].kind # "data"
    BY DEF NullsLast
  <2>1. j \in 1..Len(packets) /\ packets[j].kind = "null"
    BY <1>1
  <2> QED
    BY <1>1, <1>4, <2>1 DEF NullsLast, NoKind
<1>11. AllCurrent /\ (serial' = serial \/ packets = <<>>) /\ q.serial = serial' => AllCurrent'
  BY <1>1, <1>2, <1>4 DEF AllCurrent
<1> QED
  BY <1>6, <1>7, <1>8, <1>9, <1>10, <1>11

LEMMA TakenPacket ==
  ASSUME NEW ser \in Nat, packets \in Seq(Queued(ser)), packets # <<>>,
         packets' = Tail(packets), serial' = serial
  PROVE  /\ \A k \in {"flush", "null", "data"} : NoKind(k) => NoKind(k)' /\ Head(packets).kind # k
         /\ FlushFirst => NoKind("flush")'
         /\ NullsLast => NullsLast'
         /\ NullsLast /\ Head(packets).kind = "null" => NoKind("data")'
         /\ HeadFlush <=> Head(packets).kind = "flush"
         /\ AllCurrent => AllCurrent' /\ Head(packets).serial = serial
<1>1. /\ Len(packets) \in Nat /\ Len(packets) > 0 /\ Len(packets') = Len(packets) - 1
      /\ \A j \in 1..Len(packets') : packets'[j] = packets[j + 1]
      /\ Head(packets) = packets[1]
  BY HeadTailProperties, LenProperties, EmptySeq
<1>2. /\ 1 \in 1..Len(packets)
      /\ \A j \in 1..Len(packets') : j + 1 \in 1..Len(packets) /\ j + 1 > 1 /\ j + 1 # 1
  BY <1>1
<1>3. ASSUME NEW k \in {"flush", "null", "data"}, NoKind(k)
      PROVE  NoKind(k)' /\ Head(packets).kind # k
  BY <1>1, <1>2, <1>3 DEF NoKind
<1>4. FlushFirst => NoKind("flush")'
  BY <1>1, <1>2 DEF FlushFirst, NoKind
<1>5. NullsLast => NullsLast'
  <2> SUFFICES ASSUME NullsLast, NEW j \in 1..Len(packets'), NEW k \in 1..Len(packets'), j < k,
                      packets'[j].kind = "null"
               PROVE  packets'[k].kind # "data"
    BY DEF NullsLast
  <2>1. /\ j + 1 \in 1..Len(packets) /\ k + 1 \in 1..Len(packets) /\ j + 1 < k + 1
        /\ packets[j + 1].kind = "null"
    BY <1>1, <1>2
  <2> QED
    BY <1>1, <2>1 DEF NullsLast
<1>6. NullsLast /\ Head(packets).kind = "null" => NoKind("data")'
  BY <1>1, <1>2 DEF NullsLast, NoKind
<1>7. HeadFlush <=> Head(packets).kind = "flush"
  BY <1>1 DEF HeadFlush
<1>8. AllCurrent => AllCurrent' /\ Head(packets).serial = serial
  BY <1>1, <1>2 DEF AllCurrent
<1> QED
  BY <1>3, <1>4, <1>5, <1>6, <1>7, <1>8

NoFlush == NoKind("flush")
NoNull  == NoKind("null")
NoData  == NoKind("data")

\* The decoder is at a packet of this kind, which it has not yet given to the codec.
Holds(k) == dec \in {"got", "feed"} /\ pkt.kind = k

\* The decoder has met the end of the stream, since the last seek.
Ending ==
    \/ finished = serial
    \/ pkt_serial = serial /\ (Holds("null") \/ (draining /\ ~Holds("flush")))

\* As long as the stream is not switched: what is queued is of the last seek, and
\* the decoder's serial is the queue's unless the flush packet of that seek is yet
\* to come.  A null packet stands for the end of the file: no data is behind it
\* and none is read after it.  A decoder that has finished has nothing left.
StreamEnd ==
    /\ audio /\ ~aborted /\ main \in {"idle", "wait_read"}
    /\ AllCurrent /\ FlushFirst /\ NullsLast
    /\ read = "put_flush" => packets = <<>>
    /\ pkt_serial = serial => NoFlush
    /\ pkt_serial # serial /\ read # "put_flush" => HeadFlush
    /\ finished = serial =>
          /\ pkt_serial = serial /\ codec = <<>> /\ dec \notin {"write", "await_slot", "slot"}
          /\ ~Holds("data") /\ ~Holds("flush")
    /\ Ending => NoData
    /\ Ending \/ ~NoNull =>
          (file = NPackets + 1 /\ read # "put") \/ read \in {"flush", "put_flush"}
    /\ read = "put_null" => file = NPackets + 1
    /\ read \in {"check_frames", "done"} => finished = serial
    /\ read = "done" => size = rindex_shown
EndInv == ~switched /\ read # "ended" => StreamEnd

LEMMA SamePackets ==
  ASSUME packets' = packets, serial' = serial
  PROVE  /\ NoFlush' <=> NoFlush
         /\ NoNull' <=> NoNull
         /\ NoData' <=> NoData
         /\ HeadFlush' <=> HeadFlush
         /\ FlushFirst' <=> FlushFirst
         /\ NullsLast' <=> NullsLast
         /\ AllCurrent' <=> AllCurrent
BY DEF NoFlush, NoNull, NoData, NoKind, HeadFlush, FlushFirst, NullsLast, AllCurrent

\* packet_queue_put of the open queue
LEMMA PutOne ==
  ASSUME NEW p \in Taken, p.kind # "none", Put(p), ~aborted, ~aborted', aborted' = aborted,
         QueueInv
  PROVE  /\ serial' = IF p.kind = "flush" THEN serial + 1 ELSE serial
         /\ NoFlush' <=> NoFlush /\ p.kind # "flush"
         /\ NoNull' <=> NoNull /\ p.kind # "null"
         /\ NoData' <=> NoData /\ p.kind # "data"
         /\ packets = <<>> => (HeadFlush' <=> p.kind = "flush")
         /\ HeadFlush => HeadFlush'
         /\ FlushFirst /\ (p.kind # "flush" \/ packets = <<>>) => FlushFirst'
         /\ NullsLast /\ (NoNull \/ p.kind # "data") => NullsLast'
         /\ AllCurrent /\ (p.kind # "flush" \/ packets = <<>>) => AllCurrent'
<1>1. /\ serial' = IF p.kind = "flush" THEN serial + 1 ELSE serial
      /\ packets' = Append(packets, [p EXCEPT !.serial = serial'])
  BY PutAppends DEF QueueInv
<1>2. serial' \in Nat /\ serial' > 0 /\ serial <= serial'
  BY <1>1 DEF QueueInv
<1>3. packets \in Seq(Queued(serial'))
  <2>1. Queued(serial) \subseteq Queued(serial')
    BY <1>2 DEF Queued, QueueInv
  <2> QED
    BY <2>1, SeqMonotonic DEF QueueInv
<1> DEFINE q == [p EXCEPT !.serial = serial']
<1>4. q \in Queued(serial') /\ q.kind = p.kind /\ q.serial = serial'
  BY <1>2, Restamped
<1>5. packets' = Append(packets, q)
  BY <1>1
<1> HIDE DEF q
<1>6. /\ \A k \in {"flush", "null", "data"} : NoKind(k)' <=> NoKind(k) /\ q.kind # k
      /\ packets = <<>> => HeadFlush' = (q.kind = "flush")
      /\ HeadFlush => HeadFlush'
      /\ FlushFirst /\ (q.kind # "flush" \/ packets = <<>>) => FlushFirst'
      /\ NullsLast /\ (NoKind("null") \/ q.kind # "data") => NullsLast'
      /\ AllCurrent /\ (serial' = serial \/ packets = <<>>) /\ q.serial = serial' => AllCurrent'
  BY <1>2, <1>3, <1>4, <1>5, AppendedPacket
<1> QED
  BY <1>1, <1>4, <1>6 DEF NoFlush, NoNull, NoData

\* packet_queue_get
LEMMA GetOne ==
  ASSUME QueueInv, packets # <<>>, packets' = Tail(packets), serial' = serial,
         AllCurrent, FlushFirst, NullsLast
  PROVE  /\ NoFlush'
         /\ NoNull => NoNull' /\ Head(packets).kind # "null"
         /\ NoData => NoData' /\ Head(packets).kind # "data"
         /\ NoFlush => Head(packets).kind # "flush"
         /\ Head(packets).kind = "null" => NoData'
         /\ HeadFlush <=> Head(packets).kind = "flush"
         /\ AllCurrent' /\ FlushFirst' /\ NullsLast'
         /\ Head(packets).serial = serial
<1>1. /\ \A k \in {"flush", "null", "data"} : NoKind(k) => NoKind(k)' /\ Head(packets).kind # k
      /\ FlushFirst => NoKind("flush")'
      /\ NullsLast => NullsLast'
      /\ NullsLast /\ Head(packets).kind = "null" => NoKind("data")'
      /\ HeadFlush <=> Head(packets).kind = "flush"
      /\ AllCurrent => AllCurrent' /\ Head(packets).serial = serial
  BY TakenPacket DEF QueueInv
<1>2. NoKind("flush")' => FlushFirst'
  BY DEF NoKind, FlushFirst
<1> QED
  BY <1>1, <1>2 DEF NoFlush, NoNull, NoData

\* The reading thread keeps StreamEnd.
LEMMA ReaderKeepsEnd ==
  ASSUME QueueInv, RingInv, StreamEnd, ReadStep, read' # "ended"
  PROVE  StreamEnd'
<1>1. /\ UNCHANGED <<aborted, audio, main, pkt_serial, finished, codec, draining, pkt, size,
                     rindex_shown>>
      /\ dec' = dec \/ (dec = "await_packet" /\ dec' = "get")
  BY ReadKeeps, Zenon
<1>2. \A k \in {"flush", "null", "data"} : Holds(k)' <=> Holds(k)
  BY <1>1 DEF Holds
<1>3. audio /\ ~aborted /\ NPackets \in Nat
  BY PlayAssumption DEF StreamEnd
<1> USE DEF queueVars, ringVars, decVars, stateVars, histVars
<1>4. CASE ReadAborts \/ ReadSeek \/ ReadSought \/ ReadFill \/ ReadCheck \/ ReadCheckFrames
           \/ ReadDone \/ ReadFrame \/ ReadAtEnd
  <2>1. packets' = packets /\ serial' = serial
    BY <1>4, Zenon DEF ReadAborts, ReadSeek, ReadSought, ReadFill, ReadCheck, ReadCheckFrames,
       ReadDone, ReadFrame, ReadAtEnd
  <2>2. \/ /\ file' = file /\ read' \notin {"put_flush", "put", "put_null"}
           /\ read' = "check_frames" => finished = serial
           /\ read' = "done" => read = "check_frames" /\ size = rindex_shown
           /\ read \notin {"put_flush", "flush"}
        \/ read = "top" /\ read' = "flush"
        \/ read = "read" /\ read' = "put" /\ file <= NPackets
        \/ read = "read" /\ read' = "put_null" /\ file > NPackets /\ file' = file
    <3>1. CASE ReadAborts \/ ReadSought \/ ReadFill \/ ReadDone \/ ReadAtEnd
      <4>1. /\ file' = file /\ read \notin {"put_flush", "flush"}
            /\ read' \notin {"put_flush", "put", "put_null", "check_frames", "done"}
        BY <3>1 DEF ReadAborts, ReadSought, ReadFill, ReadDone, ReadAtEnd
      <4> QED
        BY <4>1
    <3>2. CASE ReadSeek
      BY <3>2 DEF ReadSeek
    <3>3. CASE ReadCheck
      BY <1>3, <3>3 DEF ReadCheck, AllDecoded
    <3>4. CASE ReadCheckFrames
      <4>1. size - rindex_shown = 0 => size = rindex_shown
        BY DEF RingInv
      <4>2. read = "check_frames" => finished = serial
        BY DEF StreamEnd
      <4> QED
        BY <3>4, <4>1, <4>2 DEF ReadCheckFrames
    <3>5. CASE ReadFrame
      <4>1. ~(file <= NPackets) => file > NPackets
        BY <1>3 DEF QueueInv
      <4> QED
        BY <3>5, <4>1 DEF ReadFrame
    <3> QED
      BY <1>4, <3>1, <3>2, <3>3, <3>4, <3>5
  <2> QED
    BY <1>1, <1>2, <1>3, <2>1, <2>2, SamePackets DEF StreamEnd, Ending, QueueInv
<1>5. CASE ReadFlush
  <2>1. packets' = <<>> /\ read' = "put_flush" /\ serial' = serial /\ read = "flush"
    BY <1>3, <1>5 DEF ReadFlush
  <2>2. NoFlush' /\ NoNull' /\ NoData' /\ FlushFirst' /\ NullsLast' /\ AllCurrent'
    BY <2>1, EmptyPackets DEF NoFlush, NoNull, NoData
  <2> QED
    BY <1>1, <1>2, <1>3, <2>1, <2>2 DEF StreamEnd, Ending
<1>6. CASE ReadPutFlush
  <2>1. /\ Put(FlushPacket(0)) /\ read = "put_flush" /\ read' = "sought" /\ aborted' = aborted
    BY <1>6, Zenon DEF ReadPutFlush
  <2>2. FlushPacket(0) \in Taken /\ FlushPacket(0).kind = "flush"
    <3>1. FlushPacket(0) = [kind |-> "flush", num |-> 0, epoch |-> 0, serial |-> 0]
      BY DEF FlushPacket, Packet
    <3> QED
      BY <1>3, <3>1 DEF Taken
  <2>3. packets = <<>> /\ ~aborted' /\ AllCurrent /\ FlushFirst /\ NullsLast
    BY <1>1, <2>1 DEF StreamEnd
  <2>4. NoNull /\ NoData
    BY <2>3, EmptySeq DEF NoNull, NoData, NoKind
  <2>5. /\ serial' = serial + 1 /\ HeadFlush' /\ FlushFirst' /\ NullsLast' /\ AllCurrent'
        /\ NoNull' /\ NoData'
    BY <1>3, <2>1, <2>2, <2>3, <2>4, PutOne
  <2>6. pkt_serial' # serial' /\ finished' # serial'
    BY <1>1, <2>5 DEF QueueInv
  <2> QED
    BY <1>1, <1>2, <1>3, <2>1, <2>5, <2>6 DEF StreamEnd, Ending
<1>7. CASE ReadPut
  <2> DEFINE p == Packet("data", file - 1, epoch)
  <2>1. Put(p) /\ read = "put" /\ read' = "top" /\ aborted' = aborted /\ file' = file
    BY <1>3, <1>7, Zenon DEF ReadPut
  <2>2. p \in Taken /\ p.kind = "data"
    <3>1. file - 1 \in 0..NPackets /\ epoch \in Nat
      BY <1>3, <2>1 DEF QueueInv
    <3> QED
      BY <3>1, PacketTypes
  <2> HIDE DEF p
  <2>3. NoNull /\ ~Ending /\ ~aborted' /\ AllCurrent /\ FlushFirst /\ NullsLast
    BY <1>1, <2>1 DEF StreamEnd
  <2>4. /\ serial' = serial /\ (NoFlush' <=> NoFlush) /\ NoNull' /\ FlushFirst' /\ NullsLast'
        /\ AllCurrent' /\ (HeadFlush => HeadFlush')
    BY <1>3, <2>1, <2>2, <2>3, PutOne
  <2> QED
    BY <1>1, <1>2, <1>3, <2>1, <2>3, <2>4 DEF StreamEnd, Ending
<1>8. CASE ReadPutNull
  <2> DEFINE p == Packet("null", 0, 0)
  <2>1. Put(p) /\ read = "put_null" /\ read' = "at_end" /\ aborted' = aborted /\ file' = file
    BY <1>3, <1>8, Zenon DEF ReadPutNull
  <2>2. p \in Taken /\ p.kind = "null"
    <3>1. 0 \in 0..NPackets /\ 0 \in Nat
      BY <1>3
    <3> QED
      BY <3>1, PacketTypes
  <2> HIDE DEF p
  <2>3. ~aborted' /\ AllCurrent /\ FlushFirst /\ NullsLast /\ file = NPackets + 1
    BY <1>1, <2>1 DEF StreamEnd
  <2>4. /\ serial' = serial /\ (NoFlush' <=> NoFlush) /\ (NoData' <=> NoData) /\ FlushFirst'
        /\ NullsLast' /\ AllCurrent' /\ (HeadFlush => HeadFlush')
    BY <1>3, <2>1, <2>2, <2>3, PutOne
  <2> QED
    BY <1>1, <1>2, <1>3, <2>1, <2>3, <2>4 DEF StreamEnd, Ending
<1> QED
  BY <1>4, <1>5, <1>6, <1>7, <1>8 DEF ReadStep

\* The decoder thread keeps StreamEnd.
LEMMA DecoderKeepsEnd ==
  ASSUME QueueInv, StreamEnd, DecoderStep
  PROVE  StreamEnd'
<1> USE DEF queueVars, ringVars, decVars, stateVars, histVars
<1>1. /\ UNCHANGED <<aborted, audio, main, file, read, serial, rindex_shown>>
      /\ audio /\ ~aborted
  BY Zenon DEF DecoderStep, DecStale, DecReceive, DecGet, DecGot, DecFeed, DecWrite, DecPush,
               StreamEnd
<1>2. CASE DecStale \/ DecGot \/ DecWrite
  <2>1. /\ UNCHANGED <<packets, pkt, codec, draining, pkt_serial, finished, size>>
        /\ \/ dec = "loop" /\ dec' = "get" /\ serial # pkt_serial
           \/ dec = "got" /\ dec' = "get" /\ serial # pkt_serial
           \/ dec = "got" /\ dec' = "feed"
           \/ dec = "write" /\ dec' \in {"await_slot", "slot"}
    BY <1>2 DEF DecStale, DecGot, DecWrite
  <2> QED
    BY <1>1, <2>1, SamePackets DEF StreamEnd, Ending, Holds
<1>3. CASE DecReceive
  <2>1. dec = "loop" /\ pkt_serial = serial /\ UNCHANGED <<packets, pkt_serial, size>>
    BY <1>3, Zenon DEF DecReceive
  <2>2. \/ codec # <<>> /\ dec' \in {"write", "failed"} /\ UNCHANGED <<finished, draining>>
        \/ dec' = "get" /\ UNCHANGED <<pkt, codec, finished, draining>>
        \/ /\ draining /\ codec = <<>> /\ finished' = pkt_serial /\ draining' = FALSE
           /\ dec' = "loop" /\ codec' = codec
    BY <1>1, <1>3, Zenon DEF DecReceive, EndOfStream
  <2> QED
    BY <1>1, <2>1, <2>2, SamePackets DEF StreamEnd, Ending, Holds
<1>4. CASE DecGet
  <2>1. dec = "get" /\ UNCHANGED <<finished, codec, draining, size>>
    BY <1>4, Zenon DEF DecGet
  <2>2. CASE dec' = "await_packet" /\ UNCHANGED <<packets, pkt, pkt_serial>>
    BY <1>1, <2>1, <2>2, SamePackets DEF StreamEnd, Ending, Holds
  <2>3. CASE /\ packets # <<>> /\ pkt' = Head(packets) /\ packets' = Tail(packets)
             /\ pkt_serial' = pkt'.serial /\ dec' = "got"
    <3>1. AllCurrent /\ FlushFirst /\ NullsLast /\ serial' = serial
      BY <1>1 DEF StreamEnd
    <3>2. /\ NoFlush'
          /\ NoNull => NoNull' /\ pkt'.kind # "null"
          /\ NoData => NoData' /\ pkt'.kind # "data"
          /\ NoFlush => pkt'.kind # "flush"
          /\ pkt'.kind = "null" => NoData'
          /\ HeadFlush <=> pkt'.kind = "flush"
          /\ AllCurrent' /\ FlushFirst' /\ NullsLast'
          /\ pkt_serial' = serial
      BY <2>3, <3>1, GetOne
    <3>3. read # "put_flush"
      BY <2>3 DEF StreamEnd
    <3>4. Ending' => Ending \/ pkt'.kind = "null"
      BY <1>1, <2>1, <2>3, <3>2, <3>3 DEF StreamEnd, Ending, Holds
    <3> QED
      BY <1>1, <2>1, <2>3, <3>2, <3>3, <3>4 DEF StreamEnd, Ending, Holds
  <2> QED
    BY <1>1, <1>4, <2>2, <2>3, Zenon DEF DecGet
<1>5. CASE DecFeed
  <2>1. /\ dec = "feed" /\ dec' = "loop" /\ UNCHANGED <<packets, pkt_serial, size>>
        /\ \/ pkt.kind = "flush" /\ draining' = FALSE /\ finished' = 0
           \/ pkt.kind = "null" /\ draining' = TRUE /\ UNCHANGED <<codec, finished>>
           \/ pkt.kind = "data" /\ UNCHANGED <<draining, finished>>
    BY <1>5 DEF DecFeed, FlushBuffers
  <2>2. serial # 0
    BY DEF QueueInv
  <2>3. finished = serial => finished' = serial /\ codec' = codec
    BY <2>1, <2>2 DEF StreamEnd, Holds
  <2>4. ~Holds("flush")' /\ ~Holds("null")' /\ ~Holds("data")'
    BY <2>1 DEF Holds
  <2>5. finished' = serial => finished = serial
    BY <2>1, <2>2
  <2>6. Ending' => Ending
    BY <1>1, <2>1, <2>4, <2>5 DEF Ending, Holds
  <2> QED
    BY <1>1, <2>1, <2>3, <2>4, <2>5, <2>6, SamePackets DEF StreamEnd
<1>6. CASE DecPush
  <2>1. /\ dec = "slot" /\ dec' \in {"loop", "exited", "failed"}
        /\ UNCHANGED <<packets, codec, draining, pkt_serial, finished>>
    BY <1>6 DEF DecPush
  <2>2. finished # serial
    BY <2>1 DEF StreamEnd
  <2> QED
    BY <1>1, <2>1, <2>2, SamePackets DEF StreamEnd, Ending, Holds
<1> QED
  BY <1>2, <1>3, <1>4, <1>5, <1>6 DEF DecoderStep

LEMMA EndInvariant == Spec => []EndInv
<1>1. Init => EndInv
  <2> SUFFICES ASSUME Init PROVE StreamEnd
    BY DEF EndInv
  <2>1. /\ Len(packets) = 1 /\ packets[1] = FlushPacket(1) /\ packets # <<>>
        /\ FlushPacket(1).kind = "flush" /\ FlushPacket(1).serial = 1
    BY DEF Init, FlushPacket, Packet
  <2>2. FlushFirst /\ HeadFlush /\ NoNull /\ NoData /\ NullsLast /\ AllCurrent
    BY <2>1 DEF Init, FlushFirst, HeadFlush, NoNull, NoData, NoKind, NullsLast, AllCurrent
  <2> QED
    BY <2>2 DEF Init, StreamEnd, Ending
<1>2. ThreadsInv /\ QueueInv /\ RingInv /\ EndInv /\ [Next]_vars => EndInv'
  <2> SUFFICES ASSUME ThreadsInv, QueueInv, RingInv, EndInv, [Next]_vars,
                      ~switched', read' # "ended"
               PROVE  StreamEnd'
    BY DEF EndInv
  <2> USE DEF queueVars, ringVars, decVars, stateVars, histVars
  <2>1. CASE ReadStep
    <3>1. switched' = switched
      BY <2>1, ReadKeeps, Zenon
    <3>2. read # "ended"
      BY <2>1 DEF ReadStep, ReadAborts, ReadSeek, ReadFlush, ReadPutFlush, ReadSought, ReadFill,
         ReadCheck, ReadCheckFrames, ReadDone, ReadFrame, ReadPut, ReadPutNull, ReadAtEnd
    <3> QED
      BY <2>1, <3>1, <3>2, ReaderKeepsEnd DEF EndInv
  <2>2. CASE DecoderStep
    <3>1. switched' = switched /\ read' = read
      BY <2>2, Zenon DEF DecoderStep, DecStale, DecReceive, DecGet, DecGot, DecFeed, DecWrite,
         DecPush
    <3> QED
      BY <2>2, <3>1, DecoderKeepsEnd DEF EndInv
  <2>3. CASE CallbackStep
    <3>1. /\ switched' = switched /\ read' = read
          /\ UNCHANGED <<packets, aborted, serial, pkt_serial, finished, codec, draining, pkt,
                         audio, file, main>>
      BY <2>3, Zenon DEF CallbackStep, CallbackStarts, CallbackPeek, CallbackNext, CallbackTest,
         CallbackReturns
    <3>2. dec' = dec \/ (dec = "await_slot" /\ dec' = "write")
      BY <2>3, Zenon DEF CallbackStep, CallbackStarts, CallbackPeek, CallbackNext, CallbackTest,
         CallbackReturns, SignalFrames
    <3>3. StreamEnd
      BY <3>1 DEF EndInv
    <3>4. read = "done" => size' = size /\ rindex_shown' = rindex_shown
      <4>1. CASE CallbackNext
        <5>1. cb = "peeked" /\ ~aborted
          BY <3>3, <4>1 DEF CallbackNext, StreamEnd
        <5>2. rindex_shown # size
          BY <5>1 DEF RingInv
        <5> QED
          BY <3>3, <5>2 DEF StreamEnd
      <4>2. CASE ~CallbackNext
        BY <2>3, <4>2, Zenon DEF CallbackStep, CallbackStarts, CallbackPeek, CallbackTest,
           CallbackReturns
      <4> QED
        BY <4>1, <4>2
    <3> QED
      BY <3>1, <3>2, <3>3, <3>4, SamePackets DEF StreamEnd, Ending, Holds
  <2>4. CASE MainStep
    <3>1. /\ read' = read /\ switched' = switched
          /\ main \notin {"idle", "wait_read"} \/ read = "ended"
      BY <2>4 DEF MainStep, WaitRead, CloseAbort, CloseSignal, CloseJoin, CloseStream,
         OpenCodec, OpenStream, OpenStart
    <3> QED
      BY <3>1 DEF EndInv, StreamEnd
  <2>5. CASE UserSeeks \/ UserCycles \/ Quit \/ SpuriousWakeup \/ Terminated \/ UNCHANGED vars
    <3>1. /\ UNCHANGED <<packets, aborted, serial, size, rindex_shown, pkt_serial, finished,
                         codec, draining, pkt, audio, file, read>>
          /\ dec' = dec \/ (dec = "await_packet" /\ dec' = "get")
                        \/ (dec = "await_slot" /\ dec' = "write")
      BY <2>5, OthersKeep, Zenon
    <3>2. /\ main' = main \/ switched' \/ main' = "wait_read"
          /\ switched' = switched \/ switched' = TRUE
      BY <2>5, OthersKeep, Zenon
    <3>3. ~switched /\ (main' = main \/ main' = "wait_read")
      <4>1. switched' # TRUE
        OBVIOUS
      <4>2. switched' = switched
        BY <3>2, <4>1, Zenon
      <4> QED
        BY <3>2, <4>2
    <3> QED
      BY <3>1, <3>3, SamePackets DEF EndInv, StreamEnd, Ending, Holds
  <2> QED
    BY <2>1, <2>2, <2>3, <2>4, <2>5 DEF Next
<1> QED
  BY <1>1, <1>2, ThreadsInvariant, QueueInvariant, RingInvariant, PTL DEF Spec

\* The reading thread finds the playback to be over only when everything it has
\* read since the last seek is decoded and taken, for any number of packets, any
\* ring and any number of seeks, although it compares auddec.finished and
\* audioq.serial and counts the frames without stopping the decoder.
THEOREM PlaybackOverWhenAllTaken == Spec => []NothingPendingAtEnd
<1>1. EndInv => NothingPendingAtEnd
  BY DEF EndInv, StreamEnd, Ending, NoData, NoKind, NothingPendingAtEnd
<1> QED
  BY <1>1, EndInvariant, PTL
-----------------------------------------------------------------------------
\* As long as the user has not switched the stream it is closed only to quit, when the
\* reading thread has ended.
QuitInv ==
    /\ main \in {"wait_read", "gone"} => abort_request
    /\ ~switched =>
          /\ main \notin {"open", "opened", "start"}
          /\ main \in {"abort", "signal", "join", "device"} => abort_request
          /\ main \in {"abort", "signal", "join", "device", "gone"} \/ aborted => read = "ended"

\* The decoder has a packet's frame in hand.
HasFrame == dec \in {"write", "await_slot", "slot"}
\* The frame of the ring, the packet of the queue, is of the last seek.
Fresh(s)  == ring[s].serial = serial
Recent(j) == packets[j].serial = serial
FreshData(j) == Recent(j) /\ packets[j].kind = "data"

\* What has the serial of the packet queue was read after the last seek.  The codec
\* may hold older frames under that serial, until the flush packet in hand is fed to it;
\* that packet is the first of its serial in the queue, behind those of older serials.
EpochCurrent ==
    /\ \A s \in Slots : Fresh(s) => ring[s].epoch = epoch
    /\ \A j \in 1..Len(packets) : FreshData(j) => packets[j].epoch = epoch
    /\ \A i, j \in 1..Len(packets) : i < j /\ Recent(i) => Recent(j)
    /\ pkt_serial = serial => \A j \in 1..Len(packets) : Recent(j)
    /\ pkt_serial # serial =>
          \A j \in 1..Len(packets) : Recent(j) =>
              packets[j].kind = "flush" \/ \E i \in 1..Len(packets) : i < j /\ Recent(i)
    /\ pkt_serial # serial /\ read # "put_flush" /\ ~aborted =>
          \E j \in 1..Len(packets) : Recent(j)
    /\ pkt_serial = serial /\ (Holds("data") \/ HasFrame) => pkt.epoch = epoch
    /\ pkt_serial = serial /\ ~Holds("flush") => \A j \in 1..Len(codec) : codec[j].epoch = epoch
EpochInv ==
    /\ played \in Frame
    /\ \A s \in Slots : ring[s].serial <= serial
    /\ ~switched => played.epoch <= epoch
    /\ ~aborted \/ ~switched => EpochCurrent

\* The place of a slot in the ring.
Place(s) == IF s >= rindex THEN s - rindex ELSE s - rindex + MaxFrames

\* The packet number n comes after all that was read since the last seek and has got as
\* far as the audio device, the ring, the decoder's hands, and so on back to the file.
AfterPlayed(n) == played.epoch = epoch => played.num < n
AfterRing(n) == AfterPlayed(n) /\ \A s \in Slots : Fresh(s) => ring[s].num < n
AfterFrame(n) == AfterRing(n) /\ (HasFrame /\ pkt_serial = serial => pkt.num < n)
AfterCodec(n) ==
    AfterFrame(n) /\ (pkt_serial = serial /\ ~Holds("flush") =>
                         \A j \in 1..Len(codec) : codec[j].num < n)
AfterHeld(n) == AfterCodec(n) /\ (Holds("data") /\ pkt_serial = serial => pkt.num < n)
AfterPackets(n) ==
    AfterHeld(n) /\ \A j \in 1..Len(packets) : FreshData(j) => packets[j].num < n

\* As long as the stream is not switched, everything between the file and the device is
\* in the order of the file.
RingPlaces == \A s \in Slots : ring[s].serial # 0 => Place(s) < size
RingOrder ==
    /\ \A s, t \in Slots : Fresh(s) /\ Fresh(t) /\ Place(s) < Place(t) => ring[s].num < ring[t].num
    /\ \A s \in Slots : Fresh(s) /\ (Place(s) # 0 \/ rindex_shown = 0 \/ cb = "test") =>
           AfterPlayed(ring[s].num)
FrameOrder == HasFrame /\ pkt_serial = serial => AfterRing(pkt.num)
CodecOrder ==
    pkt_serial = serial /\ ~Holds("flush") =>
        /\ \A j \in 1..Len(codec) : AfterFrame(codec[j].num)
        /\ \A i, j \in 1..Len(codec) : i < j => codec[i].num < codec[j].num
HeldOrder == Holds("data") /\ pkt_serial = serial => AfterCodec(pkt.num)
PacketsOrder ==
    /\ \A j \in 1..Len(packets) : FreshData(j) => AfterHeld(packets[j].num)
    /\ \A i, j \in 1..Len(packets) : FreshData(i) /\ FreshData(j) /\ i < j =>
           packets[i].num < packets[j].num
FileOrder ==
    /\ read \notin {"flush", "put_flush", "put"} => AfterPackets(file)
    /\ read = "put" => AfterPackets(file - 1)
NumbersInv ==
    RingPlaces /\ RingOrder /\ FrameOrder /\ CodecOrder /\ HeldOrder /\ PacketsOrder /\ FileOrder
OrderInv == ~switched => NumbersInv

LEMMA QuitInvariant == Spec => []QuitInv
<1>1. Init => QuitInv
  BY DEF Init, QuitInv
<1>2. QuitInv /\ [Next]_vars => QuitInv'
  <2> SUFFICES ASSUME QuitInv, [Next]_vars PROVE QuitInv'
    OBVIOUS
  <2> USE DEF queueVars, ringVars, decVars, stateVars, histVars
  <2>1. CASE ReadStep
    <3>1. UNCHANGED <<main, switched, aborted>>
      BY <2>1, ReadKeeps, Zenon
    <3>2. abort_request' = abort_request /\ read # "ended"
      BY <2>1 DEF ReadStep, ReadAborts, ReadSeek, ReadFlush, ReadPutFlush, ReadSought,
         ReadFill, ReadCheck, ReadCheckFrames, ReadDone, ReadFrame, ReadPut, ReadPutNull,
         ReadAtEnd
    <3> QED
      BY <3>1, <3>2 DEF QuitInv
  <2>2. CASE DecoderStep \/ CallbackStep
    <3>1. UNCHANGED <<main, switched, aborted, abort_request, read>>
      BY <2>2, Zenon DEF DecoderStep, DecStale, DecReceive, DecGet, DecGot, DecFeed, DecWrite,
         DecPush, CallbackStep, CallbackStarts, CallbackPeek, CallbackNext, CallbackTest,
         CallbackReturns
    <3> QED
      BY <3>1 DEF QuitInv
  <2>3. CASE MainStep
    <3>1. UNCHANGED <<switched, abort_request, read>>
      BY <2>3, Zenon DEF MainStep, WaitRead, CloseAbort, CloseSignal, CloseJoin, CloseStream,
         OpenCodec, OpenStream, OpenStart
    <3>2. CASE WaitRead
      BY <3>1, <3>2 DEF QuitInv, WaitRead
    <3>3. CASE CloseAbort \/ CloseSignal \/ CloseJoin
      <4>1. /\ main \in {"abort", "signal", "join"} /\ main' \in {"signal", "join", "device"}
            /\ aborted' \in {aborted, TRUE}
        BY <3>3 DEF CloseAbort, CloseSignal, CloseJoin
      <4> QED
        BY <3>1, <4>1 DEF QuitInv
    <3>4. CASE CloseStream
      BY <3>1, <3>4 DEF QuitInv, CloseStream
    <3>5. CASE OpenCodec \/ OpenStream \/ OpenStart
      <4>1. main \in {"open", "opened", "start"} /\ main' \in {"opened", "start", "idle"}
        BY <3>5 DEF OpenCodec, OpenStream, OpenStart
      <4> QED
        BY <3>1, <4>1 DEF QuitInv
    <3> QED
      BY <2>3, <3>2, <3>3, <3>4, <3>5, Zenon DEF MainStep
  <2>4. CASE UserSeeks \/ SpuriousWakeup \/ Terminated \/ UNCHANGED vars
    <3>1. UNCHANGED <<main, switched, aborted, abort_request, read>>
      BY <2>4, Zenon DEF UserSeeks, SpuriousWakeup, Terminated, vars
    <3> QED
      BY <3>1 DEF QuitInv
  <2>5. CASE UserCycles
    <3>1. switched' /\ main' \notin {"wait_read", "gone"}
      BY <2>5 DEF UserCycles
    <3> QED
      BY <3>1 DEF QuitInv
  <2>6. CASE Quit
    <3>1. UNCHANGED <<switched, aborted, read>> /\ main' = "wait_read" /\ abort_request'
      BY <2>6, Zenon DEF Quit
    <3> QED
      BY <3>1 DEF QuitInv
  <2> QED
    BY <2>1, <2>2, <2>3, <2>4, <2>5, <2>6, Zenon DEF Next
<1> QED
  BY <1>1, <1>2, PTL DEF Spec

\* Where the ring, the codec and the packets stay and the decoder lets go of what it
\* has in hand, or keeps it, EpochCurrent stays.
LEMMA EpochStays ==
  ASSUME EpochCurrent,
         UNCHANGED <<ring, serial, packets, pkt_serial, codec, pkt, epoch>>,
         aborted' \/ (~aborted /\ (read' # "put_flush" => read # "put_flush")),
         HasFrame' => HasFrame,
         pkt_serial = serial => (Holds("data")' => Holds("data")) /\ (Holds("flush") => Holds("flush")')
  PROVE  EpochCurrent'
<1>1. \A j \in 1..Len(packets) : (Recent(j)' <=> Recent(j)) /\ (FreshData(j)' <=> FreshData(j))
  BY DEF Recent, FreshData
<1>2. \A s \in Slots : Fresh(s)' <=> Fresh(s)
  BY DEF Fresh
<1> QED
  BY <1>1, <1>2 DEF EpochCurrent

\* Of a step that does not open the stream only the current things are left to prove.
LEMMA EpochKept ==
  ASSUME EpochInv, QueueInv, RingInv, UNCHANGED <<ring, played>>,
         serial' \in Nat /\ serial <= serial' /\ epoch' \in Nat /\ epoch <= epoch',
         ~aborted' => ~aborted, ~switched' => ~switched,
         (~aborted \/ ~switched) /\ EpochCurrent => EpochCurrent'
  PROVE  EpochInv'
<1>1. \A s \in Slots : ring[s].serial \in Nat
  BY DEF RingInv, Frame
<1>2. played' \in Frame /\ played.epoch \in Nat
  BY DEF EpochInv, Frame
<1>3. \A s \in Slots : ring'[s].serial <= serial'
  BY <1>1 DEF EpochInv, QueueInv
<1>4. ~switched' => played'.epoch <= epoch'
  BY <1>2 DEF EpochInv, QueueInv
<1> QED
  BY <1>2, <1>3, <1>4 DEF EpochInv

\* The packets, one by one: their serials, and their epochs where it matters.
LEMMA QueuedPackets ==
  ASSUME QueueInv
  PROVE  /\ Len(packets) \in Nat
         /\ \A j \in 1..Len(packets) :
               /\ packets[j].serial \in Nat /\ packets[j].serial > 0 /\ packets[j].serial <= serial
               /\ packets[j].num \in Nat /\ packets[j].epoch \in Nat
<1>1. \A j \in 1..Len(packets) : packets[j] \in Queued(serial)
  BY ElementOfSeq DEF QueueInv
<1>2. Len(packets) \in Nat
  BY LenProperties DEF QueueInv
<1>3. \A q \in Queued(serial) : /\ q.serial \in Nat /\ q.serial > 0 /\ q.serial <= serial
                                /\ q.num \in Nat /\ q.epoch \in Nat
  BY PlayAssumption DEF Queued, QueueInv
<1> QED
  BY <1>1, <1>2, <1>3

\* packet_queue_put keeps the packets there are and puts p behind them, with the serial
\* of the queue.
LEMMA PutLast ==
  ASSUME QueueInv, NEW p \in Taken, p.kind # "none", Put(p), aborted' = aborted, ~aborted
  PROVE  /\ serial' = IF p.kind = "flush" THEN serial + 1 ELSE serial
         /\ Len(packets') = Len(packets) + 1
         /\ \A j \in 1..Len(packets) : packets'[j] = packets[j]
         /\ packets'[Len(packets) + 1].serial = serial'
         /\ packets'[Len(packets) + 1].kind = p.kind
         /\ packets'[Len(packets) + 1].num = p.num
         /\ packets'[Len(packets) + 1].epoch = p.epoch
<1> DEFINE q == [p EXCEPT !.serial = serial']
<1>1. serial' = (IF p.kind = "flush" THEN serial + 1 ELSE serial) /\ packets' = Append(packets, q)
  BY PutAppends DEF QueueInv
<1>2. serial' \in Nat /\ serial' > 0 /\ serial <= serial'
  BY <1>1 DEF QueueInv
<1>3. /\ q \in Queued(serial') /\ q.kind = p.kind /\ q.num = p.num /\ q.epoch = p.epoch
      /\ q.serial = serial'
  BY <1>2, Restamped
<1>4. packets \in Seq(Queued(serial'))
  <2>1. Queued(serial) \subseteq Queued(serial')
    BY <1>2 DEF Queued, QueueInv
  <2> QED
    BY <2>1, SeqMonotonic DEF QueueInv
<1> HIDE DEF q
<1>5. /\ Len(packets') = Len(packets) + 1
      /\ \A j \in 1..Len(packets) : packets'[j] = packets[j]
      /\ packets'[Len(packets) + 1] = q
  BY <1>1, <1>3, <1>4, AppendProperties, LenProperties
<1> QED
  BY <1>1, <1>3, <1>5

LEMMA DataPacket ==
  ASSUME QueueInv, read = "put"
  PROVE  /\ Packet("data", file - 1, epoch) \in Taken
         /\ Packet("data", file - 1, epoch).kind = "data"
         /\ Packet("data", file - 1, epoch).num = file - 1
         /\ Packet("data", file - 1, epoch).epoch = epoch
<1>1. file - 1 \in 0..NPackets /\ epoch \in Nat
  BY PlayAssumption DEF QueueInv
<1>2. Packet("data", file - 1, epoch) \in Taken
  BY <1>1, PacketTypes
<1> QED
  BY <1>2 DEF Packet

LEMMA NullPacket == Packet("null", 0, 0) \in Taken /\ Packet("null", 0, 0).kind = "null"
<1>1. NPackets \in Nat
  BY PlayAssumption
<1> QED
  BY <1>1 DEF Packet, Taken

LEMMA FlushPacketType == FlushPacket(0) \in Taken /\ FlushPacket(0).kind = "flush"
<1>1. NPackets \in Nat /\ FlushPacket(0) = [kind |-> "flush", num |-> 0, epoch |-> 0, serial |-> 0]
  BY PlayAssumption DEF FlushPacket, Packet
<1> QED
  BY <1>1 DEF Taken

\* The reading thread keeps EpochInv: what it puts into the queue after a seek is of that
\* seek, and the flush packet is the first of its serial.
LEMMA ReaderKeepsEpoch ==
  ASSUME ThreadsInv, QueueInv, RingInv, QuitInv, EpochInv, ReadStep
  PROVE  EpochInv'
<1>1. /\ UNCHANGED <<aborted, ring, pkt_serial, codec, pkt, audio, played, switched>>
      /\ dec' = dec \/ (dec = "await_packet" /\ dec' = "get")
  BY ReadKeeps, Zenon
<1>2. /\ Holds("data")' <=> Holds("data")
      /\ Holds("flush")' <=> Holds("flush")
      /\ HasFrame' <=> HasFrame
  BY <1>1 DEF Holds, HasFrame
<1>3. read # "ended"
  BY DEF ReadStep, ReadAborts, ReadSeek, ReadFlush, ReadPutFlush, ReadSought, ReadFill,
     ReadCheck, ReadCheckFrames, ReadDone, ReadFrame, ReadPut, ReadPutNull, ReadAtEnd
<1>4. aborted \in BOOLEAN /\ (~aborted \/ ~switched => ~aborted)
  BY <1>3 DEF QuitInv, ThreadsInv
<1>5. serial \in Nat /\ serial > 0 /\ epoch \in Nat
  BY DEF QueueInv
<1> USE DEF queueVars, ringVars, decVars, stateVars, histVars
<1>6. CASE ReadAborts \/ ReadSeek \/ ReadSought \/ ReadFill \/ ReadCheck \/ ReadCheckFrames
           \/ ReadDone \/ ReadFrame \/ ReadAtEnd
  <2>1. UNCHANGED <<packets, serial, epoch>> /\ read # "put_flush"
    BY <1>6 DEF ReadAborts, ReadSeek, ReadSought, ReadFill, ReadCheck, ReadCheckFrames,
       ReadDone, ReadFrame, ReadAtEnd
  <2>2. (~aborted \/ ~switched) /\ EpochCurrent => EpochCurrent'
    BY <1>1, <1>2, <1>4, <2>1, EpochStays
  <2> QED
    BY <1>1, <1>5, <2>1, <2>2, EpochKept
<1>7. CASE ReadFlush
  <2>1. /\ serial' = serial /\ epoch' \in {epoch, epoch + 1}
        /\ audio => packets' = <<>> /\ read' = "put_flush" /\ epoch' = epoch
    BY <1>7 DEF ReadFlush
  <2>2. ASSUME ~aborted \/ ~switched, EpochCurrent
        PROVE  EpochCurrent'
    <3>1. packets' = <<>> /\ read' = "put_flush" /\ epoch' = epoch
      BY <1>4, <2>1, <2>2 DEF ThreadsInv
    <3>2. \A j \in 1..Len(packets') : FALSE
      BY <3>1, EmptySeq
    <3>3. \A s \in Slots : Fresh(s)' <=> Fresh(s)
      BY <1>1, <2>1 DEF Fresh
    <3> QED
      BY <1>1, <1>2, <2>1, <2>2, <3>1, <3>2, <3>3 DEF EpochCurrent
  <2> QED
    BY <1>1, <1>5, <2>1, <2>2, EpochKept
<1>8. CASE ReadPutFlush
  <2>1. Put(FlushPacket(0)) /\ epoch' = epoch + 1
    BY <1>8, Zenon DEF ReadPutFlush
  <2>2. serial' \in Nat /\ serial <= serial'
    BY <1>1, <2>1, FlushPacketType, PutAppends DEF QueueInv
  <2>3. ASSUME ~aborted PROVE EpochCurrent'
    <3>1. /\ serial' = serial + 1 /\ Len(packets') = Len(packets) + 1
          /\ \A j \in 1..Len(packets) : packets'[j] = packets[j]
          /\ packets'[Len(packets) + 1].serial = serial'
          /\ packets'[Len(packets) + 1].kind = "flush"
      BY <1>1, <2>1, <2>3, FlushPacketType, PutLast
    <3>2. \A s \in Slots : ~Fresh(s)'
      <4>1. \A s \in Slots : ring[s].serial \in Nat /\ ring[s].serial <= serial
        BY DEF EpochInv, RingInv, Frame
      <4> QED
        BY <1>1, <1>5, <3>1, <4>1 DEF Fresh
    <3>3. Len(packets) \in Nat /\ \A j \in 1..Len(packets) : ~Recent(j)'
      BY <1>5, <3>1, QueuedPackets DEF Recent
    <3>4. \A j \in 1..Len(packets') : j \in 1..Len(packets) \/ j = Len(packets) + 1
      BY <3>1, <3>3
    <3>5. \E j \in 1..Len(packets') : Recent(j)'
      BY <3>1, <3>3 DEF Recent
    <3>6. pkt_serial' # serial'
      BY <1>1, <1>5, <3>1 DEF QueueInv
    <3>7. \A j \in 1..Len(packets') : Recent(j)' => packets'[j].kind = "flush"
      BY <3>1, <3>3, <3>4
    <3>8. \A i, j \in 1..Len(packets') : i < j => ~Recent(i)'
      BY <3>1, <3>3, <3>4
    <3> QED
      BY <3>2, <3>5, <3>6, <3>7, <3>8 DEF EpochCurrent, FreshData
  <2> QED
    BY <1>1, <1>4, <1>5, <2>1, <2>2, <2>3, EpochKept
<1>9. CASE ReadPut \/ ReadPutNull
  <2>1. /\ epoch' = epoch /\ read' # "put_flush" /\ read # "put_flush"
    BY <1>9 DEF ReadPut, ReadPutNull
  <2>2. PICK p \in Taken : /\ p.kind \in {"data", "null"}
                           /\ p.kind = "data" => p.epoch = epoch
                           /\ Put(p) \/ (~audio /\ UNCHANGED <<packets, serial>>)
    <3>1. CASE ReadPut
      <4>1. read = "put" /\ (Put(Packet("data", file - 1, epoch))
                                \/ (~audio /\ UNCHANGED <<packets, serial>>))
        BY <3>1 DEF ReadPut
      <4> QED
        BY <4>1, DataPacket
    <3>2. CASE ReadPutNull
      <4>1. Put(Packet("null", 0, 0)) \/ (~audio /\ UNCHANGED <<packets, serial>>)
        BY <3>2 DEF ReadPutNull
      <4> QED
        BY <4>1, NullPacket
    <3> QED
      BY <1>9, <3>1, <3>2
  <2>3. serial' = serial
    BY <1>1, <2>2, Zenon DEF Put
  <2>4. ASSUME ~aborted, EpochCurrent PROVE EpochCurrent'
    <3>1. Put(p) /\ p.kind # "none" /\ p.kind # "flush"
      BY <2>2, <2>4 DEF ThreadsInv
    <3>2. /\ Len(packets') = Len(packets) + 1
          /\ \A j \in 1..Len(packets) : packets'[j] = packets[j]
          /\ packets'[Len(packets) + 1].kind = p.kind
          /\ packets'[Len(packets) + 1].epoch = p.epoch
          /\ packets'[Len(packets) + 1].serial = serial'
      BY <1>1, <2>4, <3>1, PutLast
    <3>3. Len(packets) \in Nat /\ \A j \in 1..Len(packets') : j \in 1..Len(packets) \/ j = Len(packets) + 1
      BY <3>2, QueuedPackets
    <3>4. \A j \in 1..Len(packets) : /\ j \in 1..Len(packets') /\ j < Len(packets) + 1
                                     /\ Recent(j)' <=> Recent(j)
                                     /\ FreshData(j)' <=> FreshData(j)
      BY <2>3, <3>2, <3>3 DEF Recent, FreshData
    <3>5. \A s \in Slots : Fresh(s)' <=> Fresh(s)
      BY <1>1, <2>3 DEF Fresh
    <3>6. \A j \in 1..Len(packets') : FreshData(j)' => packets'[j].epoch = epoch'
      <4> SUFFICES ASSUME NEW j \in 1..Len(packets'), FreshData(j)'
                   PROVE  packets'[j].epoch = epoch'
        OBVIOUS
      <4>1. CASE j \in 1..Len(packets)
        BY <2>1, <2>4, <3>2, <3>4, <4>1 DEF EpochCurrent
      <4>2. CASE j = Len(packets) + 1
        BY <2>1, <2>2, <3>2, <4>2 DEF FreshData
      <4> QED
        BY <3>3, <4>1, <4>2
    <3>7. ASSUME pkt_serial # serial
          PROVE  /\ \E j \in 1..Len(packets') : Recent(j)'
                 /\ \A j \in 1..Len(packets') : Recent(j)' =>
                       packets'[j].kind = "flush" \/ \E i \in 1..Len(packets') : i < j /\ Recent(i)'
      <4>1. PICK k \in 1..Len(packets) : Recent(k)
        BY <2>1, <2>4, <3>7 DEF EpochCurrent
      <4>2. k \in 1..Len(packets') /\ Recent(k)' /\ k < Len(packets) + 1
        BY <3>4, <4>1
      <4> SUFFICES ASSUME NEW j \in 1..Len(packets'), Recent(j)'
                   PROVE  packets'[j].kind = "flush" \/ \E i \in 1..Len(packets') : i < j /\ Recent(i)'
        BY <4>2
      <4>3. CASE j \in 1..Len(packets)
        <5>1. packets[j].kind = "flush" \/ \E i \in 1..Len(packets) : i < j /\ Recent(i)
          BY <2>4, <3>4, <3>7, <4>3 DEF EpochCurrent
        <5> QED
          BY <3>2, <3>4, <4>3, <5>1
      <4>4. CASE j = Len(packets) + 1
        BY <4>2, <4>4
      <4> QED
        BY <3>3, <4>3, <4>4
    <3>8. \A j \in 1..Len(packets') : j = Len(packets) + 1 => Recent(j)'
      BY <3>2 DEF Recent
    <3>9. /\ \A i, j \in 1..Len(packets') : i < j /\ Recent(i)' => Recent(j)'
          /\ pkt_serial = serial => \A j \in 1..Len(packets') : Recent(j)'
      BY <2>4, <3>3, <3>4, <3>8 DEF EpochCurrent
    <3> QED
      BY <1>1, <1>2, <2>1, <2>3, <2>4, <3>5, <3>6, <3>7, <3>9 DEF EpochCurrent
  <2> QED
    BY <1>1, <1>4, <1>5, <2>1, <2>3, <2>4, EpochKept
<1> QED
  BY <1>6, <1>7, <1>8, <1>9 DEF ReadStep

\* packet_queue_get takes the first packet.
LEMMA TakeFirst ==
  ASSUME QueueInv, packets # <<>>, packets' = Tail(packets)
  PROVE  /\ 1 \in 1..Len(packets) /\ Head(packets) = packets[1]
         /\ Head(packets) \in Queued(serial) /\ Head(packets) \in Taken
         /\ Len(packets') = Len(packets) - 1 /\ Len(packets') \in Nat
         /\ \A j \in 1..Len(packets') : j + 1 \in 1..Len(packets) /\ packets'[j] = packets[j + 1]
<1>1. /\ Len(packets) \in Nat /\ Len(packets) > 0 /\ Len(packets') = Len(packets) - 1
      /\ \A j \in 1..Len(packets') : packets'[j] = packets[j + 1]
      /\ Head(packets) = packets[1] /\ Head(packets) \in Queued(serial)
  BY HeadTailProperties, LenProperties, EmptySeq DEF QueueInv
<1>2. \A q \in Queued(serial) : q \in Taken
  <2>1. 1..serial \subseteq Nat
    BY DEF QueueInv
  <2>2. {"flush", "null", "data"} \subseteq {"none", "flush", "null", "data"}
    OBVIOUS
  <2> QED
    BY <2>1, <2>2, Zenon DEF Queued, Taken
<1> QED
  BY <1>1, <1>2

\* The decoder thread keeps EpochInv: it takes over the serial with the flush packet, and
\* the old frames of the codec are gone before it makes another.
LEMMA DecoderKeepsEpoch ==
  ASSUME ThreadsInv, QueueInv, RingInv, QuitInv, EpochInv, DecoderStep
  PROVE  EpochInv'
<1> USE DEF queueVars, ringVars, decVars, stateVars, histVars
<1>1. UNCHANGED <<aborted, serial, played, switched, read, epoch>>
  BY Zenon DEF DecoderStep, DecStale, DecReceive, DecGet, DecGot, DecFeed, DecWrite, DecPush
<1>2. serial \in Nat /\ epoch \in Nat
  BY DEF QueueInv
<1>3. aborted \in BOOLEAN
  BY DEF ThreadsInv
<1>4. CASE DecStale \/ DecGot \/ DecWrite
  <2>1. UNCHANGED <<packets, pkt, codec, pkt_serial, ring>>
    BY <1>4, Zenon DEF DecStale, DecGot, DecWrite
  <2>2. /\ HasFrame' => HasFrame
        /\ Holds("data")' => Holds("data")
        /\ pkt_serial = serial /\ Holds("flush") => Holds("flush")'
    BY <1>4, <2>1 DEF DecStale, DecGot, DecWrite, HasFrame, Holds
  <2>3. EpochCurrent => EpochCurrent'
    BY <1>1, <1>3, <2>1, <2>2, EpochStays
  <2> QED
    BY <1>1, <1>2, <2>1, <2>3, EpochKept
<1>5. CASE DecReceive
  <2>1. /\ UNCHANGED <<packets, pkt_serial, ring>> /\ dec = "loop"
        /\ \/ /\ dec' \in {"write", "failed"} /\ codec # <<>>
              /\ pkt' = Head(codec) /\ codec' = Tail(codec)
           \/ dec' \in {"exited", "get", "loop"} /\ UNCHANGED <<pkt, codec>>
    BY <1>5 DEF DecReceive
  <2>2. ~Holds("data")' /\ ~Holds("flush")' /\ ~Holds("flush") /\ ~Holds("data") /\ ~HasFrame
    BY <2>1 DEF Holds, HasFrame
  <2>3. CASE dec' \in {"exited", "get", "loop"} /\ UNCHANGED <<pkt, codec>>
    <3>1. HasFrame' => HasFrame
      BY <2>3 DEF HasFrame
    <3>2. EpochCurrent => EpochCurrent'
      BY <1>1, <1>3, <2>1, <2>2, <2>3, <3>1, EpochStays
    <3> QED
      BY <1>1, <1>2, <2>1, <3>2, EpochKept
  <2>4. CASE /\ dec' \in {"write", "failed"} /\ codec # <<>>
             /\ pkt' = Head(codec) /\ codec' = Tail(codec)
    <3>1. /\ 1 \in 1..Len(codec) /\ pkt' = codec[1]
          /\ \A j \in 1..Len(codec') : j + 1 \in 1..Len(codec) /\ codec'[j] = codec[j + 1]
      <4>1. Len(codec) \in Nat /\ Len(codec) > 0
        BY <2>4, LenProperties, EmptySeq DEF QueueInv
      <4>2. Len(codec') = Len(codec) - 1 /\ \A j \in 1..Len(codec') : codec'[j] = codec[j + 1]
        BY <2>4, HeadTailProperties DEF QueueInv
      <4> QED
        BY <2>4, <4>1, <4>2
    <3>2. ASSUME EpochCurrent PROVE EpochCurrent'
      <4>1. \A s \in Slots : Fresh(s)' <=> Fresh(s)
        BY <1>1, <2>1 DEF Fresh
      <4>2. \A j \in 1..Len(packets) : (Recent(j)' <=> Recent(j)) /\ (FreshData(j)' <=> FreshData(j))
        BY <1>1, <2>1 DEF Recent, FreshData
      <4>3. pkt_serial = serial => \A j \in 1..Len(codec) : codec[j].epoch = epoch
        BY <2>2, <3>2 DEF EpochCurrent
      <4> QED
        BY <1>1, <2>1, <2>2, <3>1, <3>2, <4>1, <4>2, <4>3 DEF EpochCurrent
    <3> QED
      BY <1>1, <1>2, <2>1, <3>2, EpochKept
  <2> QED
    BY <2>1, <2>3, <2>4
<1>6. CASE DecGet
  <2>1. UNCHANGED <<codec, ring>> /\ dec = "get" /\ ~HasFrame /\ ~Holds("data") /\ ~Holds("flush")
    BY <1>6 DEF DecGet, HasFrame, Holds
  <2>2. CASE dec' \in {"exited", "await_packet"} /\ UNCHANGED <<packets, pkt, pkt_serial>>
    <3>1. ~HasFrame' /\ ~Holds("data")'
      BY <2>2 DEF HasFrame, Holds
    <3>2. EpochCurrent => EpochCurrent'
      BY <1>1, <1>3, <2>1, <2>2, <3>1, EpochStays
    <3> QED
      BY <1>1, <1>2, <2>1, <3>2, EpochKept
  <2>3. CASE /\ ~aborted /\ packets # <<>> /\ pkt' = Head(packets) /\ packets' = Tail(packets)
             /\ pkt_serial' = pkt'.serial /\ dec' = "got"
    <3>1. /\ 1 \in 1..Len(packets) /\ pkt' = packets[1] /\ pkt_serial' = packets[1].serial
          /\ Len(packets') = Len(packets) - 1 /\ Len(packets') \in Nat
          /\ \A j \in 1..Len(packets') : j + 1 \in 1..Len(packets) /\ packets'[j] = packets[j + 1]
      BY <2>3, TakeFirst
    <3>2. /\ ~HasFrame'
          /\ Holds("data")' <=> packets[1].kind = "data"
          /\ Holds("flush")' <=> packets[1].kind = "flush"
          /\ pkt_serial' = serial <=> Recent(1)
      BY <1>1, <2>3, <3>1 DEF HasFrame, Holds, Recent
    <3>3. \A j \in 1..Len(packets') : (Recent(j)' <=> Recent(j + 1)) /\ (FreshData(j)' <=> FreshData(j + 1))
      BY <1>1, <3>1 DEF Recent, FreshData
    <3>4. \A s \in Slots : Fresh(s)' <=> Fresh(s)
      BY <1>1, <2>1 DEF Fresh
    <3>5. ASSUME EpochCurrent PROVE EpochCurrent'
      <4>1. CASE Recent(1)
        <5>1. pkt_serial # serial => Holds("flush")'
          <6>1. ~ \E i \in 1..Len(packets) : i < 1
            OBVIOUS
          <6> QED
            BY <3>1, <3>2, <3>5, <4>1, <6>1 DEF EpochCurrent
        <5>2. Holds("data")' => pkt'.epoch = epoch
          BY <3>1, <3>2, <3>5, <4>1 DEF EpochCurrent, FreshData
        <5>3. ~Holds("flush")' => \A j \in 1..Len(codec) : codec[j].epoch = epoch
          BY <2>1, <3>5, <5>1 DEF EpochCurrent
        <5>4. \A j \in 1..Len(packets') : FreshData(j)' => packets'[j].epoch = epoch
          BY <3>1, <3>3, <3>5 DEF EpochCurrent
        <5>5. pkt_serial' = serial'
          BY <1>1, <3>2, <4>1
        <5>6. \A j \in 1..Len(packets') : Recent(j)'
          <6>1. \A j \in 1..Len(packets') : j + 1 \in 1..Len(packets) /\ 1 < j + 1
            BY <3>1
          <6> QED
            BY <3>1, <3>3, <3>5, <4>1, <6>1 DEF EpochCurrent
        <5> QED
          BY <1>1, <2>1, <3>2, <3>4, <3>5, <5>2, <5>3, <5>4, <5>5, <5>6 DEF EpochCurrent
      <4>2. CASE ~Recent(1)
        <5>1. pkt_serial' # serial'
          BY <1>1, <3>2, <4>2
        <5>2. \A j \in 1..Len(packets') : FreshData(j)' => packets'[j].epoch = epoch
          BY <3>1, <3>3, <3>5 DEF EpochCurrent
        <5>3. \A i \in 1..Len(packets) : Recent(i) => i - 1 \in 1..Len(packets') /\ Recent(i - 1)'
          <6> SUFFICES ASSUME NEW i \in 1..Len(packets), Recent(i)
                       PROVE  i - 1 \in 1..Len(packets') /\ Recent(i - 1)'
            OBVIOUS
          <6>1. i # 1
            BY <4>2
          <6>2. i - 1 \in 1..Len(packets') /\ (i - 1) + 1 = i
            BY <3>1, <6>1
          <6> QED
            BY <3>3, <6>2
        <5>4. pkt_serial # serial
          BY <3>1, <3>5, <4>2 DEF EpochCurrent
        <5>5. \A i, j \in 1..Len(packets') : i < j /\ Recent(i)' => Recent(j)'
          <6> SUFFICES ASSUME NEW i \in 1..Len(packets'), NEW j \in 1..Len(packets'), i < j,
                              Recent(i + 1)
                       PROVE  Recent(j + 1)
            BY <3>3
          <6>1. i + 1 \in 1..Len(packets) /\ j + 1 \in 1..Len(packets) /\ i + 1 < j + 1
            BY <3>1
          <6> QED
            BY <3>5, <6>1 DEF EpochCurrent
        <5>6. read # "put_flush" => \E j \in 1..Len(packets') : Recent(j)'
          <6>1. read # "put_flush" => \E j \in 1..Len(packets) : Recent(j)
            BY <2>3, <3>5, <5>4 DEF EpochCurrent
          <6> QED
            BY <5>3, <6>1
        <5>7. ASSUME NEW j \in 1..Len(packets'), Recent(j)', packets'[j].kind # "flush"
              PROVE  \E i \in 1..Len(packets') : i < j /\ Recent(i)'
          <6>1. j + 1 \in 1..Len(packets) /\ Recent(j + 1) /\ packets[j + 1].kind # "flush"
            BY <3>1, <3>3, <5>7
          <6>2. PICK i \in 1..Len(packets) : i < j + 1 /\ Recent(i)
            BY <3>5, <5>4, <6>1 DEF EpochCurrent
          <6>3. i - 1 \in 1..Len(packets') /\ Recent(i - 1)' /\ i - 1 < j
            BY <5>3, <6>2
          <6> QED
            BY <6>3
        <5> QED
          BY <1>1, <2>1, <3>4, <3>5, <5>1, <5>2, <5>5, <5>6, <5>7 DEF EpochCurrent
      <4> QED
        BY <4>1, <4>2
    <3> QED
      BY <1>1, <1>2, <2>1, <3>5, EpochKept
  <2> QED
    BY <1>6, <2>2, <2>3, Zenon DEF DecGet
<1>7. CASE DecFeed
  <2>1. /\ UNCHANGED <<packets, pkt_serial, ring>> /\ dec = "feed" /\ dec' = "loop"
        /\ \/ pkt.kind = "flush" /\ codec' = <<>>
           \/ pkt.kind = "null" /\ codec' = codec
           \/ pkt.kind = "data" /\ codec' = Append(codec, pkt)
    BY <1>7 DEF DecFeed, FlushBuffers
  <2>2. ~HasFrame' /\ ~Holds("data")' /\ ~Holds("flush")'
    BY <2>1 DEF HasFrame, Holds
  <2>3. ASSUME EpochCurrent, pkt_serial = serial
        PROVE  \A j \in 1..Len(codec') : codec'[j].epoch = epoch
    <3>1. CASE pkt.kind = "flush" /\ codec' = <<>>
      BY <3>1, EmptySeq
    <3>2. CASE pkt.kind = "null" /\ codec' = codec
      <4>1. ~Holds("flush")
        BY <3>2 DEF Holds
      <4> QED
        BY <2>3, <3>2, <4>1 DEF EpochCurrent
    <3>3. CASE pkt.kind = "data" /\ codec' = Append(codec, pkt)
      <4>1. Holds("data") /\ ~Holds("flush")
        BY <2>1, <3>3 DEF Holds
      <4>2. pkt.epoch = epoch /\ \A j \in 1..Len(codec) : codec[j].epoch = epoch
        BY <2>3, <4>1 DEF EpochCurrent
      <4>3. /\ Len(codec) \in Nat /\ Len(codec') = Len(codec) + 1
            /\ \A j \in 1..Len(codec) : codec'[j] = codec[j]
            /\ codec'[Len(codec) + 1] = pkt
        BY <3>3, AppendProperties, LenProperties DEF QueueInv
      <4>4. \A j \in 1..Len(codec') : j \in 1..Len(codec) \/ j = Len(codec) + 1
        BY <4>3
      <4> QED
        BY <4>2, <4>3, <4>4
    <3> QED
      BY <2>1, <3>1, <3>2, <3>3
  <2>4. ASSUME EpochCurrent PROVE EpochCurrent'
    <3>1. \A s \in Slots : Fresh(s)' <=> Fresh(s)
      BY <1>1, <2>1 DEF Fresh
    <3>2. \A j \in 1..Len(packets) : (Recent(j)' <=> Recent(j)) /\ (FreshData(j)' <=> FreshData(j))
      BY <1>1, <2>1 DEF Recent, FreshData
    <3> QED
      BY <1>1, <2>1, <2>2, <2>3, <2>4, <3>1, <3>2 DEF EpochCurrent
  <2> QED
    BY <1>1, <1>2, <2>1, <2>4, EpochKept
<1>8. CASE DecPush
  <2>1. UNCHANGED <<packets, pkt_serial, codec>> /\ dec = "slot"
        /\ dec' \in {"exited", "loop", "failed"}
    BY <1>8 DEF DecPush
  <2>2. /\ ~HasFrame' /\ ~Holds("data")' /\ ~Holds("flush")' /\ ~Holds("flush") /\ ~Holds("data")
        /\ HasFrame
    BY <2>1 DEF HasFrame, Holds
  <2>3. \A j \in 1..Len(packets) : (Recent(j)' <=> Recent(j)) /\ (FreshData(j)' <=> FreshData(j))
    BY <1>1, <2>1 DEF Recent, FreshData
  <2>4. CASE aborted
    <3>1. ring' = ring
      BY <1>8, <2>4 DEF DecPush
    <3>2. \A s \in Slots : Fresh(s)' <=> Fresh(s)
      BY <1>1, <3>1 DEF Fresh
    <3>3. EpochCurrent => EpochCurrent'
      BY <1>1, <2>1, <2>2, <2>3, <3>1, <3>2 DEF EpochCurrent
    <3> QED
      BY <1>1, <1>2, <3>1, <3>3, EpochKept
  <2>5. CASE ~aborted
    <3> DEFINE f == [epoch |-> pkt.epoch, num |-> pkt.num, serial |-> pkt_serial]
    <3>1. ring' = [ring EXCEPT ![windex] = f]
      BY <1>8, <2>5 DEF DecPush
    <3>2. f.serial = pkt_serial /\ f.epoch = pkt.epoch
      OBVIOUS
    <3> HIDE DEF f
    <3>3. \A s \in Slots : ring'[s] = IF s = windex THEN f ELSE ring[s]
      BY <3>1 DEF RingInv
    <3>4. \A s \in Slots : ring'[s].serial <= serial'
      BY <1>1, <3>2, <3>3 DEF EpochInv, QueueInv
    <3>5. ASSUME EpochCurrent PROVE EpochCurrent'
      <4>1. \A s \in Slots : Fresh(s)' => ring'[s].epoch = epoch
        BY <1>1, <2>2, <3>2, <3>3, <3>5 DEF EpochCurrent, Fresh
      <4> QED
        BY <1>1, <2>1, <2>2, <2>3, <3>5, <4>1 DEF EpochCurrent
    <3> QED
      BY <1>1, <3>4, <3>5 DEF EpochInv
  <2> QED
    BY <1>3, <2>4, <2>5
<1> QED
  BY <1>4, <1>5, <1>6, <1>7, <1>8 DEF DecoderStep

LEMMA EpochInvariant == Spec => []EpochInv
<1>1. Init => EpochInv
  <2> SUFFICES ASSUME Init PROVE EpochInv
    OBVIOUS
  <2>1. NoFrame \in Frame
    BY PlayAssumption DEF NoFrame, Frame
  <2>2. /\ Len(packets) = 1 /\ packets[1].kind = "flush" /\ packets[1].serial = 1
    BY DEF Init, FlushPacket, Packet
  <2>3. \A s \in Slots : ring[s].serial = 0
    BY DEF Init, NoFrame
  <2>4. EpochCurrent
    BY <2>2, <2>3 DEF Init, EpochCurrent, Fresh, Recent, FreshData
  <2> QED
    BY <2>1, <2>3, <2>4 DEF Init, EpochInv, NoFrame
<1>2. ThreadsInv /\ QueueInv /\ RingInv /\ QuitInv /\ EpochInv /\ [Next]_vars => EpochInv'
  <2> SUFFICES ASSUME ThreadsInv, QueueInv, RingInv, QuitInv, EpochInv, [Next]_vars
               PROVE  EpochInv'
    OBVIOUS
  <2> USE DEF queueVars, ringVars, decVars, stateVars, histVars
  <2>1. CASE ReadStep
    BY <2>1, ReaderKeepsEpoch
  <2>2. CASE DecoderStep
    BY <2>2, DecoderKeepsEpoch
  <2>3. aborted \in BOOLEAN /\ serial \in Nat /\ serial > 0 /\ epoch \in Nat
    BY DEF ThreadsInv, QueueInv
  <2>4. CASE CallbackStep
    <3>1. /\ UNCHANGED <<aborted, switched, packets, serial, pkt_serial, codec, pkt, epoch, read>>
          /\ dec' = dec \/ (dec = "await_slot" /\ dec' = "write")
      BY <2>4, Zenon DEF CallbackStep, CallbackStarts, CallbackPeek, CallbackNext, CallbackTest,
         CallbackReturns, SignalFrames
    <3>2. /\ Holds("data")' <=> Holds("data")
          /\ Holds("flush")' <=> Holds("flush")
          /\ HasFrame' <=> HasFrame
      BY <3>1 DEF Holds, HasFrame
    <3>3. CASE UNCHANGED <<ring, played>>
      <4>1. EpochCurrent => EpochCurrent'
        BY <2>3, <3>1, <3>2, <3>3, EpochStays
      <4> QED
        BY <2>3, <3>1, <3>3, <4>1, EpochKept
    <3>4. CASE CallbackTest /\ UNCHANGED ring /\ played' # played
      <4>1. played' = ring[af] /\ ring[af].serial = serial /\ af \in Slots
        BY <3>4 DEF CallbackTest, RingInv, Slots
      <4>2. played' \in Frame
        BY <4>1 DEF RingInv
      <4>3. ~switched' => played'.epoch <= epoch'
        <5> SUFFICES ASSUME ~switched PROVE ring[af].epoch = epoch
          BY <2>3, <3>1, <4>1
        <5> QED
          BY <4>1 DEF EpochInv, EpochCurrent, Fresh
      <4>4. EpochCurrent => EpochCurrent'
        BY <2>3, <3>1, <3>2, <3>4, EpochStays
      <4> QED
        BY <3>1, <3>4, <4>2, <4>3, <4>4 DEF EpochInv
    <3>5. CASE played' = played /\ ring' = [ring EXCEPT ![rindex] = NoFrame]
      <4>1. \A s \in Slots : ring'[s] = IF s = rindex THEN NoFrame ELSE ring[s]
        BY <3>5 DEF RingInv
      <4>2. NoFrame.serial = 0
        BY DEF NoFrame
      <4>3. \A s \in Slots : ring'[s].serial <= serial' /\ (Fresh(s)' => Fresh(s) /\ ring'[s] = ring[s])
        BY <2>3, <3>1, <4>1, <4>2 DEF EpochInv, Fresh
      <4>4. \A j \in 1..Len(packets) : (Recent(j)' <=> Recent(j)) /\ (FreshData(j)' <=> FreshData(j))
        BY <3>1 DEF Recent, FreshData
      <4>5. EpochCurrent => EpochCurrent'
        BY <3>1, <3>2, <4>3, <4>4 DEF EpochCurrent
      <4> QED
        BY <3>1, <3>5, <4>3, <4>5 DEF EpochInv
    <3>6. \/ UNCHANGED <<ring, played>>
          \/ CallbackTest /\ UNCHANGED ring
          \/ played' = played /\ ring' = [ring EXCEPT ![rindex] = NoFrame]
      BY <2>4, Zenon DEF CallbackStep, CallbackStarts, CallbackPeek, CallbackNext, CallbackTest,
         CallbackReturns
    <3> QED
      BY <3>3, <3>4, <3>5, <3>6, Zenon
  <2>5. CASE MainStep /\ ~OpenStart
    <3>1. UNCHANGED <<switched, serial, ring, played, epoch, read, pkt>>
      BY <2>5, Zenon DEF MainStep, WaitRead, CloseAbort, CloseSignal, CloseJoin, CloseStream,
         OpenCodec, OpenStream, OpenStart
    <3>2. ~aborted' => ~aborted
      BY <2>3, <2>5 DEF MainStep, WaitRead, CloseAbort, CloseSignal, CloseJoin, CloseStream,
         OpenCodec, OpenStream, OpenStart
    <3>3. ASSUME ~aborted \/ ~switched, EpochCurrent PROVE EpochCurrent'
      <4>1. CASE WaitRead \/ CloseAbort \/ CloseSignal \/ CloseStream \/ OpenCodec
        <5>1. /\ UNCHANGED <<packets, pkt_serial, codec>>
              /\ dec' \in {dec, "get"} \/ (dec = "await_slot" /\ dec' = "write")
              /\ dec \in {"got", "feed"} => dec' = dec
          BY <4>1 DEF WaitRead, CloseAbort, CloseSignal, CloseStream, OpenCodec, SignalPackets,
             SignalSleeper, SignalFrames
        <5>2. /\ HasFrame' => HasFrame
              /\ Holds("data")' => Holds("data")
              /\ Holds("flush") => Holds("flush")'
          BY <3>1, <5>1 DEF HasFrame, Holds
        <5> QED
          BY <2>3, <3>1, <3>2, <3>3, <5>1, <5>2, EpochStays
      <4>2. CASE CloseJoin
        <5>1. UNCHANGED <<aborted, pkt_serial, codec>> /\ packets' = <<>> /\ dec' = "off"
              /\ main = "join" /\ dec \in {"exited", "failed"}
          BY <4>2, Zenon DEF CloseJoin
        <5>2. aborted'
          BY <5>1 DEF ThreadsInv
        <5>3. ~HasFrame' /\ ~Holds("data")' /\ ~Holds("flush")
          BY <5>1 DEF HasFrame, Holds
        <5>4. \A j \in 1..Len(packets') : FALSE
          BY <5>1, EmptySeq
        <5>5. \A s \in Slots : Fresh(s)' <=> Fresh(s)
          BY <3>1 DEF Fresh
        <5> QED
          BY <3>1, <3>3, <5>1, <5>2, <5>3, <5>4, <5>5 DEF EpochCurrent
      <4>3. CASE OpenStream
        <5>1. main = "opened" /\ ~audio
          BY <4>3 DEF OpenStream, ThreadsInv
        <5> QED
          BY <3>3, <5>1 DEF ThreadsInv, QuitInv
      <4> QED
        BY <2>5, <4>1, <4>2, <4>3, Zenon DEF MainStep
    <3> QED
      BY <2>3, <3>1, <3>2, <3>3, EpochKept
  <2>6. CASE OpenStart
    <3>1. /\ UNCHANGED <<switched, ring, played, epoch, pkt_serial>>
          /\ serial' = serial + 1 /\ packets' = Append(packets, FlushPacket(serial'))
          /\ main = "start"
      BY <2>6, Zenon DEF OpenStart
    <3>2. switched
      BY <3>1 DEF QuitInv
    <3>3. \A s \in Slots : ring[s].serial \in Nat /\ ring[s].serial <= serial
      BY DEF RingInv, EpochInv, Frame
    <3>4. \A s \in Slots : ring'[s].serial <= serial' /\ ~Fresh(s)'
      BY <2>3, <3>1, <3>3 DEF Fresh
    <3>5. /\ Len(packets) \in Nat /\ Len(packets') = Len(packets) + 1
          /\ \A j \in 1..Len(packets) : packets'[j] = packets[j]
          /\ packets'[Len(packets) + 1] = FlushPacket(serial')
      BY <3>1, AppendProperties, LenProperties DEF QueueInv
    <3>6. FlushPacket(serial').kind = "flush" /\ FlushPacket(serial').serial = serial'
      BY DEF FlushPacket, Packet
    <3>7. \A j \in 1..Len(packets') : j \in 1..Len(packets) \/ j = Len(packets) + 1
      BY <3>5
    <3>8. \A j \in 1..Len(packets) : ~Recent(j)'
      BY <2>3, <3>1, <3>5, QueuedPackets DEF Recent
    <3>9. \E j \in 1..Len(packets') : Recent(j)'
      BY <3>5, <3>6 DEF Recent
    <3>10. \A j \in 1..Len(packets') : Recent(j)' => packets'[j].kind = "flush"
      BY <3>5, <3>6, <3>7, <3>8
    <3>11. \A i, j \in 1..Len(packets') : i < j => ~Recent(i)'
      BY <3>5, <3>7, <3>8
    <3>12. pkt_serial' # serial'
      BY <2>3, <3>1 DEF QueueInv
    <3>13. EpochCurrent'
      BY <3>4, <3>9, <3>10, <3>11, <3>12 DEF EpochCurrent, FreshData
    <3> QED
      BY <3>1, <3>2, <3>4, <3>13 DEF EpochInv
  <2>7. CASE UserSeeks \/ UserCycles \/ Quit \/ SpuriousWakeup \/ Terminated \/ UNCHANGED vars
    <3>1. /\ UNCHANGED <<packets, aborted, serial, ring, pkt_serial, codec, pkt, read, epoch, played>>
          /\ dec' = dec \/ (dec = "await_packet" /\ dec' = "get")
                        \/ (dec = "await_slot" /\ dec' = "write")
          /\ switched' = switched \/ switched' = TRUE
      BY <2>7, OthersKeep, Zenon
    <3>2. /\ Holds("data")' <=> Holds("data")
          /\ Holds("flush")' <=> Holds("flush")
          /\ HasFrame' <=> HasFrame
      BY <3>1 DEF Holds, HasFrame
    <3>3. EpochCurrent => EpochCurrent'
      BY <2>3, <3>1, <3>2, EpochStays
    <3>4. ~switched' => ~switched
      <4>1. switched' = TRUE => switched'
        OBVIOUS
      <4> QED
        BY <3>1, <4>1, Zenon
    <3> QED
      BY <2>3, <3>1, <3>3, <3>4, EpochKept
  <2> QED
    BY <2>1, <2>2, <2>4, <2>5, <2>6, <2>7 DEF Next
<1> QED
  BY <1>1, <1>2, ThreadsInvariant, QueueInvariant, RingInvariant, QuitInvariant, PTL DEF Spec

\* What is behind everything stays behind it further on in the file.
LEMMA AfterLater ==
  ASSUME QueueInv, RingInv, EpochInv, NEW n \in Int, NEW m \in Int, n <= m, AfterPackets(n)
  PROVE  AfterPackets(m)
<1>1. played.num \in Int
  BY PlayAssumption DEF EpochInv, Frame
<1>2. \A s \in Slots : ring[s].num \in Int
  BY PlayAssumption DEF RingInv, Frame
<1>3. pkt.num \in Int
  BY PlayAssumption DEF QueueInv, Taken
<1>4. \A j \in 1..Len(codec) : codec[j].num \in Int
  <2>1. \A j \in 1..Len(codec) : codec[j] \in Taken
    BY ElementOfSeq DEF QueueInv
  <2>2. \A q \in Taken : q.num \in Int
    BY PlayAssumption DEF Taken
  <2> QED
    BY <2>1, <2>2
<1>5. \A j \in 1..Len(packets) : packets[j].num \in Int
  BY QueuedPackets
<1>6. AfterPlayed(n) => AfterPlayed(m)
  BY <1>1 DEF AfterPlayed
<1>7. AfterRing(n) => AfterRing(m)
  BY <1>2, <1>6 DEF AfterRing
<1>8. AfterFrame(n) => AfterFrame(m)
  BY <1>3, <1>7 DEF AfterFrame
<1>9. AfterCodec(n) => AfterCodec(m)
  BY <1>4, <1>8 DEF AfterCodec
<1>10. AfterHeld(n) => AfterHeld(m)
  BY <1>3, <1>9 DEF AfterHeld
<1> QED
  BY <1>5, <1>10 DEF AfterPackets

\* A step that moves nothing towards the device keeps the order, if it keeps that of the
\* file or begins a seek.
LEMMA NumbersStay ==
  ASSUME NumbersInv,
         UNCHANGED <<ring, rindex, size, played, epoch, serial, pkt_serial, codec>>,
         packets' = packets \/ packets' = <<>>,
         HasFrame' \/ Holds("data")' => pkt' = pkt,
         HasFrame' => HasFrame,
         rindex_shown' = 0 \/ cb' = "test" => rindex_shown = 0 \/ cb = "test",
         pkt_serial = serial => (Holds("data")' => Holds("data")) /\ (Holds("flush") => Holds("flush")'),
         read' \notin {"flush", "put_flush", "put"} => AfterPackets(file'),
         read' = "put" => AfterPackets(file' - 1)
  PROVE  NumbersInv'
<1>1. \A s \in Slots : (Fresh(s)' <=> Fresh(s)) /\ Place(s)' = Place(s)
  BY DEF Fresh, Place
<1>2. \A j \in 1..Len(packets') :
         /\ j \in 1..Len(packets) /\ packets'[j] = packets[j]
         /\ FreshData(j)' => FreshData(j)
  <2>1. CASE packets' = packets
    BY <2>1 DEF FreshData, Recent
  <2>2. CASE packets' = <<>>
    BY <2>2, EmptySeq
  <2> QED
    BY <2>1, <2>2
<1>3. ASSUME NEW n PROVE AfterPlayed(n)' <=> AfterPlayed(n)
  BY DEF AfterPlayed
<1>4. ASSUME NEW n PROVE AfterRing(n)' <=> AfterRing(n)
  BY <1>1, <1>3 DEF AfterRing
<1>5. ASSUME NEW n, AfterFrame(n) PROVE AfterFrame(n)'
  BY <1>4, <1>5 DEF AfterFrame
<1>6. ASSUME NEW n, AfterCodec(n) PROVE AfterCodec(n)'
  BY <1>5, <1>6 DEF AfterCodec
<1>7. ASSUME NEW n, AfterHeld(n) PROVE AfterHeld(n)'
  BY <1>6, <1>7 DEF AfterHeld
<1>8. ASSUME NEW n, AfterPackets(n) PROVE AfterPackets(n)'
  BY <1>2, <1>7, <1>8 DEF AfterPackets
<1>9. RingPlaces'
  BY <1>1 DEF NumbersInv, RingPlaces
<1>10. RingOrder'
  BY <1>1, <1>3 DEF NumbersInv, RingOrder
<1>11. FrameOrder'
  BY <1>4 DEF NumbersInv, FrameOrder
<1>12. CodecOrder'
  BY <1>5 DEF NumbersInv, CodecOrder
<1>13. HeldOrder'
  BY <1>6 DEF NumbersInv, HeldOrder
<1>14. PacketsOrder'
  BY <1>2, <1>7 DEF NumbersInv, PacketsOrder
<1>15. FileOrder'
  BY <1>8 DEF FileOrder
<1> QED
  BY <1>9, <1>10, <1>11, <1>12, <1>13, <1>14, <1>15 DEF NumbersInv

\* The reading thread keeps the order: it puts each packet behind all that was read since
\* the last seek, and a seek begins with nothing.
LEMMA ReaderKeepsOrder ==
  ASSUME ThreadsInv, QueueInv, RingInv, QuitInv, EpochInv, EndInv, OrderInv, ReadStep, ~switched
  PROVE  NumbersInv'
<1>1. /\ UNCHANGED <<aborted, ring, rindex, size, rindex_shown, pkt_serial, codec, pkt, audio,
                     played, cb>>
      /\ dec' = dec \/ (dec = "await_packet" /\ dec' = "get")
  BY ReadKeeps, Zenon
<1>2. /\ Holds("data")' <=> Holds("data")
      /\ Holds("flush")' <=> Holds("flush")
      /\ HasFrame' <=> HasFrame
  BY <1>1 DEF Holds, HasFrame
<1>3. read # "ended"
  BY DEF ReadStep, ReadAborts, ReadSeek, ReadFlush, ReadPutFlush, ReadSought, ReadFill,
     ReadCheck, ReadCheckFrames, ReadDone, ReadFrame, ReadPut, ReadPutNull, ReadAtEnd
<1>4. NumbersInv /\ audio /\ ~aborted /\ (read = "put_flush" => packets = <<>>)
  BY <1>3 DEF OrderInv, EndInv, StreamEnd
<1>5. serial \in Nat /\ serial > 0 /\ epoch \in Nat /\ file \in Nat
  BY DEF QueueInv
<1>6. /\ read \notin {"flush", "put_flush", "put"} => AfterPackets(file)
      /\ read = "put" => AfterPackets(file - 1)
  BY <1>4 DEF NumbersInv, FileOrder
<1> USE DEF queueVars, ringVars, decVars, stateVars, histVars
<1>7. CASE ReadAborts \/ ReadSought \/ ReadFill \/ ReadCheck \/ ReadCheckFrames \/ ReadDone
           \/ ReadAtEnd \/ ReadSeek \/ ReadFrame \/ ReadFlush
  <2>1. /\ UNCHANGED <<serial, epoch>> /\ (packets' = packets \/ packets' = <<>>)
        /\ \/ /\ read \notin {"flush", "put_flush", "put"} /\ file' = file
              /\ read' \notin {"flush", "put_flush", "put"}
           \/ read' \in {"flush", "put_flush"}
           \/ read = "read" /\ read' = "put" /\ file' = file + 1
    <3>1. CASE ReadAborts \/ ReadSought \/ ReadFill \/ ReadCheck \/ ReadCheckFrames \/ ReadDone
               \/ ReadAtEnd
      BY <3>1 DEF ReadAborts, ReadSought, ReadFill, ReadCheck, ReadCheckFrames, ReadDone,
         ReadAtEnd
    <3>2. CASE ReadSeek \/ ReadFrame
      BY <3>2 DEF ReadSeek, ReadFrame
    <3>3. CASE ReadFlush
      BY <1>4, <3>3 DEF ReadFlush
    <3> QED
      BY <1>7, <3>1, <3>2, <3>3
  <2>2. file' = file + 1 => file' - 1 = file
    BY <1>5
  <2>3. /\ read' \notin {"flush", "put_flush", "put"} => AfterPackets(file')
        /\ read' = "put" => AfterPackets(file' - 1)
    BY <1>6, <2>1, <2>2
  <2> QED
    BY <1>1, <1>2, <1>4, <2>1, <2>3, NumbersStay
<1>8. CASE ReadPutFlush
  <2>1. Put(FlushPacket(0)) /\ epoch' = epoch + 1 /\ read' = "sought" /\ packets = <<>>
    BY <1>4, <1>8, Zenon DEF ReadPutFlush
  <2>2. /\ serial' = serial + 1 /\ Len(packets') = Len(packets) + 1
        /\ packets'[Len(packets) + 1].kind = "flush"
    BY <1>1, <1>4, <2>1, FlushPacketType, PutLast
  <2>3. \A j \in 1..Len(packets') : ~FreshData(j)'
    <3>1. Len(packets) = 0
      BY <2>1, EmptySeq
    <3> QED
      BY <2>2, <3>1 DEF FreshData
  <2>4. \A s \in Slots : ~Fresh(s)' /\ Place(s)' = Place(s)
    <3>1. \A s \in Slots : ring[s].serial \in Nat /\ ring[s].serial <= serial
      BY DEF EpochInv, RingInv, Frame
    <3> QED
      BY <1>1, <1>5, <2>2, <3>1 DEF Fresh, Place
  <2>5. pkt_serial' # serial'
    BY <1>1, <1>5, <2>2 DEF QueueInv
  <2>6. played'.epoch # epoch'
    BY <1>1, <1>5, <2>1 DEF EpochInv, Frame
  <2>7. RingPlaces' /\ RingOrder' /\ FrameOrder' /\ CodecOrder' /\ HeldOrder' /\ PacketsOrder'
    BY <1>1, <1>4, <2>3, <2>4, <2>5
       DEF NumbersInv, RingPlaces, RingOrder, FrameOrder, CodecOrder, HeldOrder, PacketsOrder
  <2>8. FileOrder'
    BY <2>1, <2>3, <2>4, <2>5, <2>6 DEF FileOrder, AfterPackets, AfterHeld, AfterCodec, AfterFrame,
       AfterRing, AfterPlayed
  <2> QED
    BY <2>7, <2>8 DEF NumbersInv
<1>9. CASE ReadPut \/ ReadPutNull
  <2>1. UNCHANGED <<epoch, file>> /\ read \notin {"flush", "put_flush"} /\ read' \notin {"flush", "put_flush", "put"}
    BY <1>9 DEF ReadPut, ReadPutNull
  <2>2. PICK p \in Taken : /\ p.kind \in {"data", "null"} /\ Put(p)
                           /\ p.kind = "data" => read = "put" /\ p.num = file - 1
                           /\ p.kind = "null" => read # "put"
    <3>1. CASE ReadPut
      <4>1. read = "put" /\ Put(Packet("data", file - 1, epoch))
        BY <1>4, <3>1 DEF ReadPut
      <4> QED
        BY <4>1, DataPacket
    <3>2. CASE ReadPutNull
      <4>1. read = "put_null" /\ Put(Packet("null", 0, 0))
        BY <1>4, <3>2 DEF ReadPutNull
      <4> QED
        BY <4>1, NullPacket
    <3> QED
      BY <1>9, <3>1, <3>2
  <2>3. /\ serial' = serial /\ Len(packets') = Len(packets) + 1
        /\ \A j \in 1..Len(packets) : packets'[j] = packets[j]
        /\ packets'[Len(packets) + 1].kind = p.kind
        /\ packets'[Len(packets) + 1].num = p.num
    <3>1. p.kind # "none" /\ p.kind # "flush"
      BY <2>2
    <3> QED
      BY <1>1, <1>4, <2>2, <3>1, PutLast
  <2>4. \A s \in Slots : (Fresh(s)' <=> Fresh(s)) /\ Place(s)' = Place(s)
    BY <1>1, <2>3 DEF Fresh, Place
  <2>5. ASSUME NEW n PROVE AfterPlayed(n)' <=> AfterPlayed(n)
    BY <1>1, <2>1 DEF AfterPlayed
  <2>6. ASSUME NEW n PROVE AfterRing(n)' <=> AfterRing(n)
    BY <1>1, <2>4, <2>5 DEF AfterRing
  <2>7. ASSUME NEW n PROVE AfterFrame(n)' <=> AfterFrame(n)
    BY <1>1, <1>2, <2>3, <2>6 DEF AfterFrame
  <2>8. ASSUME NEW n PROVE AfterCodec(n)' <=> AfterCodec(n)
    BY <1>1, <1>2, <2>3, <2>7 DEF AfterCodec
  <2>9. ASSUME NEW n PROVE AfterHeld(n)' <=> AfterHeld(n)
    BY <1>1, <1>2, <2>3, <2>8 DEF AfterHeld
  <2>10. RingPlaces' /\ RingOrder' /\ FrameOrder' /\ CodecOrder' /\ HeldOrder'
    <3>1. RingPlaces' /\ RingOrder'
      BY <1>1, <1>4, <2>4, <2>5 DEF NumbersInv, RingPlaces, RingOrder
    <3>2. FrameOrder'
      BY <1>1, <1>2, <1>4, <2>3, <2>6 DEF NumbersInv, FrameOrder
    <3>3. CodecOrder'
      BY <1>1, <1>2, <1>4, <2>3, <2>7 DEF NumbersInv, CodecOrder
    <3>4. HeldOrder'
      BY <1>1, <1>2, <1>4, <2>3, <2>8 DEF NumbersInv, HeldOrder
    <3> QED
      BY <3>1, <3>2, <3>3, <3>4
  <2>11. Len(packets) \in Nat /\ \A j \in 1..Len(packets') : j \in 1..Len(packets) \/ j = Len(packets) + 1
    BY <2>3, QueuedPackets
  <2>12. \A j \in 1..Len(packets) : FreshData(j)' <=> FreshData(j)
    BY <2>3, <2>11 DEF FreshData, Recent
  <2>13. CASE p.kind = "null"
    <3>1. \A j \in 1..Len(packets') : FreshData(j)' => j \in 1..Len(packets)
      BY <2>3, <2>11, <2>13 DEF FreshData
    <3>2. PacketsOrder'
      BY <1>4, <2>3, <2>9, <2>12, <3>1 DEF NumbersInv, PacketsOrder
    <3>3. AfterPackets(file)
      BY <1>6, <2>1, <2>2, <2>13
    <3>4. FileOrder'
      BY <2>1, <2>3, <2>9, <2>12, <3>1, <3>3 DEF FileOrder, AfterPackets
    <3> QED
      BY <2>10, <3>2, <3>4 DEF NumbersInv
  <2>14. CASE p.kind = "data"
    <3>1. AfterPackets(file - 1) /\ p.num = file - 1
      BY <1>6, <2>2, <2>14
    <3>2. AfterHeld(file - 1) /\ \A j \in 1..Len(packets) : FreshData(j) => packets[j].num < file - 1
      BY <3>1 DEF AfterPackets
    <3>3. AfterPackets(file)
      <4>1. file - 1 \in Int /\ file \in Int /\ file - 1 <= file
        BY <1>5
      <4> QED
        BY <3>1, <4>1, AfterLater
    <3>4. \A j \in 1..Len(packets') : FreshData(j)' =>
             \/ j \in 1..Len(packets) /\ FreshData(j) /\ packets'[j] = packets[j]
             \/ j = Len(packets) + 1 /\ packets'[j].num = file - 1
      BY <2>3, <2>11, <2>12, <3>1
    <3>5. PacketsOrder'
      <4>1. \A j \in 1..Len(packets') : FreshData(j)' => AfterHeld(packets'[j].num)
        BY <1>4, <3>2, <3>4 DEF NumbersInv, PacketsOrder
      <4>2. \A i, j \in 1..Len(packets') : FreshData(i)' /\ FreshData(j)' /\ i < j =>
               packets'[i].num < packets'[j].num
        BY <1>4, <2>11, <3>2, <3>4 DEF NumbersInv, PacketsOrder
      <4> QED
        BY <2>9, <4>1, <4>2 DEF PacketsOrder
    <3>6. \A j \in 1..Len(packets') : FreshData(j)' => packets'[j].num < file
      BY <1>5, <3>3, <3>4 DEF AfterPackets
    <3>7. FileOrder'
      <4>1. AfterHeld(file)'
        BY <2>1, <2>9, <3>3 DEF AfterPackets
      <4> QED
        BY <2>1, <3>6, <4>1 DEF FileOrder, AfterPackets
    <3> QED
      BY <2>10, <3>5, <3>7 DEF NumbersInv
  <2> QED
    BY <2>2, <2>13, <2>14
<1> QED
  BY <1>7, <1>8, <1>9 DEF ReadStep

\* A frame that the decoder's codec gives out was the oldest one of the codec.
LEMMA ReceiveKeepsOrder ==
  ASSUME QueueInv, NumbersInv, dec = "loop", dec' \in {"write", "failed"}, codec # <<>>,
         pkt' = Head(codec), codec' = Tail(codec),
         UNCHANGED <<ring, rindex, size, rindex_shown, played, epoch, serial, pkt_serial, packets,
                     cb, read, file>>
  PROVE  NumbersInv'
<1>1. ~HasFrame /\ ~Holds("data") /\ ~Holds("data")' /\ ~Holds("flush") /\ ~Holds("flush")'
  BY DEF HasFrame, Holds
<1>2. /\ 1 \in 1..Len(codec) /\ pkt' = codec[1] /\ Len(codec) \in Nat
      /\ \A j \in 1..Len(codec') : j + 1 \in 1..Len(codec) /\ 1 < j + 1 /\ codec'[j] = codec[j + 1]
  <2>1. Len(codec) \in Nat /\ Len(codec) > 0
    BY LenProperties, EmptySeq DEF QueueInv
  <2>2. Len(codec') = Len(codec) - 1 /\ \A j \in 1..Len(codec') : codec'[j] = codec[j + 1]
    BY HeadTailProperties DEF QueueInv
  <2> QED
    BY <2>1, <2>2
<1>3. \A s \in Slots : (Fresh(s)' <=> Fresh(s)) /\ Place(s)' = Place(s)
  BY DEF Fresh, Place
<1>4. \A j \in 1..Len(packets) : FreshData(j)' <=> FreshData(j)
  BY DEF FreshData, Recent
<1>5. pkt_serial = serial =>
         /\ \A j \in 1..Len(codec) : AfterFrame(codec[j].num)
         /\ \A i, j \in 1..Len(codec) : i < j => codec[i].num < codec[j].num
  BY <1>1 DEF NumbersInv, CodecOrder
<1>6. ASSUME NEW n PROVE AfterPlayed(n)' <=> AfterPlayed(n)
  BY DEF AfterPlayed
<1>7. ASSUME NEW n PROVE AfterRing(n)' <=> AfterRing(n)
  BY <1>3, <1>6 DEF AfterRing
<1>8. ASSUME NEW n, AfterCodec(n) PROVE AfterCodec(n)'
  <2>1. AfterRing(n)' /\ (pkt_serial = serial => \A j \in 1..Len(codec) : codec[j].num < n)
    BY <1>1, <1>7, <1>8 DEF AfterCodec, AfterFrame
  <2> QED
    BY <1>2, <2>1 DEF AfterCodec, AfterFrame
<1>9. ASSUME NEW n, AfterHeld(n) PROVE AfterHeld(n)'
  BY <1>1, <1>8, <1>9 DEF AfterHeld
<1>10. ASSUME NEW n, AfterPackets(n) PROVE AfterPackets(n)'
  BY <1>4, <1>9, <1>10 DEF AfterPackets
<1>11. RingPlaces' /\ RingOrder'
  BY <1>3, <1>6 DEF NumbersInv, RingPlaces, RingOrder
<1>12. FrameOrder'
  BY <1>2, <1>5, <1>7 DEF FrameOrder, AfterFrame
<1>13. CodecOrder'
  <2> SUFFICES ASSUME pkt_serial = serial
               PROVE  /\ \A j \in 1..Len(codec') : AfterFrame(codec[j].num)'
                      /\ \A i, j \in 1..Len(codec') : i < j => codec'[i].num < codec'[j].num
    BY DEF CodecOrder
  <2>1. \A i, j \in 1..Len(codec') : i < j => codec'[i].num < codec'[j].num
    <3>1. \A i, j \in 1..Len(codec') : i < j => i + 1 < j + 1
      BY <1>2
    <3> QED
      BY <1>2, <1>5, <3>1
  <2>2. ASSUME NEW j \in 1..Len(codec') PROVE AfterFrame(codec[j].num)'
    <3>1. AfterRing(codec[j + 1].num) /\ codec[1].num < codec[j + 1].num
      BY <1>2, <1>5 DEF AfterFrame
    <3> QED
      BY <1>2, <1>7, <3>1 DEF AfterFrame
  <2> QED
    BY <2>1, <2>2
<1>14. HeldOrder'
  BY <1>1 DEF HeldOrder
<1>15. PacketsOrder'
  BY <1>4, <1>9 DEF NumbersInv, PacketsOrder
<1>16. FileOrder'
  BY <1>10 DEF NumbersInv, FileOrder
<1> QED
  BY <1>11, <1>12, <1>13, <1>14, <1>15, <1>16 DEF NumbersInv

\* The packet the decoder takes was the oldest one of the queue; a flush packet cuts
\* off the codec, whose frames are of before.
LEMMA GetKeepsOrder ==
  ASSUME QueueInv, EpochCurrent, NumbersInv, dec = "get", dec' = "got", packets # <<>>,
         pkt' = Head(packets), packets' = Tail(packets), pkt_serial' = pkt'.serial,
         UNCHANGED <<ring, rindex, size, rindex_shown, played, epoch, serial, codec, cb, read,
                     file>>
  PROVE  NumbersInv'
<1>1. /\ 1 \in 1..Len(packets) /\ pkt' = packets[1]
      /\ \A j \in 1..Len(packets') : j + 1 \in 1..Len(packets) /\ packets'[j] = packets[j + 1]
      /\ \A j \in 1..Len(packets') : 1 < j + 1
  BY TakeFirst
<1>2. /\ ~HasFrame /\ ~HasFrame' /\ ~Holds("data") /\ ~Holds("flush")
      /\ Holds("data")' <=> packets[1].kind = "data"
      /\ Holds("flush")' <=> packets[1].kind = "flush"
      /\ pkt_serial' = serial <=> Recent(1)
  BY <1>1 DEF HasFrame, Holds, Recent
<1>3. \A j \in 1..Len(packets') : FreshData(j)' <=> FreshData(j + 1)
  BY <1>1 DEF FreshData, Recent
<1>4. \A s \in Slots : (Fresh(s)' <=> Fresh(s)) /\ Place(s)' = Place(s)
  BY DEF Fresh, Place
\* Under the serial of the queue the codec is that of before, unless it is flushed.
<1>5. pkt_serial' = serial /\ ~Holds("flush")' => pkt_serial = serial
  <2>1. ~ \E i \in 1..Len(packets) : i < 1
    OBVIOUS
  <2> QED
    BY <1>1, <1>2, <2>1 DEF EpochCurrent
<1>6. ASSUME NEW n PROVE AfterPlayed(n)' <=> AfterPlayed(n)
  BY DEF AfterPlayed
<1>7. ASSUME NEW n PROVE AfterRing(n)' <=> AfterRing(n)
  BY <1>4, <1>6 DEF AfterRing
<1>8. ASSUME NEW n, AfterFrame(n) PROVE AfterFrame(n)'
  BY <1>2, <1>7, <1>8 DEF AfterFrame
<1>9. ASSUME NEW n, AfterCodec(n) PROVE AfterCodec(n)'
  <2>1. pkt_serial = serial => \A j \in 1..Len(codec) : codec[j].num < n
    BY <1>2, <1>9 DEF AfterCodec
  <2> QED
    BY <1>5, <1>8, <1>9, <2>1 DEF AfterCodec
<1>10. ASSUME NEW n, AfterHeld(n), FreshData(1) => packets[1].num < n
       PROVE  AfterHeld(n)'
  BY <1>1, <1>2, <1>9, <1>10 DEF AfterHeld, FreshData
<1>11. ASSUME NEW n, AfterPackets(n) PROVE AfterPackets(n)'
  BY <1>1, <1>3, <1>10, <1>11 DEF AfterPackets
<1>12. RingPlaces' /\ RingOrder'
  BY <1>4, <1>6 DEF NumbersInv, RingPlaces, RingOrder
<1>13. FrameOrder'
  BY <1>2 DEF FrameOrder
<1>14. CodecOrder'
  <2> SUFFICES ASSUME pkt_serial' = serial, ~Holds("flush")' PROVE CodecOrder'
    BY DEF CodecOrder
  <2>1. /\ \A j \in 1..Len(codec) : AfterFrame(codec[j].num)
        /\ \A i, j \in 1..Len(codec) : i < j => codec[i].num < codec[j].num
    BY <1>2, <1>5 DEF NumbersInv, CodecOrder
  <2> QED
    BY <1>8, <2>1 DEF CodecOrder
<1>15. HeldOrder'
  <2> SUFFICES ASSUME Holds("data")', pkt_serial' = serial PROVE AfterCodec(pkt.num)'
    BY DEF HeldOrder
  <2>1. AfterHeld(packets[1].num)
    BY <1>1, <1>2 DEF NumbersInv, PacketsOrder, FreshData
  <2> QED
    BY <1>1, <1>9, <2>1 DEF AfterHeld
<1>16. PacketsOrder'
  <2>1. ASSUME NEW j \in 1..Len(packets'), FreshData(j)' PROVE AfterHeld(packets[j].num)'
    <3>1. /\ j + 1 \in 1..Len(packets) /\ 1 < j + 1 /\ FreshData(j + 1)
          /\ packets'[j] = packets[j + 1]
      BY <1>1, <1>3, <2>1
    <3>2. AfterHeld(packets[j + 1].num) /\ (FreshData(1) => packets[1].num < packets[j + 1].num)
      BY <1>1, <3>1 DEF NumbersInv, PacketsOrder
    <3> QED
      BY <1>10, <3>1, <3>2
  <2>2. \A i, j \in 1..Len(packets') : FreshData(i)' /\ FreshData(j)' /\ i < j =>
           packets'[i].num < packets'[j].num
    <3>1. \A i, j \in 1..Len(packets') : i < j => i + 1 < j + 1
      OBVIOUS
    <3> QED
      BY <1>1, <1>3, <3>1 DEF NumbersInv, PacketsOrder
  <2> QED
    BY <2>1, <2>2 DEF PacketsOrder
<1>17. FileOrder'
  BY <1>11 DEF NumbersInv, FileOrder
<1> QED
  BY <1>12, <1>13, <1>14, <1>15, <1>16, <1>17 DEF NumbersInv

\* A packet goes from the decoder's hands to the end of the codec's frames, a flush
\* packet removes them.
LEMMA FeedKeepsOrder ==
  ASSUME QueueInv, NumbersInv, dec = "feed", dec' = "loop",
         \/ pkt.kind = "flush" /\ codec' = <<>>
         \/ pkt.kind = "null" /\ codec' = codec
         \/ pkt.kind = "data" /\ codec' = Append(codec, pkt),
         UNCHANGED <<ring, rindex, size, rindex_shown, played, epoch, serial, pkt_serial, packets,
                     cb, read, file>>
  PROVE  NumbersInv'
<1>1. /\ ~HasFrame /\ ~HasFrame' /\ ~Holds("data")' /\ ~Holds("flush")'
      /\ Holds("data") <=> pkt.kind = "data"
      /\ Holds("flush") <=> pkt.kind = "flush"
  BY DEF HasFrame, Holds
<1>2. \A s \in Slots : (Fresh(s)' <=> Fresh(s)) /\ Place(s)' = Place(s)
  BY DEF Fresh, Place
<1>3. \A j \in 1..Len(packets) : FreshData(j)' <=> FreshData(j)
  BY DEF FreshData, Recent
\* What the codec holds now is what it held or the packet that was fed.
<1>4. /\ Holds("flush") => Len(codec') = 0
      /\ ~Holds("flush") => \A j \in 1..Len(codec') :
            \/ j \in 1..Len(codec) /\ codec'[j] = codec[j]
            \/ Holds("data") /\ codec'[j] = pkt /\ \A i \in 1..Len(codec') : i < j => i \in 1..Len(codec)
  <2>1. CASE pkt.kind = "flush" /\ codec' = <<>>
    BY <1>1, <2>1, EmptySeq
  <2>2. CASE pkt.kind = "null" /\ codec' = codec
    BY <1>1, <2>2
  <2>3. CASE pkt.kind = "data" /\ codec' = Append(codec, pkt)
    <3>1. /\ Len(codec) \in Nat /\ Len(codec') = Len(codec) + 1
          /\ \A j \in 1..Len(codec) : codec'[j] = codec[j]
          /\ codec'[Len(codec) + 1] = pkt
      BY <2>3, AppendProperties, LenProperties DEF QueueInv
    <3>2. \A j \in 1..Len(codec') : j \in 1..Len(codec) \/ j = Len(codec) + 1
      BY <3>1
    <3>3. \A i \in 1..Len(codec') : i < Len(codec) + 1 => i \in 1..Len(codec)
      BY <3>1
    <3> QED
      BY <1>1, <2>3, <3>1, <3>2, <3>3
  <2> QED
    BY <2>1, <2>2, <2>3
<1>5. ASSUME NEW n PROVE AfterPlayed(n)' <=> AfterPlayed(n)
  BY DEF AfterPlayed
<1>6. ASSUME NEW n PROVE AfterRing(n)' <=> AfterRing(n)
  BY <1>2, <1>5 DEF AfterRing
<1>7. ASSUME NEW n, AfterFrame(n) PROVE AfterFrame(n)'
  BY <1>1, <1>6, <1>7 DEF AfterFrame
<1>8. ASSUME NEW n, AfterHeld(n) PROVE AfterHeld(n)'
  <2>1. AfterFrame(n)' /\ (Holds("data") /\ pkt_serial = serial => pkt.num < n)
    BY <1>7, <1>8 DEF AfterHeld, AfterCodec
  <2>2. ASSUME pkt_serial = serial, NEW j \in 1..Len(codec') PROVE codec'[j].num < n
    <3>1. ~Holds("flush")
      BY <1>4, <2>2
    <3>2. \A i \in 1..Len(codec) : codec[i].num < n
      BY <1>8, <2>2, <3>1 DEF AfterHeld, AfterCodec
    <3> QED
      BY <1>4, <2>1, <2>2, <3>1, <3>2
  <2> QED
    BY <1>1, <2>1, <2>2 DEF AfterHeld, AfterCodec
<1>9. ASSUME NEW n, AfterPackets(n) PROVE AfterPackets(n)'
  BY <1>3, <1>8, <1>9 DEF AfterPackets
<1>10. RingPlaces' /\ RingOrder'
  BY <1>2, <1>5 DEF NumbersInv, RingPlaces, RingOrder
<1>11. FrameOrder' /\ HeldOrder'
  BY <1>1 DEF FrameOrder, HeldOrder
<1>12. CodecOrder'
  <2> SUFFICES ASSUME pkt_serial = serial, NEW j \in 1..Len(codec')
               PROVE  /\ AfterFrame(codec[j].num)'
                      /\ \A i \in 1..Len(codec') : i < j => codec'[i].num < codec'[j].num
    BY DEF CodecOrder
  <2>1. ~Holds("flush")
    BY <1>4
  <2>2. /\ \A k \in 1..Len(codec) : AfterFrame(codec[k].num)
        /\ \A i, k \in 1..Len(codec) : i < k => codec[i].num < codec[k].num
    BY <2>1 DEF NumbersInv, CodecOrder
  <2>3. CASE j \in 1..Len(codec) /\ codec'[j] = codec[j]
    <3>1. \A i \in 1..Len(codec') : i < j => i \in 1..Len(codec)
      BY <2>3, LenProperties DEF QueueInv
    <3>2. \A i \in 1..Len(codec') : i < j => codec'[i] = codec[i]
      BY <1>4, <2>1, <2>3, <3>1
    <3> QED
      BY <1>7, <2>2, <2>3, <3>1, <3>2
  <2>4. CASE Holds("data") /\ codec'[j] = pkt /\ \A i \in 1..Len(codec') : i < j => i \in 1..Len(codec)
    <3>1. AfterFrame(pkt.num) /\ \A i \in 1..Len(codec) : codec[i].num < pkt.num
      BY <2>1, <2>4 DEF NumbersInv, HeldOrder, AfterCodec
    <3>2. AfterFrame(codec[j].num)'
      BY <1>7, <2>4, <3>1
    <3> QED
      BY <1>4, <2>1, <2>4, <3>1, <3>2
  <2> QED
    BY <1>4, <2>1, <2>3, <2>4
<1>13. PacketsOrder'
  BY <1>3, <1>8 DEF NumbersInv, PacketsOrder
<1>14. FileOrder'
  BY <1>9 DEF NumbersInv, FileOrder
<1> QED
  BY <1>10, <1>11, <1>12, <1>13, <1>14 DEF NumbersInv

\* The frame is written behind the frames of the ring.
LEMMA PushKeepsOrder ==
  ASSUME QueueInv, RingInv, NumbersInv, dec = "slot", dec' \in {"loop", "failed"}, ~aborted,
         ring' = [ring EXCEPT ![windex] =
                     [epoch |-> pkt.epoch, num |-> pkt.num, serial |-> pkt_serial]],
         size' = size + 1, cb' = "test" => cb = "test",
         UNCHANGED <<rindex, rindex_shown, played, epoch, serial, pkt_serial, codec, packets,
                     read, file>>
  PROVE  NumbersInv'
<1>1. /\ HasFrame /\ ~HasFrame' /\ ~Holds("data") /\ ~Holds("data")' /\ ~Holds("flush")
      /\ ~Holds("flush")'
  BY DEF HasFrame, Holds
<1>2. MaxFrames \in Nat /\ MaxFrames > 1
  BY PlayAssumption
<1>3. windex \in Slots /\ Place(windex) = size /\ size \in Nat /\ size < MaxFrames
  BY <1>2 DEF RingInv, Place, Slots
<1>4. \A s \in Slots : Place(s)' = Place(s) /\ Place(s) \in Nat
  BY <1>2 DEF Place, Slots, RingInv
<1>5. \A s \in Slots : s # windex => ring'[s] = ring[s] /\ (Fresh(s)' <=> Fresh(s))
  BY DEF Fresh, RingInv
<1>6. \A s \in Slots :
         s = windex => ring'[s].num = pkt.num /\ (Fresh(s)' <=> pkt_serial = serial)
  BY DEF Fresh, RingInv
<1>7. ~Fresh(windex)
  BY <1>3 DEF NumbersInv, RingPlaces, Fresh, QueueInv
<1>8. \A j \in 1..Len(packets) : FreshData(j)' <=> FreshData(j)
  BY DEF FreshData, Recent
<1>9. pkt_serial = serial => AfterRing(pkt.num)
  BY <1>1 DEF NumbersInv, FrameOrder
<1>10. ASSUME NEW n PROVE AfterPlayed(n)' <=> AfterPlayed(n)
  BY DEF AfterPlayed
<1>11. ASSUME NEW n, AfterFrame(n) PROVE AfterFrame(n)' /\ AfterRing(n)'
  <2>1. AfterRing(n) /\ (pkt_serial = serial => pkt.num < n)
    BY <1>1, <1>11 DEF AfterFrame
  <2>2. \A s \in Slots : Fresh(s)' => ring'[s].num < n
    BY <1>5, <1>6, <2>1 DEF AfterRing
  <2> QED
    BY <1>1, <1>10, <2>1, <2>2 DEF AfterFrame, AfterRing
<1>12. ASSUME NEW n, AfterCodec(n) PROVE AfterCodec(n)'
  BY <1>1, <1>11, <1>12 DEF AfterCodec
<1>13. ASSUME NEW n, AfterHeld(n) PROVE AfterHeld(n)'
  BY <1>1, <1>12, <1>13 DEF AfterHeld
<1>14. ASSUME NEW n, AfterPackets(n) PROVE AfterPackets(n)'
  BY <1>8, <1>13, <1>14 DEF AfterPackets
<1>15. RingPlaces'
  <2>1. \A s \in Slots : ring[s].serial # 0 => Place(s) < size
    BY DEF NumbersInv, RingPlaces
  <2>2. \A s \in Slots : ring'[s].serial # 0 => Place(s) < size + 1
    BY <1>3, <1>4, <1>5, <2>1
  <2> QED
    BY <1>4, <2>2 DEF RingPlaces
<1>16. RingOrder'
  <2>1. ASSUME NEW s \in Slots, NEW t \in Slots, Fresh(s)', Fresh(t)', Place(s) < Place(t)
        PROVE  ring'[s].num < ring'[t].num
    <3>1. CASE t = windex
      <4>1. s # windex /\ Fresh(s) /\ ring'[s] = ring[s]
        BY <1>4, <1>5, <2>1, <3>1
      <4> QED
        BY <1>6, <1>9, <2>1, <3>1, <4>1 DEF AfterRing
    <3>2. CASE t # windex
      <4>1. Fresh(t) /\ ring'[t] = ring[t]
        BY <1>5, <2>1, <3>2
      <4>2. Place(t) < size
        BY <4>1 DEF NumbersInv, RingPlaces, Fresh, QueueInv
      <4>3. s # windex
        BY <1>3, <1>4, <2>1, <4>2
      <4>4. Fresh(s) /\ ring'[s] = ring[s]
        BY <1>5, <2>1, <4>3
      <4> QED
        BY <2>1, <4>1, <4>4 DEF NumbersInv, RingOrder
    <3> QED
      BY <3>1, <3>2
  <2>2. ASSUME NEW s \in Slots, Fresh(s)', Place(s) # 0 \/ rindex_shown = 0 \/ cb' = "test"
        PROVE  AfterPlayed(ring'[s].num)
    <3>1. CASE s = windex
      BY <1>6, <1>9, <2>2, <3>1 DEF AfterRing
    <3>2. CASE s # windex
      BY <1>5, <2>2, <3>2 DEF NumbersInv, RingOrder
    <3> QED
      BY <3>1, <3>2
  <2> QED
    BY <1>4, <1>10, <2>1, <2>2 DEF RingOrder
<1>17. FrameOrder' /\ HeldOrder'
  BY <1>1 DEF FrameOrder, HeldOrder
<1>18. CodecOrder'
  BY <1>1, <1>11 DEF NumbersInv, CodecOrder
<1>19. PacketsOrder'
  BY <1>8, <1>13 DEF NumbersInv, PacketsOrder
<1>20. FileOrder'
  BY <1>14 DEF NumbersInv, FileOrder
<1> QED
  BY <1>15, <1>16, <1>17, <1>18, <1>19, <1>20 DEF NumbersInv

LEMMA DecoderKeepsOrder ==
  ASSUME ThreadsInv, QueueInv, RingInv, EpochInv, OrderInv, DecoderStep, ~switched
  PROVE  NumbersInv'
<1> USE DEF queueVars, ringVars, decVars, stateVars, histVars
<1>1. UNCHANGED <<aborted, serial, played, read, epoch, rindex, rindex_shown, file>>
  BY Zenon DEF DecoderStep, DecStale, DecReceive, DecGet, DecGot, DecFeed, DecWrite, DecPush
<1>2. NumbersInv /\ EpochCurrent
  BY DEF OrderInv, EpochInv
<1>3. /\ read' \notin {"flush", "put_flush", "put"} => AfterPackets(file')
      /\ read' = "put" => AfterPackets(file' - 1)
  BY <1>1, <1>2 DEF NumbersInv, FileOrder
<1>4. CASE DecStale \/ DecGot \/ DecWrite
  <2>1. UNCHANGED <<packets, pkt, codec, pkt_serial, ring, size, cb>>
    BY <1>4, Zenon DEF DecStale, DecGot, DecWrite
  <2>2. /\ HasFrame' => HasFrame
        /\ Holds("data")' => Holds("data")
        /\ pkt_serial = serial /\ Holds("flush") => Holds("flush")'
    BY <1>4, <2>1 DEF DecStale, DecGot, DecWrite, HasFrame, Holds
  <2> QED
    BY <1>1, <1>2, <1>3, <2>1, <2>2, NumbersStay
<1>5. CASE DecReceive
  <2>1. /\ UNCHANGED <<packets, pkt_serial, ring, size, cb>> /\ dec = "loop"
        /\ \/ /\ dec' \in {"write", "failed"} /\ codec # <<>>
              /\ pkt' = Head(codec) /\ codec' = Tail(codec)
           \/ dec' \in {"exited", "get", "loop"} /\ UNCHANGED <<pkt, codec>>
    BY <1>5 DEF DecReceive
  <2>2. CASE /\ dec' \in {"write", "failed"} /\ codec # <<>>
             /\ pkt' = Head(codec) /\ codec' = Tail(codec)
    BY <1>1, <1>2, <2>1, <2>2, ReceiveKeepsOrder
  <2>3. CASE dec' \in {"exited", "get", "loop"} /\ UNCHANGED <<pkt, codec>>
    <3>1. ~HasFrame' /\ ~Holds("data")' /\ ~Holds("flush")
      BY <2>1, <2>3 DEF HasFrame, Holds
    <3> QED
      BY <1>1, <1>2, <1>3, <2>1, <2>3, <3>1, NumbersStay
  <2> QED
    BY <2>1, <2>2, <2>3
<1>6. CASE DecGet
  <2>1. UNCHANGED <<codec, ring, size, cb>> /\ dec = "get"
    BY <1>6, Zenon DEF DecGet
  <2>2. CASE dec' \in {"exited", "await_packet"} /\ UNCHANGED <<packets, pkt, pkt_serial>>
    <3>1. ~HasFrame' /\ ~Holds("data")' /\ ~Holds("flush")
      BY <2>1, <2>2 DEF HasFrame, Holds
    <3> QED
      BY <1>1, <1>2, <1>3, <2>1, <2>2, <3>1, NumbersStay
  <2>3. CASE /\ packets # <<>> /\ pkt' = Head(packets) /\ packets' = Tail(packets)
             /\ pkt_serial' = pkt'.serial /\ dec' = "got"
    BY <1>1, <1>2, <2>1, <2>3, GetKeepsOrder
  <2> QED
    BY <1>6, <2>2, <2>3, Zenon DEF DecGet
<1>7. CASE DecFeed
  <2>1. /\ UNCHANGED <<packets, pkt_serial, ring, size, cb>> /\ dec = "feed" /\ dec' = "loop"
        /\ \/ pkt.kind = "flush" /\ codec' = <<>>
           \/ pkt.kind = "null" /\ codec' = codec
           \/ pkt.kind = "data" /\ codec' = Append(codec, pkt)
    BY <1>7 DEF DecFeed, FlushBuffers
  <2> QED
    BY <1>1, <1>2, <2>1, FeedKeepsOrder
<1>8. CASE DecPush
  <2>1. /\ UNCHANGED <<packets, pkt_serial, codec>> /\ dec = "slot"
        /\ cb' = "test" => cb = "test"
    BY <1>8 DEF DecPush
  <2>2. CASE aborted
    <3>1. UNCHANGED <<ring, size, cb>> /\ dec' = "exited"
      BY <1>8, <2>2 DEF DecPush
    <3>2. ~HasFrame' /\ ~Holds("data")' /\ ~Holds("flush") /\ ~Holds("data") /\ ~Holds("flush")'
      BY <2>1, <3>1 DEF HasFrame, Holds
    <3> QED
      BY <1>1, <1>2, <1>3, <2>1, <3>1, <3>2, NumbersStay
  <2>3. CASE ~aborted
    <3>1. /\ ring' = [ring EXCEPT ![windex] =
                         [epoch |-> pkt.epoch, num |-> pkt.num, serial |-> pkt_serial]]
          /\ size' = size + 1 /\ dec' \in {"loop", "failed"}
      BY <1>8, <2>3 DEF DecPush
    <3> QED
      BY <1>1, <1>2, <2>1, <2>3, <3>1, PushKeepsOrder
  <2> QED
    BY <2>2, <2>3
<1> QED
  BY <1>4, <1>5, <1>6, <1>7, <1>8 DEF DecoderStep

\* frame_queue_next lets the frame at rindex go: the others move up one place.
LEMMA NextKeepsOrder ==
  ASSUME RingInv, QueueInv, NumbersInv, 0 < size,
         ring' = [ring EXCEPT ![rindex] = NoFrame], rindex' = (rindex + 1) % MaxFrames,
         size' = size - 1, HasFrame' <=> HasFrame, Holds("data")' <=> Holds("data"),
         Holds("flush")' <=> Holds("flush"),
         UNCHANGED <<rindex_shown, played, epoch, serial, pkt_serial, pkt, codec, packets, read,
                     file>>
  PROVE  NumbersInv'
<1>1. MaxFrames \in Nat /\ MaxFrames > 1
  BY PlayAssumption
<1>2. rindex' = IF rindex + 1 < MaxFrames THEN rindex + 1 ELSE rindex + 1 - MaxFrames
  BY <1>1, NextSlot DEF RingInv
<1>3. NoFrame.serial = 0
  BY DEF NoFrame
<1>4. \A s \in Slots : Fresh(s)' => s # rindex /\ Fresh(s) /\ ring'[s] = ring[s]
  BY <1>3 DEF Fresh, RingInv, QueueInv
<1>5. \A s \in Slots : s # rindex => Place(s)' = Place(s) - 1 /\ Place(s) \in Nat /\ Place(s) # 0
  BY <1>1, <1>2 DEF Place, Slots, RingInv
<1>6. \A j \in 1..Len(packets) : FreshData(j)' <=> FreshData(j)
  BY DEF FreshData, Recent
<1>7. ASSUME NEW n PROVE AfterPlayed(n)' <=> AfterPlayed(n)
  BY DEF AfterPlayed
<1>8. ASSUME NEW n, AfterRing(n) PROVE AfterRing(n)'
  BY <1>4, <1>7, <1>8 DEF AfterRing
<1>9. ASSUME NEW n, AfterFrame(n) PROVE AfterFrame(n)'
  BY <1>8, <1>9 DEF AfterFrame
<1>10. ASSUME NEW n, AfterCodec(n) PROVE AfterCodec(n)'
  BY <1>9, <1>10 DEF AfterCodec
<1>11. ASSUME NEW n, AfterHeld(n) PROVE AfterHeld(n)'
  BY <1>10, <1>11 DEF AfterHeld
<1>12. ASSUME NEW n, AfterPackets(n) PROVE AfterPackets(n)'
  BY <1>6, <1>11, <1>12 DEF AfterPackets
<1>13. RingPlaces'
  <2> SUFFICES ASSUME NEW s \in Slots, ring'[s].serial # 0 PROVE Place(s)' < size'
    BY DEF RingPlaces
  <2>1. s # rindex /\ ring'[s] = ring[s]
    BY <1>3 DEF RingInv
  <2>2. Place(s) < size /\ Place(s)' = Place(s) - 1 /\ Place(s) \in Nat
    BY <1>5, <2>1 DEF NumbersInv, RingPlaces
  <2> QED
    BY <2>2 DEF RingInv
<1>14. RingOrder'
  <2>1. \A s, t \in Slots : Fresh(s)' /\ Fresh(t)' /\ Place(s)' < Place(t)' =>
           ring'[s].num < ring'[t].num
    <3> SUFFICES ASSUME NEW s \in Slots, NEW t \in Slots, Fresh(s)', Fresh(t)',
                        Place(s)' < Place(t)'
                 PROVE  ring[s].num < ring[t].num
      BY <1>4
    <3>1. Fresh(s) /\ Fresh(t) /\ Place(s) < Place(t)
      BY <1>4, <1>5
    <3> QED
      BY <3>1 DEF NumbersInv, RingOrder
  <2>2. \A s \in Slots : Fresh(s)' => AfterPlayed(ring'[s].num)
    BY <1>4, <1>5 DEF NumbersInv, RingOrder
  <2> QED
    BY <1>7, <2>1, <2>2 DEF RingOrder
<1>15. FrameOrder'
  BY <1>8 DEF NumbersInv, FrameOrder
<1>16. CodecOrder'
  BY <1>9 DEF NumbersInv, CodecOrder
<1>17. HeldOrder'
  BY <1>10 DEF NumbersInv, HeldOrder
<1>18. PacketsOrder'
  BY <1>6, <1>11 DEF NumbersInv, PacketsOrder
<1>19. FileOrder'
  BY <1>12 DEF NumbersInv, FileOrder
<1> QED
  BY <1>13, <1>14, <1>15, <1>16, <1>17, <1>18, <1>19 DEF NumbersInv

\* The frame that is played is the first of the ring, and comes before the rest.
LEMMA TestKeepsOrder ==
  ASSUME RingInv, QueueInv, NumbersInv, cb = "test", cb' = "play", played' = ring[af],
         ring[af].serial = serial,
         UNCHANGED <<ring, rindex, size, rindex_shown, epoch, serial, pkt_serial, pkt, codec,
                     packets, dec, read, file>>
  PROVE  NumbersInv'
<1>1. MaxFrames \in Nat /\ MaxFrames > 1
  BY PlayAssumption
<1>2. /\ played' = ring[rindex] /\ Fresh(rindex) /\ rindex \in Slots /\ rindex_shown = 1
      /\ Place(rindex) = 0
  BY <1>1 DEF RingInv, Fresh, Slots, Place
<1>3. \A s \in Slots : (Fresh(s)' <=> Fresh(s)) /\ Place(s)' = Place(s) /\ Place(s) \in Nat
  BY <1>1 DEF Fresh, Place, RingInv, Slots
<1>4. \A j \in 1..Len(packets) : FreshData(j)' <=> FreshData(j)
  BY DEF FreshData, Recent
<1>5. /\ HasFrame' <=> HasFrame
      /\ Holds("data")' <=> Holds("data")
      /\ Holds("flush")' <=> Holds("flush")
  BY DEF HasFrame, Holds
<1>6. ASSUME NEW n, AfterRing(n) PROVE AfterRing(n)'
  <2>1. ring[rindex].num < n
    BY <1>2, <1>6 DEF AfterRing
  <2>2. AfterPlayed(n)'
    BY <1>2, <2>1 DEF AfterPlayed
  <2> QED
    BY <1>3, <1>6, <2>2 DEF AfterRing
<1>7. ASSUME NEW n, AfterFrame(n) PROVE AfterFrame(n)'
  BY <1>5, <1>6, <1>7 DEF AfterFrame
<1>8. ASSUME NEW n, AfterCodec(n) PROVE AfterCodec(n)'
  BY <1>5, <1>7, <1>8 DEF AfterCodec
<1>9. ASSUME NEW n, AfterHeld(n) PROVE AfterHeld(n)'
  BY <1>5, <1>8, <1>9 DEF AfterHeld
<1>10. ASSUME NEW n, AfterPackets(n) PROVE AfterPackets(n)'
  BY <1>4, <1>9, <1>10 DEF AfterPackets
<1>11. RingPlaces'
  BY <1>3 DEF NumbersInv, RingPlaces
<1>12. RingOrder'
  <2>1. \A s, t \in Slots : Fresh(s)' /\ Fresh(t)' /\ Place(s)' < Place(t)' =>
           ring'[s].num < ring'[t].num
    BY <1>3 DEF NumbersInv, RingOrder
  <2>2. ASSUME NEW s \in Slots, Fresh(s)', Place(s)' # 0 \/ rindex_shown' = 0 \/ cb' = "test"
        PROVE  played'.num < ring'[s].num
    <3>1. Fresh(s) /\ Place(rindex) < Place(s)
      BY <1>2, <1>3, <2>2
    <3> QED
      BY <1>2, <3>1 DEF NumbersInv, RingOrder
  <2> QED
    BY <2>1, <2>2 DEF RingOrder, AfterPlayed
<1>13. FrameOrder'
  BY <1>5, <1>6 DEF NumbersInv, FrameOrder
<1>14. CodecOrder'
  BY <1>5, <1>7 DEF NumbersInv, CodecOrder
<1>15. HeldOrder'
  BY <1>5, <1>8 DEF NumbersInv, HeldOrder
<1>16. PacketsOrder'
  BY <1>4, <1>9 DEF NumbersInv, PacketsOrder
<1>17. FileOrder'
  BY <1>10 DEF NumbersInv, FileOrder
<1> QED
  BY <1>11, <1>12, <1>13, <1>14, <1>15, <1>16, <1>17 DEF NumbersInv

LEMMA CallbackKeepsOrder ==
  ASSUME ThreadsInv, QueueInv, RingInv, OrderInv, CallbackStep, ~switched
  PROVE  NumbersInv'
<1> USE DEF queueVars, ringVars, decVars, stateVars, histVars
<1>1. /\ UNCHANGED <<packets, serial, pkt_serial, codec, pkt, epoch, read, file>>
      /\ dec' = dec \/ (dec = "await_slot" /\ dec' = "write")
  BY Zenon DEF CallbackStep, CallbackStarts, CallbackPeek, CallbackNext, CallbackTest,
     CallbackReturns, SignalFrames
<1>2. /\ HasFrame' <=> HasFrame
      /\ Holds("data")' <=> Holds("data")
      /\ Holds("flush")' <=> Holds("flush")
  BY <1>1 DEF HasFrame, Holds
<1>3. NumbersInv
  BY DEF OrderInv
<1>4. /\ read' \notin {"flush", "put_flush", "put"} => AfterPackets(file')
      /\ read' = "put" => AfterPackets(file' - 1)
  BY <1>1, <1>3 DEF NumbersInv, FileOrder
<1>5. CASE CallbackStarts \/ CallbackPeek \/ CallbackReturns
  <2>1. UNCHANGED <<ring, rindex, size, rindex_shown, played>> /\ cb' # "test"
    BY <1>5 DEF CallbackStarts, CallbackPeek, CallbackReturns
  <2> QED
    BY <1>1, <1>2, <1>3, <1>4, <2>1, NumbersStay
<1>6. CASE CallbackNext
  <2>1. UNCHANGED played /\ cb = "peeked"
    BY <1>6, Zenon DEF CallbackNext
  <2>2. CASE aborted
    <3>1. UNCHANGED <<ring, rindex, size, rindex_shown>> /\ cb' = "idle"
      BY <1>6, <2>2, Zenon DEF CallbackNext
    <3> QED
      BY <1>1, <1>2, <1>3, <1>4, <2>1, <3>1, NumbersStay
  <2>3. CASE ~aborted /\ rindex_shown = 0
    <3>1. UNCHANGED <<ring, rindex, size>> /\ rindex_shown' = 1
      BY <1>6, <2>3, Zenon DEF CallbackNext, KeepsLast
    <3> QED
      BY <1>1, <1>2, <1>3, <1>4, <2>1, <2>3, <3>1, NumbersStay
  <2>4. CASE ~aborted /\ rindex_shown # 0
    <3>1. /\ ring' = [ring EXCEPT ![rindex] = NoFrame]
          /\ rindex' = (rindex + 1) % MaxFrames /\ size' = size - 1
          /\ rindex_shown' = rindex_shown
      BY <1>6, <2>4, Zenon DEF CallbackNext, KeepsLast
    <3>2. 0 < size
      BY <2>1, <2>4 DEF RingInv
    <3> QED
      BY <1>1, <1>2, <1>3, <2>1, <3>1, <3>2, NextKeepsOrder
  <2> QED
    BY <2>2, <2>3, <2>4
<1>7. CASE CallbackTest
  <2>1. UNCHANGED <<ring, rindex, size, rindex_shown, dec>> /\ cb = "test"
    BY <1>7, Zenon DEF CallbackTest
  <2>2. CASE ring[af].serial # serial
    <3>1. UNCHANGED played /\ cb' = "peek"
      BY <1>7, <2>2, Zenon DEF CallbackTest
    <3> QED
      BY <1>1, <1>2, <1>3, <1>4, <2>1, <3>1, NumbersStay
  <2>3. CASE ring[af].serial = serial
    <3>1. played' = ring[af] /\ cb' = "play"
      BY <1>7, <2>3, Zenon DEF CallbackTest
    <3> QED
      BY <1>1, <1>3, <2>1, <2>3, <3>1, TestKeepsOrder
  <2> QED
    BY <2>2, <2>3
<1> QED
  BY <1>5, <1>6, <1>7 DEF CallbackStep

LEMMA OrderInvariant == Spec => []OrderInv
<1>1. Init => OrderInv
  <2> SUFFICES ASSUME Init PROVE NumbersInv
    BY DEF OrderInv
  <2>1. \A s \in Slots : ring[s].serial = 0 /\ ~Fresh(s)
    BY DEF Init, NoFrame, Fresh
  <2>2. \A j \in 1..Len(packets) : ~FreshData(j)
    BY DEF Init, FlushPacket, Packet, FreshData
  <2>3. pkt_serial # serial /\ played.epoch # epoch
    BY DEF Init, NoFrame
  <2> QED
    BY <2>1, <2>2, <2>3
       DEF NumbersInv, RingPlaces, RingOrder, FrameOrder, CodecOrder, HeldOrder, PacketsOrder,
           FileOrder, AfterPackets, AfterHeld, AfterCodec, AfterFrame, AfterRing, AfterPlayed
<1>2. ThreadsInv /\ QueueInv /\ RingInv /\ QuitInv /\ EpochInv /\ EndInv /\ OrderInv /\ [Next]_vars
         => OrderInv'
  <2> SUFFICES ASSUME ThreadsInv, QueueInv, RingInv, QuitInv, EpochInv, EndInv, OrderInv,
                      [Next]_vars, ~switched'
               PROVE  NumbersInv'
    BY DEF OrderInv
  <2> USE DEF queueVars, ringVars, decVars, stateVars, histVars
  <2>1. CASE ReadStep
    <3>1. switched' = switched
      BY <2>1, ReadKeeps, Zenon
    <3> QED
      BY <2>1, <3>1, ReaderKeepsOrder
  <2>2. CASE DecoderStep
    <3>1. switched' = switched
      BY <2>2, Zenon DEF DecoderStep, DecStale, DecReceive, DecGet, DecGot, DecFeed, DecWrite,
         DecPush
    <3> QED
      BY <2>2, <3>1, DecoderKeepsOrder
  <2>3. CASE CallbackStep
    <3>1. switched' = switched
      BY <2>3, Zenon DEF CallbackStep, CallbackStarts, CallbackPeek, CallbackNext, CallbackTest,
         CallbackReturns
    <3> QED
      BY <2>3, <3>1, CallbackKeepsOrder
  <2>4. CASE MainStep
    <3>1. switched' = switched
      BY <2>4, Zenon DEF MainStep, WaitRead, CloseAbort, CloseSignal, CloseJoin, CloseStream,
         OpenCodec, OpenStream, OpenStart
    <3>2. main \notin {"open", "opened", "start"} /\ NumbersInv
      BY <3>1 DEF QuitInv, OrderInv
    <3>3. /\ UNCHANGED <<ring, rindex, size, rindex_shown, played, epoch, serial, pkt_serial,
                         codec, pkt, read, file>>
          /\ packets' = packets \/ packets' = <<>>
      BY <2>4, <3>2 DEF MainStep, WaitRead, CloseAbort, CloseSignal, CloseJoin, CloseStream,
         OpenCodec, OpenStream, OpenStart
    <3>4. /\ HasFrame' => HasFrame
          /\ Holds("data")' => Holds("data")
          /\ Holds("flush") => Holds("flush")'
          /\ cb' = "test" => cb = "test"
      <4>1. /\ \/ dec' = dec
               \/ dec \in {"await_packet", "exited", "failed"} /\ dec' \in {"get", "off"}
               \/ dec = "await_slot" /\ dec' = "write"
            /\ cb' = "test" => cb = "test"
        BY <2>4, <3>2 DEF MainStep, WaitRead, CloseAbort, CloseSignal, CloseJoin, CloseStream,
           OpenCodec, OpenStream, OpenStart, SignalPackets, SignalSleeper, SignalFrames
      <4> QED
        BY <3>3, <4>1 DEF HasFrame, Holds
    <3>5. /\ read' \notin {"flush", "put_flush", "put"} => AfterPackets(file')
          /\ read' = "put" => AfterPackets(file' - 1)
      BY <3>2, <3>3 DEF NumbersInv, FileOrder
    <3> QED
      BY <3>2, <3>3, <3>4, <3>5, NumbersStay
  <2>5. CASE UserSeeks \/ UserCycles \/ Quit \/ SpuriousWakeup \/ Terminated \/ UNCHANGED vars
    <3>1. /\ UNCHANGED <<packets, serial, ring, rindex, size, rindex_shown, pkt_serial, codec, pkt,
                         file, read, epoch, played>>
          /\ dec' = dec \/ (dec = "await_packet" /\ dec' = "get")
                        \/ (dec = "await_slot" /\ dec' = "write")
          /\ cb' = cb \/ (cb = "await_frame" /\ cb' = "peek")
          /\ switched' = switched \/ switched' = TRUE
      BY <2>5, OthersKeep, Zenon
    <3>2. /\ Holds("data")' <=> Holds("data")
          /\ Holds("flush")' <=> Holds("flush")
          /\ HasFrame' <=> HasFrame
          /\ cb' = "test" => cb = "test"
      BY <3>1 DEF Holds, HasFrame
    <3>3. NumbersInv
      <4>1. switched' = TRUE => switched'
        OBVIOUS
      <4>2. switched' = switched
        BY <3>1, <4>1, Zenon
      <4> QED
        BY <4>2 DEF OrderInv
    <3>4. /\ read' \notin {"flush", "put_flush", "put"} => AfterPackets(file')
          /\ read' = "put" => AfterPackets(file' - 1)
      BY <3>1, <3>3 DEF NumbersInv, FileOrder
    <3> QED
      BY <3>1, <3>2, <3>3, <3>4, NumbersStay
  <2> QED
    BY <2>1, <2>2, <2>3, <2>4, <2>5 DEF Next
<1> QED
  BY <1>1, <1>2, ThreadsInvariant, QueueInvariant, RingInvariant, QuitInvariant, EpochInvariant,
     EndInvariant, PTL DEF Spec

\* What is played is of the last seek and comes in the order of the file, none twice, for
\* any number of packets, seeks and switches and any ring, although the codec and the ring
\* are not emptied at a seek: the serials and the flush packet keep what is old apart.
THEOREM CurrentFramesOnly == Spec => OnlyCurrentFramesPlayed
<1>1. QueueInv /\ RingInv /\ EpochInv /\ OrderInv /\ [Next]_vars =>
         [played' # played =>
            /\ ~aborted => played'.epoch = epoch
            /\ played.epoch = epoch /\ ~switched => played'.num > played.num]_vars
  <2> SUFFICES ASSUME QueueInv, RingInv, EpochInv, OrderInv, [Next]_vars, played' # played
               PROVE  /\ ~aborted => played'.epoch = epoch
                      /\ played.epoch = epoch /\ ~switched => played'.num > played.num
    OBVIOUS
  <2> USE DEF queueVars, ringVars, decVars, stateVars, histVars
  <2>1. CallbackTest
    <3>1. ~ReadStep
      BY ReadKeeps, Zenon
    <3>2. ~DecoderStep
      BY Zenon DEF DecoderStep, DecStale, DecReceive, DecGet, DecGot, DecFeed, DecWrite, DecPush
    <3>3. ~MainStep
      BY Zenon DEF MainStep, WaitRead, CloseAbort, CloseSignal, CloseJoin, CloseStream,
         OpenCodec, OpenStream, OpenStart
    <3>4. ~(UserSeeks \/ UserCycles \/ Quit \/ SpuriousWakeup \/ Terminated \/ UNCHANGED vars)
      BY OthersKeep, Zenon
    <3>5. CallbackStep => CallbackTest
      BY Zenon DEF CallbackStep, CallbackStarts, CallbackPeek, CallbackNext, CallbackTest,
         CallbackReturns
    <3> QED
      BY <3>1, <3>2, <3>3, <3>4, <3>5, Zenon DEF Next
  <2>2. cb = "test" /\ played' = ring[af] /\ ring[af].serial = serial
    BY <2>1, Zenon DEF CallbackTest
  <2>3. af = rindex /\ rindex \in Slots /\ Fresh(rindex) /\ played' = ring[rindex]
    BY <2>2, PlayAssumption DEF RingInv, Slots, Fresh
  <2>4. ~aborted => played'.epoch = epoch
    BY <2>3 DEF EpochInv, EpochCurrent
  <2>5. ASSUME played.epoch = epoch, ~switched PROVE played'.num > played.num
    <3>1. AfterPlayed(ring[rindex].num)
      BY <2>2, <2>3, <2>5 DEF OrderInv, NumbersInv, RingOrder
    <3>2. played.num \in Int /\ ring[rindex].num \in Int
      BY <2>3, PlayAssumption DEF EpochInv, RingInv, Frame
    <3> QED
      BY <2>3, <2>5, <3>1, <3>2 DEF AfterPlayed
  <2> QED
    BY <2>4, <2>5
<1> QED
  BY <1>1, QueueInvariant, RingInvariant, EpochInvariant, OrderInvariant, PTL
     DEF Spec, OnlyCurrentFramesPlayed

-----------------------------------------------------------------------------
(***************************************************************************)
(* No wakeup is lost, though decoder and callback sleep on one condition   *)
(* of the frame queue and a signal wakes one of them.                      *)
(***************************************************************************)

\* Who sleeps has nothing to do, and knows of no abort; until frame_queue_signal,
\* which wakes one thread, because one at most sleeps on the ring.
NoWakeupLost ==
    /\ dec = "await_packet" => packets = <<>> /\ ~aborted
    /\ dec = "await_slot" => NoSlot /\ (aborted => main = "signal")
    /\ cb = "await_frame" => size - rindex_shown <= 0 /\ (aborted => main = "signal")
    /\ ~(dec = "await_slot" /\ cb = "await_frame")

\* The main thread waits for a decoder, a callback or a reading thread that
\* does not sleep.
NoCloseHangs ==
    /\ main = "join" => dec \notin {"await_packet", "await_slot"}
    /\ main = "device" => cb # "await_frame"
    /\ main = "wait_read" => abort_request

\* The callback finds no frame in an empty ring, the decoder no slot in a full one.
LEMMA NotBothSleep ==
  ASSUME RingInv
  PROVE  ~(NoSlot /\ size - rindex_shown <= 0)
BY PlayAssumption DEF RingInv, NoSlot

\* A packet comes with a wakeup.
LEMMA PutWakesSleeper ==
  ASSUME NEW p, Put(p)
  PROVE  dec' = "await_packet" => packets' = packets /\ dec = "await_packet"
<1>1. CASE aborted
  BY <1>1, Zenon DEF Put
<1>2. CASE ~aborted
  <2>1. SignalPackets
    BY <1>2, Zenon DEF Put
  <2> QED
    BY <2>1 DEF SignalPackets
<1> QED
  BY <1>1, <1>2

LEMMA ReaderWakes ==
  ASSUME NoWakeupLost, ReadStep
  PROVE  NoWakeupLost'
<1>1. /\ UNCHANGED <<aborted, size, rindex_shown, cb, main>>
      /\ dec' = dec \/ (dec = "await_packet" /\ dec' = "get")
  BY ReadKeeps, Zenon
<1> USE DEF queueVars
<1>2. dec' = "await_packet" => packets' \in {packets, <<>>}
  <2>1. CASE ReadAborts \/ ReadSeek \/ ReadFlush \/ ReadSought \/ ReadFill \/ ReadCheck
             \/ ReadCheckFrames \/ ReadDone \/ ReadFrame \/ ReadAtEnd
    BY <2>1 DEF ReadAborts, ReadSeek, ReadFlush, ReadSought, ReadFill, ReadCheck,
       ReadCheckFrames, ReadDone, ReadFrame, ReadAtEnd
  <2>2. CASE ReadPutFlush
    BY <2>2, PutWakesSleeper, Zenon DEF ReadPutFlush
  <2>3. CASE ReadPut
    BY <2>3, PutWakesSleeper, Zenon DEF ReadPut
  <2>4. CASE ReadPutNull
    BY <2>4, PutWakesSleeper, Zenon DEF ReadPutNull
  <2> QED
    BY <2>1, <2>2, <2>3, <2>4, Zenon DEF ReadStep
<1> QED
  BY <1>1, <1>2 DEF NoWakeupLost, NoSlot

LEMMA DecoderWakes ==
  ASSUME RingInv, NoWakeupLost, DecoderStep
  PROVE  NoWakeupLost'
<1> USE DEF NoWakeupLost, queueVars, ringVars, stateVars
<1>1. CASE DecStale \/ DecReceive \/ DecGot \/ DecFeed
  <2>1. /\ dec' \notin {"await_packet", "await_slot"}
        /\ UNCHANGED <<aborted, size, rindex_shown, cb, main>>
    BY <1>1 DEF DecStale, DecReceive, DecGot, DecFeed
  <2> QED
    BY <2>1
<1>2. CASE DecGet
  <2>1. /\ dec' = "await_packet" => packets' = <<>> /\ ~aborted
        /\ dec' # "await_slot" /\ UNCHANGED <<aborted, size, rindex_shown, cb, main>>
    BY <1>2 DEF DecGet
  <2> QED
    BY <2>1
<1>3. CASE DecWrite
  <2>1. /\ dec' = "await_slot" => NoSlot /\ ~aborted
        /\ dec' # "await_packet" /\ UNCHANGED <<aborted, size, rindex_shown, cb, main>>
    BY <1>3 DEF DecWrite
  <2> QED
    BY <2>1, NotBothSleep DEF NoSlot
<1>4. CASE DecPush
  <2>1. /\ dec' \in {"exited", "loop", "failed"} /\ UNCHANGED <<aborted, main, rindex_shown>>
        /\ \/ UNCHANGED <<size, cb>>
           \/ cb' # "await_frame"
    BY <1>4 DEF DecPush
  <2> QED
    BY <2>1
<1> QED
  BY <1>1, <1>2, <1>3, <1>4 DEF DecoderStep

LEMMA CallbackWakes ==
  ASSUME RingInv, NoWakeupLost, CallbackStep
  PROVE  NoWakeupLost'
<1> USE DEF NoWakeupLost, queueVars, ringVars, stateVars
<1>1. CASE CallbackStarts \/ CallbackTest \/ CallbackReturns
  <2>1. /\ cb' # "await_frame"
        /\ UNCHANGED <<packets, aborted, size, rindex_shown, dec, main>>
    BY <1>1 DEF CallbackStarts, CallbackTest, CallbackReturns
  <2> QED
    BY <2>1 DEF NoSlot
<1>2. CASE CallbackPeek
  <2>1. /\ cb' = "await_frame" => size - rindex_shown <= 0 /\ ~aborted
        /\ UNCHANGED <<packets, aborted, size, rindex_shown, dec, main>>
    BY <1>2 DEF CallbackPeek
  <2> QED
    BY <2>1, NotBothSleep DEF NoSlot
<1>3. CASE CallbackNext
  <2>1. cb' # "await_frame" /\ UNCHANGED <<packets, aborted, main>>
    BY <1>3 DEF CallbackNext, SignalFrames
  <2>2. dec' = "await_slot" => dec = "await_slot" /\ size' = size
    BY <1>3 DEF CallbackNext, SignalFrames
  <2>3. dec' = "await_packet" => dec = "await_packet"
    BY <1>3 DEF CallbackNext, SignalFrames
  <2> QED
    BY <2>1, <2>2, <2>3 DEF NoSlot
<1> QED
  BY <1>1, <1>2, <1>3 DEF CallbackStep

LEMMA MainWakes ==
  ASSUME ThreadsInv, NoWakeupLost, MainStep
  PROVE  NoWakeupLost'
<1> USE DEF NoWakeupLost, NoSlot, queueVars, ringVars, stateVars
<1>1. CASE WaitRead \/ OpenCodec \/ OpenStream
  <2>1. /\ main # "signal" /\ UNCHANGED <<packets, aborted, size, rindex_shown, dec, cb>>
    BY <1>1 DEF WaitRead, OpenCodec, OpenStream
  <2> QED
    BY <2>1
<1>2. CASE CloseAbort
  <2>1. /\ main' = "signal" /\ dec' # "await_packet" /\ (dec' = "await_slot" => dec' = dec)
        /\ UNCHANGED <<size, rindex_shown, cb>>
    BY <1>2 DEF CloseAbort, SignalPackets
  <2> QED
    BY <2>1
<1>3. CASE CloseSignal
  <2>1. /\ aborted /\ UNCHANGED <<packets, aborted, size, rindex_shown>>
        /\ dec' # "await_slot" /\ cb' # "await_frame"
        /\ dec' = "await_packet" => dec = "await_packet"
    BY <1>3 DEF CloseSignal, SignalSleeper, SignalFrames, ThreadsInv
  <2> QED
    BY <2>1
<1>4. CASE CloseJoin
  BY <1>4 DEF CloseJoin
<1>5. CASE CloseStream
  BY <1>5 DEF CloseStream, ThreadsInv
<1>6. CASE OpenStart
  BY <1>6 DEF OpenStart
<1> QED
  BY <1>1, <1>2, <1>3, <1>4, <1>5, <1>6 DEF MainStep

\* packet_queue_put, packet_queue_abort, frame_queue_push, frame_queue_next and
\* frame_queue_signal wake who has to be woken, for every ring of two slots or more.
THEOREM WakeupsReach == Spec => []NoWakeupLost
<1>1. Init => NoWakeupLost
  BY DEF Init, NoWakeupLost
<1>2. ThreadsInv /\ RingInv /\ NoWakeupLost /\ [Next]_vars => NoWakeupLost'
  <2> SUFFICES ASSUME ThreadsInv, RingInv, NoWakeupLost, [Next]_vars PROVE NoWakeupLost'
    OBVIOUS
  <2>1. CASE UserSeeks \/ UserCycles \/ Quit \/ SpuriousWakeup \/ Terminated \/ UNCHANGED vars
    <3>1. /\ UNCHANGED <<packets, aborted, size, rindex_shown>>
          /\ dec' = dec \/ dec' \in {"get", "write"}
          /\ cb' = cb \/ cb' = "peek"
          /\ main' = main \/ main = "idle"
      BY <2>1, OthersKeep, Zenon
    <3> QED
      BY <3>1 DEF NoWakeupLost, NoSlot
  <2> QED
    BY <2>1, ReaderWakes, DecoderWakes, CallbackWakes, MainWakes, Zenon DEF Next
<1> QED
  BY <1>1, <1>2, ThreadsInvariant, RingInvariant, PTL DEF Spec

\* stream_close and stream_component_close wait for threads that can go on: the
\* reading thread, which never sleeps without a timeout, has been told to end, and
\* neither decoder nor callback sleeps through the abort.
THEOREM ClosingNeverHangs == Spec => []NoCloseHangs
<1>1. ThreadsInv /\ NoWakeupLost /\ QuitInv => NoCloseHangs
  BY DEF ThreadsInv, NoWakeupLost, QuitInv, NoCloseHangs
<1> QED
  BY <1>1, ThreadsInvariant, WakeupsReach, QuitInvariant, PTL
=============================================================================
