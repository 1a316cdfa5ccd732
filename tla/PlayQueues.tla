----------------------------- MODULE PlayQueues -----------------------------
(***************************************************************************)
(* fftools/ffplay.c: how ffplay plays an audio stream.  A reading thread   *)
(* queues packets, a decoder thread turns them into frames of a small ring,*)
(* the callback of the audio device takes frames from the ring, and the    *)
(* main thread asks for seeks, switches streams and quits.                 *)
(*                                                                         *)
(* A seek does not stop the decoder: it empties the packet queue and puts a*)
(* flush packet into it, which begins a new "serial"; everything carries   *)
(* the serial of its packet, and what is of an old serial is thrown away.  *)
(*                                                                         *)
(* A section under a mutex is one action, an access without one another.   *)
(* audio_st and audio_stream, set one after the other, are one variable.   *)
(***************************************************************************)
EXTENDS Integers, Sequences

CONSTANTS
    NPackets,    \* packets of the stream in the file; one packet is one frame
    MaxFrames,   \* SAMPLE_QUEUE_SIZE
    MinFrames,   \* MIN_FRAMES, packets that are enough not to read ahead
    InfBuf,      \* the option -infbuf
    MaxSeeks,    \* bound: seeks of the user
    MaxCycles    \* bound: switches of the stream by the user

ASSUME PlayAssumption ==
    /\ NPackets \in Nat /\ MinFrames \in Nat /\ MaxSeeks \in Nat /\ MaxCycles \in Nat
    /\ MaxFrames \in Nat \ {0, 1} /\ InfBuf \in BOOLEAN

VARIABLES
    packets, aborted, serial,                   \* the PacketQueue audioq
    ring, rindex, windex, size, rindex_shown,   \* the FrameQueue sampq
    pkt_serial, finished, codec, draining, pkt, \* the Decoder auddec and its codec
    audio, eof, seek_req, abort_request,        \* of the VideoState
    file,     \* the demuxer: the number of the next packet
    read,     \* where the reading thread is
    dec,      \* where the decoder thread is
    cb, af,   \* where the audio callback is, and the slot of its frame
    main,     \* where the main thread is
    epoch,    \* history: seeks carried out
    inUse,    \* history: the frame the callback has taken
    played,   \* history: the last frame played
    switched, \* history: the stream was switched
    asked     \* bound: commands of the user so far, by kind

queueVars == <<packets, aborted, serial>>
ringVars == <<ring, rindex, windex, size, rindex_shown>>
decVars == <<pkt_serial, finished, codec, draining, pkt>>
stateVars == <<audio, eof, seek_req, abort_request>>
histVars == <<epoch, inUse, played, switched, asked>>
vars == <<queueVars, ringVars, decVars, stateVars, file, read, dec, cb, af, main, histVars>>

Slots == 0..(MaxFrames - 1)
NoFrame == [epoch |-> 0, num |-> 0, serial |-> 0]
Packet(kind, num, ep) == [kind |-> kind, num |-> num, epoch |-> ep, serial |-> 0]
FlushPacket(ser) == [Packet("flush", 0, 0) EXCEPT !.serial = ser]

-----------------------------------------------------------------------------
\* The reading thread has opened the stream and enters its loop.
Init ==
    /\ packets = <<FlushPacket(1)>> /\ aborted = FALSE /\ serial = 1
    /\ ring = [i \in Slots |-> NoFrame] /\ rindex = 0 /\ windex = 0 /\ size = 0
    /\ rindex_shown = 0
    /\ pkt_serial = -1 /\ finished = 0 /\ codec = <<>> /\ draining = FALSE
    /\ pkt = Packet("none", 0, 0)
    /\ audio = TRUE /\ eof = FALSE /\ seek_req = FALSE /\ abort_request = FALSE
    /\ file = 1 /\ read = "top" /\ dec = "loop" /\ cb = "idle" /\ af = 0 /\ main = "idle"
    /\ epoch = 1 /\ inUse = NoFrame /\ played = NoFrame /\ switched = FALSE
    /\ asked = [seeks |-> 0, cycles |-> 0]

\* SDL_CondSignal of the packet queue, whose only sleeper is the decoder.
SignalPackets == dec' = IF dec = "await_packet" THEN "get" ELSE dec

\* packet_queue_put: an aborted queue takes nothing.
Put(p) ==
    IF aborted THEN UNCHANGED <<packets, serial, dec>>
    ELSE /\ serial' = IF p.kind = "flush" THEN serial + 1 ELSE serial
         /\ packets' = Append(packets, [p EXCEPT !.serial = serial'])
         /\ SignalPackets

\* SDL_CondSignal of the frame queue, on which the decoder and the callback
\* sleep: one of them wakes.  "running" is where the caller goes on.
SignalFrames(running) ==
    \/ dec = "await_slot" /\ dec' = "write" /\ cb' = running
    \/ running = "await_frame" /\ cb' = "peek" /\ UNCHANGED dec
    \/ dec # "await_slot" /\ running # "await_frame" /\ cb' = running /\ UNCHANGED dec

-----------------------------------------------------------------------------
\* The reading thread, read_thread.

ReadAborts ==
    /\ read = "top" /\ abort_request
    /\ read' = "ended"
    /\ UNCHANGED <<queueVars, ringVars, decVars, stateVars, file, dec, cb, af, main, histVars>>

\* avformat_seek_file moves the demuxer to some packet, or fails.
ReadSeek ==
    /\ read = "top" /\ ~abort_request /\ seek_req
    /\ \/ /\ file' \in 1..(NPackets + 1)
          /\ read' = "flush"
       \/ read' = "sought" /\ UNCHANGED file
    /\ UNCHANGED <<queueVars, ringVars, decVars, stateVars, dec, cb, af, main, histVars>>

\* packet_queue_flush, and packet_queue_put of the flush packet.
ReadFlush ==
    /\ read = "flush"
    /\ packets' = IF audio THEN <<>> ELSE packets
    /\ read' = IF audio THEN "put_flush" ELSE "sought"
    /\ epoch' = IF audio THEN epoch ELSE epoch + 1
    /\ UNCHANGED <<aborted, serial, ringVars, decVars, stateVars, file, dec, cb, af, main,
                   inUse, played, switched, asked>>

ReadPutFlush ==
    /\ read = "put_flush"
    /\ Put(FlushPacket(0))
    /\ epoch' = epoch + 1
    /\ read' = "sought"
    /\ UNCHANGED <<aborted, ringVars, decVars, stateVars, file, cb, af, main, inUse, played,
                   switched, asked>>

ReadSought ==
    /\ read = "sought"
    /\ seek_req' = FALSE /\ eof' = FALSE
    /\ read' = "fill"
    /\ UNCHANGED <<queueVars, ringVars, decVars, audio, abort_request,
                   file, dec, cb, af, main, histVars>>

\* stream_has_enough_packets: then the thread waits 10 ms and starts again.
EnoughPackets == ~audio \/ aborted \/ Len(packets) > MinFrames

ReadFill ==
    /\ read = "fill" \/ (read = "top" /\ ~abort_request /\ ~seek_req)
    /\ read' = IF ~InfBuf /\ EnoughPackets THEN "top" ELSE "check"
    /\ UNCHANGED <<queueVars, ringVars, decVars, stateVars, file, dec, cb, af, main, histVars>>

\* auddec.finished == audioq.serial; the variant takes any end of stream.
AllDecodedOnce == finished # 0
AllDecoded == finished = serial

\* The stream has been decoded to its end, and then its frames were taken.
ReadCheck ==
    /\ read = "check"
    /\ read' = IF ~audio THEN "done" ELSE IF AllDecoded THEN "check_frames" ELSE "read"
    /\ UNCHANGED <<queueVars, ringVars, decVars, stateVars, file, dec, cb, af, main, histVars>>

ReadCheckFrames ==
    /\ read = "check_frames"
    /\ read' = IF size - rindex_shown = 0 THEN "done" ELSE "read"
    /\ UNCHANGED <<queueVars, ringVars, decVars, stateVars, file, dec, cb, af, main, histVars>>

\* The end of the playback: with -autoexit the thread ends, which makes the main
\* thread quit.  (With -loop it seeks to the start, as the user may.)
ReadDone ==
    /\ read = "done"
    /\ read' = "ended"
    /\ UNCHANGED <<queueVars, ringVars, decVars, stateVars, file, dec, cb, af, main, histVars>>

\* av_read_frame: a packet, or the end of the file.
ReadFrame ==
    /\ read = "read"
    /\ IF file <= NPackets
       THEN /\ file' = file + 1 /\ eof' = FALSE
            /\ read' = "put"
       ELSE /\ read' = IF eof THEN "top" ELSE "put_null"
            /\ UNCHANGED <<file, eof>>
    /\ UNCHANGED <<queueVars, ringVars, decVars, audio, seek_req, abort_request, dec, cb, af,
                   main, histVars>>

ReadPut ==
    /\ read = "put"
    /\ IF audio THEN Put(Packet("data", file - 1, epoch)) ELSE UNCHANGED <<packets, serial,
                                                                           dec>>
    /\ read' = "top"
    /\ UNCHANGED <<aborted, ringVars, decVars, stateVars, file, cb, af, main, histVars>>

\* packet_queue_put_nullpacket, which makes the decoder drain, once per end.
ReadPutNull ==
    /\ read = "put_null"
    /\ IF audio THEN Put(Packet("null", 0, 0)) ELSE UNCHANGED <<packets, serial, dec>>
    /\ read' = "at_end"
    /\ UNCHANGED <<aborted, ringVars, decVars, stateVars, file, cb, af, main, histVars>>

ReadAtEnd ==
    /\ read = "at_end"
    /\ eof' = TRUE
    /\ read' = "top"
    /\ UNCHANGED <<queueVars, ringVars, decVars, audio, seek_req, abort_request, file, dec,
                   cb, af, main, histVars>>

ReadStep ==
    \/ ReadAborts \/ ReadSeek \/ ReadFlush \/ ReadPutFlush \/ ReadSought \/ ReadFill
    \/ ReadCheck \/ ReadCheckFrames \/ ReadDone \/ ReadFrame \/ ReadPut \/ ReadPutNull
    \/ ReadAtEnd

-----------------------------------------------------------------------------
\* The decoder thread: audio_thread around decoder_decode_frame.

\* d->queue->serial is read without the lock of the queue.
DecStale ==
    /\ dec = "loop" /\ serial # pkt_serial
    /\ dec' = "get"
    /\ UNCHANGED <<queueVars, ringVars, decVars, stateVars, file, read, cb, af, main, histVars>>

\* d->finished is set at the end of the stream; the variant leaves it to the
\* next flush.
EndOfStreamForgotten == UNCHANGED finished
EndOfStream == finished' = pkt_serial

\* avcodec_receive_frame: the codec may keep frames until it is drained, and
\* at the end it is flushed for what may come.  The frame then goes through the
\* filters: when they fail, the thread ends, though nobody has told it to.
DecReceive ==
    /\ dec = "loop" /\ serial = pkt_serial
    /\ \/ aborted /\ dec' = "exited" /\ UNCHANGED decVars
       \/ /\ ~aborted /\ codec # <<>>
          /\ pkt' = Head(codec) /\ codec' = Tail(codec)
          /\ dec' \in {"write", "failed"}
          /\ UNCHANGED <<pkt_serial, finished, draining>>
       \/ ~aborted /\ ~draining /\ dec' = "get" /\ UNCHANGED decVars
       \/ /\ ~aborted /\ draining /\ codec = <<>>
          /\ EndOfStream
          /\ draining' = FALSE
          /\ dec' = "loop"
          /\ UNCHANGED <<pkt_serial, codec, pkt>>
    /\ UNCHANGED <<queueVars, ringVars, stateVars, file, read, cb, af, main, histVars>>

\* packet_queue_get, blocking
DecGet ==
    /\ dec = "get"
    /\ IF aborted THEN dec' = "exited" /\ UNCHANGED <<packets, pkt, pkt_serial>>
       ELSE IF packets = <<>> THEN dec' = "await_packet" /\ UNCHANGED <<packets, pkt,
                           pkt_serial>>
       ELSE /\ pkt' = Head(packets) /\ packets' = Tail(packets)
            /\ pkt_serial' = pkt'.serial
            /\ dec' = "got"
    /\ UNCHANGED <<aborted, serial, ringVars, finished, codec, draining, stateVars, file, read,
                   cb, af, main, histVars>>

\* A packet of an old serial is dropped.
DecGot ==
    /\ dec = "got"
    /\ dec' = IF serial = pkt_serial THEN "feed" ELSE "get"
    /\ UNCHANGED <<queueVars, ringVars, decVars, stateVars, file, read, cb, af, main, histVars>>

\* avcodec_flush_buffers at a flush packet, and a variant without it.
KeepBuffers == UNCHANGED <<codec, draining>>
FlushBuffers == codec' = <<>> /\ draining' = FALSE

DecFeed ==
    /\ dec = "feed"
    /\ \/ pkt.kind = "flush" /\ FlushBuffers /\ finished' = 0
       \/ pkt.kind = "null" /\ draining' = TRUE /\ UNCHANGED <<codec, finished>>
       \/ pkt.kind = "data" /\ codec' = Append(codec, pkt) /\ UNCHANGED <<draining, finished>>
    /\ dec' = "loop" /\ pkt' = Packet("none", 0, 0)
    /\ UNCHANGED <<queueVars, ringVars, pkt_serial, stateVars, file, read, cb, af, main,
                   histVars>>

\* No slot is free.
NoSlot == size >= MaxFrames

\* frame_queue_peek_writable tests abort_request twice, the second time
\* without a lock.
DecWrite ==
    /\ dec = "write"
    /\ dec' = IF NoSlot /\ ~aborted THEN "await_slot" ELSE "slot"
    /\ UNCHANGED <<queueVars, ringVars, decVars, stateVars, file, read, cb, af, main, histVars>>

\* The slot is filled, with the serial of the decoder, and frame_queue_push
\* then counts it: nobody else looks at the slot before, nor moves windex.  The
\* filters may fail once more, when they are asked for the rest of the frame.
DecPush ==
    /\ dec = "slot"
    /\ pkt' = Packet("none", 0, 0)
    /\ IF aborted THEN dec' = "exited" /\ UNCHANGED <<ring, windex, size, cb>>
       ELSE /\ ring' = [ring EXCEPT ![windex] =
                           [epoch |-> pkt.epoch, num |-> pkt.num, serial |-> pkt_serial]]
            /\ windex' = (windex + 1) % MaxFrames
            /\ size' = size + 1
            /\ dec' \in {"loop", "failed"}
            /\ cb' = IF cb = "await_frame" THEN "peek" ELSE cb
    /\ UNCHANGED <<queueVars, rindex, rindex_shown, pkt_serial, finished, codec, draining,
                   stateVars, file, read, af, main, histVars>>

DecoderStep ==
    \/ DecStale \/ DecReceive \/ DecGet \/ DecGot \/ DecFeed \/ DecWrite \/ DecPush

-----------------------------------------------------------------------------
\* The callback of the audio device: audio_decode_frame.

\* The device asks for samples, until SDL_CloseAudioDevice shuts it down.
CallbackStarts ==
    /\ cb = "idle" /\ main # "device" /\ cb' = "peek"
    /\ UNCHANGED <<queueVars, ringVars, decVars, stateVars, file, read, dec, af, main,
                   histVars>>

\* frame_queue_peek_readable
CallbackPeek ==
    /\ cb = "peek"
    /\ cb' = IF size - rindex_shown <= 0 /\ ~aborted THEN "await_frame" ELSE "peeked"
    /\ UNCHANGED <<queueVars, ringVars, decVars, stateVars, file, read, dec, af, main,
                   histVars>>

\* keep_last: the first frame stays in the ring while it is in use.  The
\* variant lets it go.
KeepsNone == FALSE
KeepsLast == rindex_shown = 0

\* frame_queue_next comes before the frame is used: the frame it gives back is
\* the one before.  Nobody else moves rindex and rindex_shown.
CallbackNext ==
    /\ cb = "peeked"
    /\ IF aborted THEN cb' = "idle" /\ UNCHANGED <<ring, rindex, size, rindex_shown, af,
                                                   inUse, dec>>
       ELSE /\ af' = (rindex + rindex_shown) % MaxFrames
            /\ inUse' = ring[af']
            /\ \/ /\ KeepsLast
                  /\ rindex_shown' = 1 /\ cb' = "test"
                  /\ UNCHANGED <<ring, rindex, size, dec>>
               \/ /\ ~KeepsLast
                  /\ ring' = [ring EXCEPT ![rindex] = NoFrame]
                  /\ rindex' = (rindex + 1) % MaxFrames
                  /\ size' = size - 1
                  /\ SignalFrames("test")
                  /\ UNCHANGED rindex_shown
    /\ UNCHANGED <<queueVars, windex, decVars, stateVars, file, read, main, epoch, played,
                   switched, asked>>

\* A frame of an old serial is not played.
CallbackTest ==
    /\ cb = "test"
    /\ IF ring[af].serial # serial
       THEN cb' = "peek" /\ af' = 0 /\ inUse' = NoFrame /\ UNCHANGED played
       ELSE cb' = "play" /\ played' = ring[af] /\ UNCHANGED <<af, inUse>>
    /\ UNCHANGED <<queueVars, ringVars, decVars, stateVars, file, read, dec, main, epoch,
                   switched, asked>>

CallbackReturns ==
    /\ cb = "play" /\ cb' = "idle"
    /\ af' = 0 /\ inUse' = NoFrame
    /\ UNCHANGED <<queueVars, ringVars, decVars, stateVars, file, read, dec, main, epoch,
                   played,
                   switched, asked>>

CallbackStep ==
    \/ CallbackStarts \/ CallbackPeek \/ CallbackNext \/ CallbackTest
    \/ CallbackReturns

-----------------------------------------------------------------------------
\* The main thread.

\* stream_seek; a request that is not yet served is not changed.
UserSeeks ==
    /\ main = "idle" /\ asked.seeks < MaxSeeks
    /\ asked' = [asked EXCEPT !.seeks = @ + 1]
    /\ seek_req' = TRUE
    /\ UNCHANGED <<queueVars, ringVars, decVars, audio, eof, abort_request,
                   file, read, dec, cb, af, main, epoch, inUse, played, switched>>

\* stream_cycle_channel closes the stream and opens another one.
UserCycles ==
    /\ main = "idle" /\ asked.cycles < MaxCycles
    /\ asked' = [asked EXCEPT !.cycles = @ + 1]
    /\ switched' = TRUE
    /\ main' = IF audio THEN "abort" ELSE "open"
    /\ UNCHANGED <<queueVars, ringVars, decVars, stateVars, file, read, dec, cb, af, epoch,
                   inUse, played>>

\* stream_close: at the user's request, or when the reading thread has ended.
Quit ==
    /\ main = "idle"
    /\ abort_request' = TRUE
    /\ main' = "wait_read"
    /\ UNCHANGED <<queueVars, ringVars, decVars, audio, eof, seek_req,
                   file, read, dec, cb, af, histVars>>
QuitEvent == read = "ended" /\ Quit

WaitRead ==
    /\ main = "wait_read" /\ read = "ended"
    /\ main' = IF audio THEN "abort" ELSE "gone"
    /\ UNCHANGED <<queueVars, ringVars, decVars, stateVars, file, read, dec, cb, af, histVars>>

\* decoder_abort: packet_queue_abort, frame_queue_signal, join, packet_queue_flush.
CloseAbort ==
    /\ main = "abort" /\ main' = "signal"
    /\ aborted' = TRUE
    /\ SignalPackets
    /\ UNCHANGED <<packets, serial, ringVars, decVars, stateVars, file, read, cb, af, histVars>>

\* frame_queue_signal, and a variant of decoder_abort without it.
NoSignal == UNCHANGED <<dec, cb>>
SignalSleeper == SignalFrames(cb)

CloseSignal ==
    /\ main = "signal" /\ main' = "join"
    /\ SignalSleeper
    /\ UNCHANGED <<queueVars, ringVars, decVars, stateVars, file, read, af, histVars>>

CloseJoin ==
    /\ main = "join" /\ dec \in {"exited", "failed"}
    /\ dec' = "off" /\ packets' = <<>>
    /\ main' = "device"
    /\ UNCHANGED <<aborted, serial, ringVars, decVars, stateVars, file, read, cb, af, histVars>>

\* SDL_CloseAudioDevice returns when no callback runs; then the stream is gone.
CloseStream ==
    /\ main = "device" /\ cb \in {"idle", "off"}
    /\ cb' = "off" /\ audio' = FALSE
    /\ main' = IF abort_request THEN "gone" ELSE "open"
    /\ UNCHANGED <<queueVars, ringVars, decVars, eof, seek_req, abort_request, file, read,
                   dec, af, histVars>>

\* stream_component_open: eof is reset, then the audio device is opened, and
\* only then is the stream there for the reading thread.  The codec or the
\* device may fail to open.
OpenCodec ==
    /\ main = "open"
    /\ \/ eof' = FALSE /\ main' = "opened"
       \/ UNCHANGED eof /\ main' = "idle"
    /\ UNCHANGED <<queueVars, ringVars, decVars, audio, seek_req, abort_request, file, read,
                   dec, cb, af, histVars>>

\* decoder_init
OpenStream ==
    /\ main = "opened"
    /\ \/ /\ audio' = TRUE /\ main' = "start"
          /\ pkt_serial' = -1 /\ finished' = 0 /\ codec' = <<>> /\ draining' = FALSE
       \/ main' = "idle" /\ UNCHANGED <<audio, pkt_serial, finished, codec, draining>>
    /\ UNCHANGED <<queueVars, ringVars, pkt, eof, seek_req, abort_request,
                   file, read, dec, cb, af, histVars>>

\* decoder_start: packet_queue_start, then the thread; SDL_PauseAudioDevice
\* lets the callback run.  When no thread can be created, the stream stays there
\* without a decoder and without callbacks.
OpenStart ==
    /\ main = "start" /\ main' = "idle"
    /\ aborted' = FALSE
    /\ serial' = serial + 1
    /\ packets' = Append(packets, FlushPacket(serial'))
    /\ \/ dec' = "loop" /\ cb' = "idle"
       \/ dec' = "failed" /\ UNCHANGED cb
    /\ UNCHANGED <<ringVars, decVars, stateVars, file, read, af, histVars>>

MainStep ==
    \/ WaitRead \/ CloseAbort \/ CloseSignal \/ CloseJoin \/ CloseStream
    \/ OpenCodec \/ OpenStream \/ OpenStart

\* SDL_CondWait may return without a signal.
SpuriousWakeup ==
    /\ \/ dec = "await_packet" /\ dec' = "get" /\ UNCHANGED cb
       \/ dec = "await_slot" /\ dec' = "write" /\ UNCHANGED cb
       \/ cb = "await_frame" /\ cb' = "peek" /\ UNCHANGED dec
    /\ UNCHANGED <<queueVars, ringVars, decVars, stateVars, file, read, af, main, histVars>>

Terminated == main = "gone" /\ UNCHANGED vars

Next ==
    \/ ReadStep \/ DecoderStep \/ CallbackStep \/ MainStep
    \/ UserSeeks \/ UserCycles \/ Quit \/ SpuriousWakeup \/ Terminated

\* Every thread runs, the device goes on asking for samples, and the main
\* thread handles the event of the reading thread.  The user need do nothing.
Fairness ==
    /\ WF_vars(ReadStep) /\ WF_vars(DecoderStep) /\ WF_vars(CallbackStep)
    /\ WF_vars(MainStep) /\ WF_vars(QuitEvent)
Spec == Init /\ [][Next]_vars
FairSpec == Spec /\ Fairness

-----------------------------------------------------------------------------
Frame == [epoch : Nat, num : 0..NPackets, serial : Nat]

\* The types of the variables.
TypeOK ==
    /\ packets \in Seq([kind : {"flush", "null", "data"}, num : 0..NPackets, epoch : Nat,
                        serial : Nat \ {0}])
    /\ aborted \in BOOLEAN /\ serial \in Nat \ {0}
    /\ ring \in [Slots -> Frame] /\ rindex \in Slots /\ windex \in Slots
    /\ size \in 0..MaxFrames /\ rindex_shown \in {0, 1} /\ rindex_shown <= size
    /\ windex = (rindex + size) % MaxFrames
    /\ pkt_serial \in -1..serial /\ finished \in 0..serial
    /\ audio \in BOOLEAN /\ eof \in BOOLEAN /\ seek_req \in BOOLEAN /\ abort_request \in BOOLEAN
    /\ file \in 1..(NPackets + 1) /\ af \in Slots

\* A frame that is played belongs to the last seek that was carried out, and
\* frames are played in the order of the file, none twice: whatever the decoder
\* and the ring still held of before the seek was thrown away.  (A stream that
\* is being closed may play one more frame: its queue no longer takes a flush.)
OnlyCurrentFramesPlayed ==
    [][played' # played =>
          /\ ~aborted => played'.epoch = epoch
          /\ played.epoch = epoch /\ ~switched => played'.num > played.num]_vars

\* The frame the callback has taken is still in the ring while it is used,
\* though frame_queue_next was called before and the decoder goes on writing.
FrameInUseKept == cb \in {"test", "play"} => ring[af] = inUse

\* The playback is found to be over only when every packet that was read since
\* the last seek has been decoded and taken by the callback; a switch of the
\* stream is another matter.
NothingPendingAtEnd ==
    read = "done" /\ ~switched =>
        /\ \A i \in 1..Len(packets) : packets[i].kind # "data"
        /\ codec = <<>> /\ dec \notin {"write", "await_slot", "slot"}
        /\ size = rindex_shown

\* Closing a stream, to switch it or to quit, comes to its end: the decoder and
\* the callback wake up wherever they sleep.
ClosingEnds == main \notin {"idle", "gone"} ~> main \in {"idle", "gone"}

\* With -autoexit ffplay leaves at the end of the stream, after the
\* seeks of the user, unless the stream is switched or the decoder thread ends
\* with an error: nobody tells the reading thread, which waits for the end of
\* the stream for ever.
PlaybackEnds == <>(main = "gone" \/ switched \/ dec = "failed")

\* "-autoexit: Exit when video is done playing" (doc/ffplay.texi), and that
\* means at the end of the file, switched stream or not, if it could be opened
\* and its decoder met no error.
Autoexit == <>(main = "gone" \/ dec = "failed") \/ <>[]~audio
=============================================================================
