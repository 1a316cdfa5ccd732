----------------------------- MODULE FifoMuxer -----------------------------
(***************************************************************************)
(* libavformat/fifo.c: the fifo pseudo-muxer.  The user's thread puts the  *)
(* packets into a message queue; a consumer thread writes them to the      *)
(* actual muxer, opens it again after errors, and drops packets when the   *)
(* queue overflows or the output is down, as the options say.              *)
(*                                                                         *)
(* The queue is the channel that ThreadMessageQueue implements: a send or  *)
(* a receive is one atomic step, enabled when it would not block.  The     *)
(* actual muxer and its output are external: every call of it may fail, at *)
(* most MaxErrors times in all.  Packets are numbered in the order of the  *)
(* calls; the number of a packet is its timestamp, and all have one.       *)
(***************************************************************************)
EXTENDS Integers, Sequences

CONSTANTS
    Options,              \* the sets of options the muxer is used with
    MaxSend,              \* bound: calls of fifo_write_packet
    MaxErrors             \* bound: errors of the actual muxer

ASSUME OptionsAssumption ==
    \A o \in Options :
        /\ o.queue_size \in Nat \ {0}
        /\ {o.drop_pkts_on_overflow, o.restart_with_keyframe, o.attempt_recovery,
            o.recover_any_error, o.recovery_wait_streamtime, o.flushes,
            o.unknown_option} \subseteq BOOLEAN
        /\ o.max_recovery_attempts \in Nat /\ o.recovery_wait_time \in Nat
        /\ o.errors \subseteq {"temporary", "again", "permanent", "exit"}
        /\ o.recovery_wait_streamtime => o.drop_pkts_on_overflow   \* checked by fifo_init
ASSUME BoundsAssumption == MaxSend \in Nat /\ MaxErrors \in Nat

VARIABLES
    options,
    upc,             \* where the user's thread is
    sending,         \* the message it is sending
    sent,            \* the number of packets it has written
    queue, err_send, err_recv,
    overflow_flag,
    cpc,             \* where the consumer thread is
    msg, err,        \* its message, and the error it recovers from
    header_written, recovery_nr, last_recovery_ts, drop_until_keyframe,
    out,             \* the actual muxer: "closed", or "open" between header and trailer
    restarted,       \* it was closed after its last packet
    written,         \* the number of packets it has written
    last,            \* the last of them
    live,            \* the packets that hold a reference in a message
    errors           \* the number of its errors

user == <<upc, sending, sent>>
channel == <<queue, err_send, err_recv>>
thread == <<cpc, msg, err, header_written, recovery_nr, last_recovery_ts,
            drop_until_keyframe>>
muxer == <<out, restarted, written, last, live, errors>>
vars == <<options, user, channel, overflow_flag, thread, muxer>>

queue_size == options.queue_size
drop_pkts_on_overflow == options.drop_pkts_on_overflow
restart_with_keyframe == options.restart_with_keyframe
attempt_recovery == options.attempt_recovery
max_recovery_attempts == options.max_recovery_attempts
recover_any_error == options.recover_any_error
recovery_wait_streamtime == options.recovery_wait_streamtime
recovery_wait_time == options.recovery_wait_time  \* in packets, of the stream time
Flushes == options.flushes              \* the user flushes the muxer
UnknownOption == options.unknown_option \* format_opts holds one the muxer does not know
Errors == options.errors                \* the errors of the actual muxer

Message(type, n, key) == [type |-> type, n |-> n, key |-> key, rescaled |-> FALSE]
Header == Message("header", 0, FALSE)
NoPts == 0 - 1

Init ==
    /\ options \in Options
    /\ upc = "init" /\ sending = Header /\ sent = 0
    /\ queue = <<>> /\ err_send = "none" /\ err_recv = "none"
    /\ overflow_flag = FALSE
    /\ cpc = "none" /\ msg = Header /\ err = "none"
    /\ header_written = FALSE /\ recovery_nr = 0 /\ last_recovery_ts = NoPts
    /\ drop_until_keyframe = FALSE
    /\ out = "closed" /\ restarted = FALSE /\ written = 0 /\ last = 0
    /\ live = {} /\ errors = 0

-----------------------------------------------------------------------------
(* The user's thread                                                       *)

\* fifo_write_header starts the consumer thread, which writes the header, or fails
\* to do so.
WriteHeader ==
    /\ upc = "init"
    /\ \/ upc' = "open" /\ cpc' = "dispatch"
       \/ upc' = "failed" /\ UNCHANGED cpc
    /\ UNCHANGED <<options, sending, sent, channel, overflow_flag, msg, err, header_written,
                   recovery_nr, last_recovery_ts, drop_until_keyframe,
                   muxer>>

\* fifo_write_packet is called with a packet, which it references, or with none to
\* flush.
WritePacket ==
    /\ upc = "open" /\ sent < MaxSend
    /\ upc' = "send"
    /\ \/ \E key \in BOOLEAN :
             /\ sending' = Message("packet", sent + 1, key)
             /\ sent' = sent + 1
             /\ live' = live \cup {sent + 1}
       \/ /\ Flushes
          /\ sending' = Message("flush", 0, FALSE)
          /\ UNCHANGED <<sent, live>>
    /\ UNCHANGED <<options, channel, overflow_flag, thread, out, restarted, written, last, errors>>

Full == Len(queue) >= queue_size

\* av_thread_message_queue_send.  It blocks while the queue is full, or fails.
Send ==
    /\ upc = "send"
    /\ \/ /\ err_send = "none" /\ ~Full
          /\ queue' = Append(queue, sending)
          /\ upc' = "open" /\ sending' = Header
          /\ UNCHANGED live
       \/ /\ err_send = "none" /\ Full /\ drop_pkts_on_overflow
          /\ upc' = "overflow"
          /\ UNCHANGED <<queue, live, sending>>
       \/ /\ err_send # "none"
          /\ live' = live \ {sending.n}
          /\ upc' = "open" /\ sending' = Header
          /\ UNCHANGED queue
    /\ UNCHANGED <<options, sent, err_send, err_recv, overflow_flag, thread, out, restarted,
                   written, last, errors>>

\* "Queue is full, set fifo->overflow_flag to 1", and drop the packet.
SetOverflow ==
    /\ upc = "overflow"
    /\ overflow_flag' = TRUE
    /\ live' = live \ {sending.n}
    /\ upc' = "open" /\ sending' = Header
    /\ UNCHANGED <<options, sent, channel, thread, out, restarted, written, last, errors>>

\* The variant forgets to end the input.
EndOfInputNone == "none"
EndOfInput == "eof"

\* fifo_write_trailer lets the consumer finish what is queued and joins it.
WriteTrailer ==
    /\ upc = "open"
    /\ err_recv' = EndOfInput
    /\ upc' = "join"
    /\ UNCHANGED <<options, sending, sent, queue, err_send, overflow_flag, thread, muxer>>

Join ==
    /\ upc = "join" /\ cpc = "done"
    /\ upc' = "joined"
    /\ UNCHANGED <<options, sending, sent, channel, overflow_flag, thread, muxer>>

\* fifo_deinit frees the queue, with the messages in it.  The variant frees one.
FirstPacket(q) == {q[i].n : i \in DOMAIN q \cap {1}} \ {0}
Packets(q) == {q[i].n : i \in DOMAIN q} \ {0}
Deinit ==
    /\ upc \in {"joined", "failed"}
    /\ upc' = "closed"
    /\ live' = live \ Packets(queue)
    /\ queue' = <<>>
    /\ UNCHANGED <<options, sending, sent, err_send, err_recv, overflow_flag, thread, out, restarted,
                   written, last, errors>>

-----------------------------------------------------------------------------
(* The consumer thread                                                     *)

\* The packet of the message is unreferenced.
FreeMsg == live' = live \ {msg.n}

\* An error of the actual muxer.  "again" is AVERROR(EAGAIN), an error like any other
\* temporary one for the muxer.
Fails(ret) == ret \in Errors /\ errors < MaxErrors /\ errors' = errors + 1

\* fifo_thread_write_packet, and the other messages.  A packet that fails to be
\* written stays in the message, with the timestamps of the output's time base.
WriteMsg(dropping, ret) ==
    \/ /\ msg.type # "packet"
       /\ \/ ret = "ok" /\ UNCHANGED errors
          \/ msg.type = "flush" /\ Fails(ret)
       /\ drop_until_keyframe' = dropping
       /\ UNCHANGED <<msg, written, last, live>>
    \/ /\ msg.type = "packet" /\ dropping /\ ~msg.key
       /\ ret = "ok"
       /\ FreeMsg
       /\ drop_until_keyframe' = dropping
       /\ UNCHANGED <<msg, written, last, errors>>
    \/ /\ msg.type = "packet" /\ (dropping => msg.key)
       /\ drop_until_keyframe' = FALSE
       /\ msg' = [msg EXCEPT !.rescaled = TRUE]
       /\ \/ /\ ret = "ok" /\ FreeMsg
             /\ written' = written + 1 /\ last' = msg.n
             /\ UNCHANGED errors
          \/ Fails(ret) /\ UNCHANGED <<live, written, last>>

\* fifo_thread_write_header fails: the output cannot be opened, or its header not be
\* written; for the second an unknown option makes the error a permanent one.
HeaderFails(ret) ==
    \/ Fails(ret)
    \/ UnknownOption /\ ret = "permanent" /\ \E e \in Errors : Fails(e)

\* fifo_thread_dispatch_message: the header is written first if it has to be.  An
\* unknown option is a permanent error although the header was written.
Dispatch(dropping, ret) ==
    \/ /\ ~header_written /\ HeaderFails(ret)
       /\ drop_until_keyframe' = dropping
       /\ UNCHANGED <<header_written, out, msg, restarted, written, last, live>>
    \/ /\ ~header_written /\ UnknownOption /\ ret = "permanent"
       /\ header_written' = TRUE /\ out' = "open"
       /\ drop_until_keyframe' = dropping
       /\ UNCHANGED <<msg, restarted, written, last, live, errors>>
    \/ /\ header_written \/ ~UnknownOption
       /\ header_written' = TRUE /\ out' = "open"
       /\ WriteMsg(dropping, ret)
       /\ restarted' = (restarted /\ written' = written)

\* The first dispatch of a message.
DispatchMsg ==
    /\ cpc = "dispatch"
    /\ \E ret \in Errors \cup {"ok", "permanent"} :
          /\ Dispatch(drop_until_keyframe, ret)
          /\ err' = ret
          /\ cpc' = IF ret = "ok" THEN "flag" ELSE "recover"
    /\ UNCHANGED <<options, user, channel, overflow_flag, recovery_nr, last_recovery_ts>>

\* is_recoverable.  An error of "none" stands for a message that came while the
\* output is down.
Recoverable(e) == attempt_recovery /\ (IF recover_any_error THEN e # "exit"
                                       ELSE e \notin {"permanent", "exit"})

\* The consumer gives up: the senders get the error.  The variant does not tell them.
GiveUpSilently(e) == cpc' = "trailer" /\ UNCHANGED err_send
GiveUp(e) == cpc' = "trailer" /\ err_send' = e

\* An error that is not recovered from: the message is freed, and the caller gets the
\* error.  AVERROR(EAGAIN), with no recovery wanted, is what it takes for "try again":
\* with dropping it goes on with the next message, and without it does try again,
\* which finds the same error and options, and so on for ever.
Unrecoverable ==
    /\ cpc = "recover" /\ ~Recoverable(err)
    /\ FreeMsg
    /\ \/ err # "again" /\ GiveUp(err)
       \/ /\ err = "again" /\ UNCHANGED err_send
          /\ cpc' = IF drop_pkts_on_overflow THEN "flag" ELSE "spin"
    /\ UNCHANGED <<options, user, queue, err_recv, overflow_flag, msg, err, header_written,
                   recovery_nr, last_recovery_ts, drop_until_keyframe,
                   out, restarted, written, last, errors>>

\* fifo_thread_attempt_recovery closes the output first.  The variant keeps
\* header_written.
ClosedKeepsHeader == header_written
Closed == FALSE

\* An error of the trailer only goes to the user.
CloseOutput ==
    /\ cpc = "recover" /\ Recoverable(err)
    /\ out' = IF header_written THEN "closed" ELSE out
    /\ restarted' = (restarted \/ header_written)
    /\ header_written' = Closed
    /\ cpc' = "attempt"
    /\ UNCHANGED <<options, user, channel, overflow_flag, msg, err, recovery_nr,
                   last_recovery_ts, drop_until_keyframe, written, last, live, errors>>

\* Whether the time to the next attempt has passed.  Of the real time any amount
\* may have passed.  The stream time is only looked at if there is no timestamp of
\* the last failure.
Waited == IF recovery_nr = 0 THEN {TRUE}
          ELSE IF recovery_wait_streamtime
               THEN {last_recovery_ts = NoPts => msg.n - last_recovery_ts >= recovery_wait_time}
               ELSE BOOLEAN

\* No attempt yet: without dropping the consumer tries again later; with it the
\* message is dropped.
DropMsg ==
    /\ cpc = "attempt" /\ FALSE \in Waited /\ drop_pkts_on_overflow
    /\ FreeMsg
    /\ cpc' = "flag"
    /\ UNCHANGED <<options, user, channel, overflow_flag, msg, err, header_written, recovery_nr,
                   last_recovery_ts, drop_until_keyframe, out, restarted,
                   written, last, errors>>

\* The variant allows one attempt more.
LastAttemptLate == max_recovery_attempts # 0 /\ recovery_nr + 1 > max_recovery_attempts
LastAttempt == max_recovery_attempts # 0 /\ recovery_nr + 1 >= max_recovery_attempts

\* Where the consumer goes on after a successful recovery.  The variant takes the
\* message once more.
RecoveredAgain == "dispatch"
Recovered == "flag"

\* Packets before the next keyframe are dropped if packets may be dropped at all.
\* The variant drops them in any case.
DropsToKeyframeAlways == drop_until_keyframe \/ restart_with_keyframe
DropsToKeyframe == drop_until_keyframe \/ (restart_with_keyframe /\ drop_pkts_on_overflow)

\* The first attempt of a recovery forgets the last failure.
LastFailure == IF recovery_nr = 0 THEN NoPts ELSE last_recovery_ts

\* An attempt: the message is dispatched again.  After the last attempt allowed the
\* error is final and the message is not freed; but AVERROR(EAGAIN) is what the caller
\* takes for another attempt.
Attempt ==
    /\ cpc = "attempt" /\ TRUE \in Waited
    /\ \E ret \in Errors \cup {"ok", "permanent"} :
          /\ Dispatch(DropsToKeyframe, ret)
          /\ CASE ret = "ok" ->
                    /\ recovery_nr' = 0 /\ cpc' = Recovered
                    /\ last_recovery_ts' = LastFailure /\ UNCHANGED err_send
               [] ret # "ok" /\ ~Recoverable(ret) ->
                    /\ recovery_nr' = recovery_nr + 1 /\ err' = ret
                    /\ cpc' = "giveUp"
                    /\ last_recovery_ts' = LastFailure /\ UNCHANGED err_send
               [] ret # "ok" /\ Recoverable(ret) ->
                    /\ recovery_nr' = recovery_nr + 1
                    /\ last_recovery_ts' = msg.n
                    /\ IF LastAttempt /\ ret # "again" THEN GiveUp(ret)
                       ELSE cpc' = "failed" /\ UNCHANGED err_send
          /\ (ret = "ok" \/ Recoverable(ret)) => UNCHANGED err
    /\ UNCHANGED <<options, user, queue, err_recv, overflow_flag>>

\* An attempt failed for good: the message is freed.
FailAttempt ==
    /\ cpc = "giveUp"
    /\ FreeMsg
    /\ GiveUp(err)
    /\ UNCHANGED <<options, user, queue, err_recv, overflow_flag, msg, err, header_written,
                   recovery_nr, last_recovery_ts, drop_until_keyframe,
                   out, restarted, written, last, errors>>

\* An attempt failed: drop the message, or close what was opened and try again.
RetryAttempt ==
    /\ cpc = "failed"
    /\ IF drop_pkts_on_overflow THEN cpc' = "flag" /\ FreeMsg
       ELSE cpc' = "recover" /\ UNCHANGED live
    /\ UNCHANGED <<options, user, channel, overflow_flag, msg, err, header_written, recovery_nr,
                   last_recovery_ts, drop_until_keyframe, out, restarted,
                   written, last, errors>>

\* "Here in consumer thread, the flag is checked and if it is set, the queue is
\* flushed and flag cleared."
CheckOverflow ==
    /\ cpc = "flag"
    /\ overflow_flag' = FALSE
    /\ IF overflow_flag
       THEN /\ queue' = <<>>
            /\ live' = live \ Packets(queue)
            /\ drop_until_keyframe' = (drop_until_keyframe \/ restart_with_keyframe)
       ELSE UNCHANGED <<queue, live, drop_until_keyframe>>
    /\ cpc' = "recv" /\ msg' = Header /\ err' = "none"
    /\ UNCHANGED <<options, user, err_send, err_recv, header_written, recovery_nr,
                   last_recovery_ts, out, restarted, written, last, errors>>

\* av_thread_message_queue_recv gets what is queued first, the error then.
Receive ==
    /\ cpc = "recv"
    /\ \/ /\ queue # <<>>
          /\ msg' = Head(queue) /\ queue' = Tail(queue)
          /\ err' = "none"
          /\ cpc' = IF recovery_nr = 0 THEN "dispatch" ELSE "recover"
          /\ UNCHANGED err_send
       \/ /\ queue = <<>> /\ err_recv # "none"
          /\ GiveUp(err_recv)
          /\ UNCHANGED <<queue, msg, err>>
    /\ UNCHANGED <<options, user, err_recv, overflow_flag, header_written, recovery_nr,
                   last_recovery_ts, drop_until_keyframe, muxer>>

\* fifo_thread_write_trailer, at the end of the thread: without a header there is
\* nothing to do.
Trailer ==
    /\ cpc = "trailer"
    /\ out' = IF header_written THEN "closed" ELSE out
    /\ cpc' = "done"
    /\ UNCHANGED <<options, user, channel, overflow_flag, msg, err, header_written, recovery_nr,
                   last_recovery_ts, drop_until_keyframe, restarted, written, last, live, errors>>

Consumer ==
    \/ DispatchMsg \/ Unrecoverable \/ CloseOutput \/ DropMsg \/ Attempt \/ FailAttempt
    \/ RetryAttempt \/ CheckOverflow \/ Receive \/ Trailer

\* What the user's thread does inside its calls.
InCall == Send \/ SetOverflow \/ Join

Next ==
    \/ WriteHeader \/ WritePacket \/ WriteTrailer \/ Deinit
    \/ InCall
    \/ Consumer

\* Both threads are scheduled, and waiting ends: in real time without dropping, with
\* the next packets with it.
Fairness == WF_vars(Consumer) /\ WF_vars(InCall)

Spec == Init /\ [][Next]_vars
FairSpec == Spec /\ Fairness

-----------------------------------------------------------------------------
\* The types of the variables.
TypeOK ==
    /\ options \in Options
    /\ upc \in {"init", "open", "send", "overflow", "join", "joined", "failed", "closed"}
    /\ cpc \in {"none", "dispatch", "recover", "attempt", "failed", "giveUp", "spin", "flag", "recv",
                "trailer", "done"}
    /\ sent \in 0..MaxSend /\ Len(queue) <= queue_size
    /\ {overflow_flag, header_written, drop_until_keyframe, restarted} \subseteq BOOLEAN
    /\ err_send \in Errors \cup {"none", "eof", "permanent"} /\ err_recv \in {"none", "eof"}
    /\ err \in Errors \cup {"none", "ok", "permanent"}
    /\ recovery_nr \in Nat /\ last_recovery_ts \in NoPts..MaxSend
    /\ out \in {"closed", "open"} /\ errors \in 0..MaxErrors
    /\ written \in 0..sent /\ last \in 0..sent /\ live \subseteq 1..sent

\* The actual muxer gets header, packets and trailer in turn, over any number of
\* restarts: it is never opened twice, written to when closed, or left open.
OutputProtocol ==
    /\ cpc # "done" => (header_written <=> out = "open")
    /\ cpc \in {"attempt", "done"} => out = "closed"

\* The packets that are written are in order, and none is written twice, although
\* messages are dispatched again after errors.
InOrderOnce == [][written' # written => last' > last]_vars

\* Where a packet is that is neither written nor dropped: in the consumer's hands, in
\* the queue, or being sent.
PacketInHand == msg.type = "packet" /\ cpc \in {"dispatch", "recover", "attempt", "failed"}
PacketPending == upc = "send" /\ sending.type = "packet"
OnTheWay(n) ==
    \/ PacketInHand /\ msg.n = n
    \/ \E k \in 1..Len(queue) : queue[k].type = "packet" /\ queue[k].n = n
    \/ PacketPending /\ sending.n = n

\* The packets on their way have growing numbers: the last one written, the one in
\* hand, those in the queue, the one being sent.
Ordered ==
    /\ PacketInHand => last < msg.n
    /\ PacketPending => last < sending.n /\ (PacketInHand => msg.n < sending.n)
    /\ \A k \in 1..Len(queue) : queue[k].type = "packet" =>
          /\ last < queue[k].n
          /\ PacketInHand => msg.n < queue[k].n
          /\ PacketPending => queue[k].n < sending.n
    /\ \A j, k \in 1..Len(queue) :
          (queue[j].type = "packet" /\ queue[k].type = "packet" /\ j < k) =>
              queue[j].n < queue[k].n

\* Without drop_pkts_on_overflow nothing is lost as long as the output has not
\* failed for good, which it also has when the consumer spins: the packets written are the first ones sent, and all others are in
\* hand, queued or being sent, in their order.
KeepsAll ==
    /\ ~drop_pkts_on_overflow /\ err_send = "none" /\ upc # "closed"
    /\ cpc \notin {"giveUp", "spin"}
NothingLost ==
    KeepsAll =>
        /\ written = last
        /\ \A n \in (last + 1) .. sent : OnTheWay(n)
        /\ Ordered

\* "maximum number of successive unsuccessful recovery attempts after which the
\* output fails permanently": neither earlier nor later, unless the actual muxer
\* returns AVERROR(EAGAIN).
AttemptsBounded ==
    "again" \notin Errors =>
        /\ max_recovery_attempts # 0 => recovery_nr <= max_recovery_attempts
        /\ (cpc = "trailer" /\ err_send \notin {"none", "eof"} /\ Recoverable(err_send)) =>
              recovery_nr = max_recovery_attempts

\* The consumer tries again for ever: it cannot do anything else after an
\* AVERROR(EAGAIN) of the actual muxer without recovery and without dropping.
Spins ==
    /\ cpc = "spin" /\ err = "again"
    /\ ~attempt_recovery /\ ~drop_pkts_on_overflow

\* Every call returns: a full queue is emptied, or the error is passed on; unless
\* the consumer spins.
CallsReturn == upc \in {"send", "overflow", "join"} ~> upc \in {"open", "joined"} \/ Spins

-----------------------------------------------------------------------------
\* doc/muxers.texi:2275: "wait for the keyframe after recovering from queue overflow
\* or failure": a packet that follows a gap or a restart is a keyframe.
KeyframeAfterRestart ==
    [][(written' # written /\ restart_with_keyframe) =>
            msg.key \/ (msg.n = last + 1 /\ ~restarted)]_vars

\* libavcodec/packet.h:711: av_packet_rescale_ts takes the timestamps of a packet to
\* be in the source time base: they are rescaled once.
RescaledOnce == [][written' # written => ~msg.rescaled]_vars

\* Whatever fails, every packet is unreferenced by the time the muxer is closed:
\* written, dropped, or freed with the queue.  There is one exception, the packet of
\* the last recovery attempt (fifo.c:346), and it is the only one that leaks.  That
\* attempt may come late if the actual muxer returned AVERROR(EAGAIN) before.
LeaksLastAttemptOnly ==
    upc = "closed" =>
        \/ live = {}
        \/ /\ live = {msg.n} /\ err_send # "none"
           /\ max_recovery_attempts # 0 /\ recovery_nr >= max_recovery_attempts
=============================================================================
