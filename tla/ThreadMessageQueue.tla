------------------------- MODULE ThreadMessageQueue -------------------------
(***************************************************************************)
(* libavutil/threadmessage.c: a bounded queue of fixed-size messages       *)
(* between threads, used by ffmpeg's demuxer threads and the fifo muxer.   *)
(*                                                                         *)
(* Everything between pthread_mutex_lock and pthread_mutex_unlock (or the  *)
(* implicit unlock of pthread_cond_wait) is one atomic action.  A thread   *)
(* that calls pthread_cond_wait falls asleep; a signal only makes it       *)
(* "woken", and it takes the mutex again, re-testing the loop condition,   *)
(* in an action of its own: other threads run in between.                  *)
(***************************************************************************)
EXTENDS Integers, Sequences, FiniteSets

CONSTANTS
    Senders,     \* threads that call av_thread_message_queue_send
    Receivers,   \* threads that call av_thread_message_queue_recv
    NElem,       \* nelem of av_thread_message_queue_alloc
    ErrCodes,    \* the error codes passed to set_err_send and set_err_recv
    NoErr,       \* 0, "no error"
    MaxSend      \* bound: messages queued in one lifetime of the queue

ASSUME NElemAssumption == NElem \in Nat \ {0}
ASSUME MaxSendAssumption == MaxSend \in Nat
ASSUME ThreadsAssumption ==
    /\ IsFiniteSet(Senders) /\ IsFiniteSet(Receivers)
    /\ Senders \cap Receivers = {}
ASSUME ErrAssumption ==
    /\ NoErr \notin ErrCodes
    /\ {"none", "ok", "EAGAIN"} \cap (ErrCodes \cup {NoErr}) = {}

VARIABLES
    mq,          \* *mq, "null" or a "queue"
    fifo,        \* the AVFifoBuffer, as the sequence of its messages
    err_send,
    err_recv,
    free_func,   \* the callback that frees messages, "null" or "set"
    pc,          \* per thread: outside a call, asleep in pthread_cond_wait, woken
    ret,         \* what the last call that returned has returned, and to whom
    sent,        \* history: the messages in the order they entered the fifo
    taken        \* history: the messages in the order they left, and to whom

queueVars == <<mq, fifo, err_send, err_recv, free_func>>
vars == <<mq, fifo, err_send, err_recv, free_func, pc, ret, sent, taken>>

Threads == Senders \cup Receivers
Message == [src : Senders, num : Nat \ {0}]

\* The threads of T asleep on their condition variable, and those already
\* signalled which have not taken the mutex again.
Asleep(T) == {t \in T : pc[t] = "asleep"}
Woken(T)  == {t \in T : pc[t] = "woken"}

-----------------------------------------------------------------------------
\* av_mallocz of a fresh queue, or none.
Init ==
    /\ mq = "null"
    /\ fifo = <<>>
    /\ err_send = NoErr /\ err_recv = NoErr
    /\ free_func = "null"
    /\ pc = [t \in Threads |-> "idle"]
    /\ ret = [to |-> "nobody", code |-> "none"]
    /\ sent = <<>> /\ taken = <<>>

\* av_thread_message_queue_alloc.  A failed allocation, and nelem * elsize
\* beyond INT_MAX, undo everything and leave *mq as it was.
Alloc ==
    /\ mq = "null"
    /\ mq' = "queue"
    /\ fifo' = <<>>
    /\ err_send' = NoErr /\ err_recv' = NoErr
    /\ free_func' = "null"
    /\ sent' = <<>> /\ taken' = <<>>
    /\ ret' = [to |-> "nobody", code |-> "none"]
    /\ UNCHANGED pc

\* av_thread_message_queue_set_free_func: takes no lock, so its callers set it
\* before they start a thread.
SetFreeFunc ==
    /\ mq = "queue" /\ sent = <<>> /\ \A t \in Threads : pc[t] = "idle"
    /\ free_func' = "set"
    /\ UNCHANGED <<mq, fifo, err_send, err_recv, pc, ret, sent, taken>>

-----------------------------------------------------------------------------
\* pthread_cond_signal wakes one sleeper of T if there is one; the thread t
\* that runs returns from its call in the same action.
Signal(t, T) ==
    IF Asleep(T) = {}
    THEN pc' = [pc EXCEPT ![t] = "idle"]
    ELSE \E u \in Asleep(T) : pc' = [pc EXCEPT ![t] = "idle", ![u] = "woken"]

\* send's "signal one receiver", and a variant that only signals when the fifo
\* was empty.
SignalReceiverIfEmpty(s) ==
    IF fifo = <<>> THEN Signal(s, Receivers) ELSE pc' = [pc EXCEPT ![s] = "idle"]
SignalReceiver(s) == Signal(s, Receivers)

\* recv's "signal one sender", and a variant that only signals when the fifo
\* was full.
SignalSenderIfFull(r) ==
    IF Len(fifo) = NElem THEN Signal(r, Senders) ELSE pc' = [pc EXCEPT ![r] = "idle"]
SignalSender(r) == Signal(r, Senders)

\* pthread_cond_broadcast, and a variant that is a pthread_cond_signal.
BroadcastToOne(T) ==
    IF Asleep(T) = {} THEN UNCHANGED pc
    ELSE \E u \in Asleep(T) : pc' = [pc EXCEPT ![u] = "woken"]
Broadcast(T) == pc' = [t \in Threads |-> IF t \in Asleep(T) THEN "woken" ELSE pc[t]]

\* av_fifo_space(fifo) < elsize, and an off-by-one variant.
NoSpaceOffByOne == Len(fifo) > NElem
NoSpace == Len(fifo) >= NElem

\* recv returns the error only once the fifo is empty; the variant returns it
\* as soon as it is set.
RecvEndsEarly == err_recv # NoErr
RecvEnds == err_recv # NoErr /\ fifo = <<>>

Return(t, code) == ret' = [to |-> t, code |-> code]

\* av_thread_message_queue_send_locked, from the loop test on: a thread comes
\* here at its call and each time pthread_cond_wait returns.
SendLocked(s, nonblock) ==
    \/ /\ err_send = NoErr /\ NoSpace
       /\ IF nonblock
          THEN Return(s, "EAGAIN") /\ pc' = [pc EXCEPT ![s] = "idle"]
          ELSE pc' = [pc EXCEPT ![s] = "asleep"] /\ UNCHANGED ret
       /\ UNCHANGED <<queueVars, sent, taken>>
    \/ /\ err_send # NoErr
       /\ Return(s, err_send)
       /\ pc' = [pc EXCEPT ![s] = "idle"]
       /\ UNCHANGED <<queueVars, sent, taken>>
    \/ /\ err_send = NoErr /\ ~NoSpace
       /\ LET msg == [src |-> s, num |-> Len(sent) + 1] IN
          /\ fifo' = Append(fifo, msg)
          /\ sent' = Append(sent, msg)
       /\ SignalReceiver(s)
       /\ Return(s, "ok")
       /\ UNCHANGED <<mq, err_send, err_recv, free_func, taken>>

\* av_thread_message_queue_recv_locked
RecvLocked(r, nonblock) ==
    \/ /\ err_recv = NoErr /\ fifo = <<>>
       /\ IF nonblock
          THEN Return(r, "EAGAIN") /\ pc' = [pc EXCEPT ![r] = "idle"]
          ELSE pc' = [pc EXCEPT ![r] = "asleep"] /\ UNCHANGED ret
       /\ UNCHANGED <<queueVars, sent, taken>>
    \/ /\ RecvEnds
       /\ Return(r, err_recv)
       /\ pc' = [pc EXCEPT ![r] = "idle"]
       /\ UNCHANGED <<queueVars, sent, taken>>
    \/ /\ fifo # <<>>
       /\ taken' = Append(taken, [msg |-> Head(fifo), by |-> "receiver"])
       /\ fifo' = Tail(fifo)
       /\ SignalSender(r)
       /\ Return(r, "ok")
       /\ UNCHANGED <<mq, err_send, err_recv, free_func, sent>>

\* A call of av_thread_message_queue_send or _recv, with and without
\* AV_THREAD_MESSAGE_NONBLOCK.  MaxSend bounds the calls that may queue.
Send(s) ==
    /\ mq = "queue" /\ pc[s] = "idle"
    /\ Len(sent) + Cardinality(Senders \ {t \in Senders : pc[t] = "idle"}) < MaxSend
    /\ \E nonblock \in BOOLEAN : SendLocked(s, nonblock)

Recv(r) ==
    /\ mq = "queue" /\ pc[r] = "idle"
    /\ \E nonblock \in BOOLEAN : RecvLocked(r, nonblock)

\* pthread_cond_wait has returned with the mutex: the while loop goes round.
SendResume(s) == pc[s] = "woken" /\ SendLocked(s, FALSE)
RecvResume(r) == pc[r] = "woken" /\ RecvLocked(r, FALSE)

\* pthread_cond_wait may return without a signal.
SpuriousWakeup(t) ==
    /\ pc[t] = "asleep"
    /\ pc' = [pc EXCEPT ![t] = "woken"]
    /\ UNCHANGED <<queueVars, ret, sent, taken>>

\* av_thread_message_queue_set_err_send, from any thread; 0 clears the error.
SetErrSend(err) ==
    /\ mq = "queue"
    /\ err_send' = err
    /\ Broadcast(Senders)
    /\ UNCHANGED <<mq, fifo, err_recv, free_func, ret, sent, taken>>

\* av_thread_message_queue_set_err_recv
SetErrRecv(err) ==
    /\ mq = "queue"
    /\ err_recv' = err
    /\ Broadcast(Receivers)
    /\ UNCHANGED <<mq, fifo, err_send, free_func, ret, sent, taken>>

\* The messages a flush removes: given to free_func one by one, if it is set.
\* Variant: free_func is forgotten.
DrainedUnfreed == [i \in 1..Len(fifo) |-> [msg |-> fifo[i], by |-> "dropped"]]
Drained == [i \in 1..Len(fifo) |->
               [msg |-> fifo[i], by |-> IF free_func = "set" THEN "free_func" ELSE "dropped"]]

\* av_thread_message_flush: "only the senders need to be notified".
Flush ==
    /\ mq = "queue"
    /\ taken' = taken \o Drained
    /\ fifo' = <<>>
    /\ Broadcast(Senders)
    /\ UNCHANGED <<mq, err_send, err_recv, free_func, ret, sent>>

\* av_thread_message_queue_free: flushes, then destroys the mutex and the
\* condition variables, so its callers have joined the other threads.
Free ==
    /\ mq = "queue" /\ \A t \in Threads : pc[t] = "idle"
    /\ taken' = taken \o Drained
    /\ fifo' = <<>>
    /\ mq' = "null"
    /\ UNCHANGED <<err_send, err_recv, free_func, pc, ret, sent>>

Next ==
    \/ Alloc
    \/ SetFreeFunc
    \/ Flush
    \/ Free
    \/ \E s \in Senders : Send(s)
    \/ \E s \in Senders : SendResume(s)
    \/ \E r \in Receivers : Recv(r)
    \/ \E r \in Receivers : RecvResume(r)
    \/ \E t \in Threads : SpuriousWakeup(t)
    \/ \E err \in ErrCodes \cup {NoErr} : SetErrSend(err)
    \/ \E err \in ErrCodes \cup {NoErr} : SetErrRecv(err)

\* A woken thread eventually gets the mutex: nobody holds it for ever and the
\* scheduler runs every thread.  No call is obliged to be made.
Fairness ==
    /\ \A s \in Senders : WF_vars(SendResume(s))
    /\ \A r \in Receivers : WF_vars(RecvResume(r))

Spec == Init /\ [][Next]_vars
FairSpec == Spec /\ Fairness

-----------------------------------------------------------------------------
\* The types of the variables.
TypeOK ==
    /\ mq \in {"null", "queue"}
    /\ fifo \in Seq(Message) /\ Len(fifo) <= NElem
    /\ err_send \in ErrCodes \cup {NoErr}
    /\ err_recv \in ErrCodes \cup {NoErr}
    /\ free_func \in {"null", "set"}
    /\ pc \in [Threads -> {"idle", "asleep", "woken"}]
    /\ ret \in [to : Threads \cup {"nobody"}, code : {"none", "ok", "EAGAIN"} \cup ErrCodes]
    /\ sent \in Seq(Message)
    /\ taken \in Seq([msg : Message, by : {"receiver", "free_func", "dropped"}])

\* Every message that was sent has been received, flushed or is queued, once,
\* and messages leave in the order in which they were sent.
Conservation ==
    sent = [i \in 1..Len(taken) |-> taken[i].msg] \o fifo

\* No wakeup of a receiver is lost: while a receiver sleeps, there are as many
\* receivers on their way to the mutex as there are messages to receive, though
\* send signals once per message and never broadcasts.
NoLostRecvWakeup ==
    Asleep(Receivers) # {} => Len(fifo) <= Cardinality(Woken(Receivers))

\* No wakeup of a sender is lost: while a sender sleeps, there are as many
\* senders on their way to the mutex as there are free slots, though recv
\* signals one sender only, and flush frees many slots at once.
NoLostSendWakeup ==
    Asleep(Senders) # {} => NElem - Len(fifo) <= Cardinality(Woken(Senders))

\* An error wakes everybody: nobody sleeps on a side whose error is set, even
\* when errors are set and cleared while threads are on their way to the mutex.
NobodySleepsOnError ==
    /\ err_send # NoErr => Asleep(Senders) = {}
    /\ err_recv # NoErr => Asleep(Receivers) = {}

\* No wakeup is lost on either side of the queue.
NoLostWakeup == NobodySleepsOnError /\ NoLostRecvWakeup /\ NoLostSendWakeup

\* After av_thread_message_queue_free every message has an owner that disposes
\* of it: a receiver, or free_func when it is set.
NoLeak ==
    mq = "null" =>
        /\ Len(taken) = Len(sent)
        /\ free_func = "set" => \A i \in 1..Len(taken) : taken[i].by # "dropped"

\* Every message is accounted for, while the queue lives and when it is freed.
MessagesAccountedFor == Conservation /\ NoLeak
=============================================================================
