--------------------------- MODULE MessageChannel ---------------------------
(***************************************************************************)
(* What libavutil/threadmessage.h promises its callers: a bounded FIFO     *)
(* whose calls take effect atomically, block while they cannot proceed,    *)
(* and can be terminated by an error on either side.  It knows nothing of  *)
(* mutexes, condition variables or wakeups.                                *)
(***************************************************************************)
EXTENDS Naturals, Sequences, FiniteSets

CONSTANTS Senders, Receivers, Capacity, ErrCodes, NoErr, Messages

VARIABLES
    open,      \* the channel exists
    queue,     \* the messages in it
    sendErr,   \* the error that ends calls to send, if any
    recvErr,   \* the error that ends calls to receive on the empty queue
    blocked,   \* the threads inside a call that cannot return yet
    result     \* the result of the last call that returned, and its thread

vars == <<open, queue, sendErr, recvErr, blocked, result>>
Threads == Senders \cup Receivers

Init ==
    /\ open = FALSE /\ queue = <<>>
    /\ sendErr = NoErr /\ recvErr = NoErr
    /\ blocked = {} /\ result = [to |-> "nobody", code |-> "none"]

Open ==
    /\ ~open /\ open' = TRUE
    /\ queue' = <<>> /\ sendErr' = NoErr /\ recvErr' = NoErr
    /\ result' = [to |-> "nobody", code |-> "none"]
    /\ UNCHANGED blocked

Close ==
    /\ open /\ blocked = {}
    /\ open' = FALSE /\ queue' = <<>>
    /\ UNCHANGED <<sendErr, recvErr, blocked, result>>

Finish(t, code) ==
    /\ blocked' = blocked \ {t}
    /\ result' = [to |-> t, code |-> code]

CanSend == sendErr = NoErr /\ Len(queue) < Capacity
CanRecv == queue # <<>>

Put(s) ==
    /\ open /\ CanSend
    /\ \E m \in Messages : m.src = s /\ queue' = Append(queue, m)
    /\ Finish(s, "ok")
    /\ UNCHANGED <<open, sendErr, recvErr>>

SendFails(s) ==
    /\ open /\ sendErr # NoErr
    /\ Finish(s, sendErr)
    /\ UNCHANGED <<open, queue, sendErr, recvErr>>

Take(r) ==
    /\ open /\ CanRecv
    /\ queue' = Tail(queue)
    /\ Finish(r, "ok")
    /\ UNCHANGED <<open, sendErr, recvErr>>

\* An error reaches a receiver only when everything sent before it is gone.
RecvFails(r) ==
    /\ open /\ ~CanRecv /\ recvErr # NoErr
    /\ Finish(r, recvErr)
    /\ UNCHANGED <<open, queue, sendErr, recvErr>>

\* A call that cannot proceed blocks, or returns EAGAIN if it must not block.
Cannot(t) ==
    /\ open /\ t \notin blocked
    /\ t \in Senders => sendErr = NoErr /\ Len(queue) = Capacity
    /\ t \in Receivers => recvErr = NoErr /\ ~CanRecv
    /\ \/ blocked' = blocked \cup {t} /\ UNCHANGED result
       \/ Finish(t, "EAGAIN")
    /\ UNCHANGED <<open, queue, sendErr, recvErr>>

SetErrors ==
    /\ open
    /\ \E e \in ErrCodes \cup {NoErr} :
          \/ sendErr' = e /\ UNCHANGED recvErr
          \/ recvErr' = e /\ UNCHANGED sendErr
    /\ UNCHANGED <<open, queue, blocked, result>>

Discard ==
    /\ open /\ queue' = <<>>
    /\ UNCHANGED <<open, sendErr, recvErr, blocked, result>>

Next ==
    \/ Open \/ Close \/ SetErrors \/ Discard
    \/ \E s \in Senders : Put(s) \/ SendFails(s)
    \/ \E r \in Receivers : Take(r) \/ RecvFails(r)
    \/ \E t \in Threads : Cannot(t)

\* A blocked call that could return does: the first of the blocked calls that
\* a message or a free slot can serve, and each of those that an error ends.
Fairness ==
    /\ WF_vars(\E s \in blocked \cap Senders : Put(s))
    /\ WF_vars(\E r \in blocked \cap Receivers : Take(r))
    /\ \A s \in Senders : WF_vars(s \in blocked /\ SendFails(s))
    /\ \A r \in Receivers : WF_vars(r \in blocked /\ RecvFails(r))

Spec == Init /\ [][Next]_vars /\ Fairness
=============================================================================
