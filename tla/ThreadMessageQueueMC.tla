------------------------ MODULE ThreadMessageQueueMC ------------------------
(***************************************************************************)
(* ThreadMessageQueue for TLC, and the refinement of MessageChannel.       *)
(***************************************************************************)
EXTENDS ThreadMessageQueue

Channel == INSTANCE MessageChannel WITH
    open <- (mq = "queue"), queue <- fifo, sendErr <- err_send, recvErr <- err_recv,
    blocked <- {t \in Threads : pc[t] # "idle"}, result <- ret,
    Capacity <- NElem, Messages <- [src : Senders, num : 1..MaxSend]

\* libavutil/threadmessage.c implements the abstract channel, its liveness
\* included: a call is blocked from the moment its thread falls asleep to the
\* moment it returns, however often the thread wakes up in between.
ImplementsChannel == Channel!Spec
=============================================================================
