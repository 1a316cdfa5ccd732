---------------------- MODULE ThreadMessageQueueProofs ----------------------
(***************************************************************************)
(* Theorems about ThreadMessageQueue, for any number of senders and        *)
(* receivers and any capacity.                                             *)
(***************************************************************************)
EXTENDS ThreadMessageQueueMC, FiniteSetTheorems, SequenceTheorems, TLAPS

PcSet == {"idle", "asleep", "woken"}

-----------------------------------------------------------------------------
(* Type correctness                                                        *)

\* Signal and Broadcast keep pc typed.
LEMMA SignalType ==
    ASSUME NEW t \in Threads, NEW T \in SUBSET Threads,
           pc \in [Threads -> PcSet], Signal(t, T)
    PROVE  pc' \in [Threads -> PcSet]
BY DEF Signal, Asleep, PcSet

\* pthread_cond_broadcast moves threads between known places only.
LEMMA BroadcastType ==
    ASSUME NEW T \in SUBSET Threads, pc \in [Threads -> PcSet], Broadcast(T)
    PROVE  pc' \in [Threads -> PcSet]
BY DEF Broadcast, Asleep, PcSet

\* What a flush drains is a sequence of as many records as there are messages.
LEMMA DrainedType ==
    ASSUME fifo \in Seq(Message)
    PROVE  /\ Drained \in Seq([msg : Message, by : {"receiver", "free_func", "dropped"}])
           /\ Len(Drained) = Len(fifo)
           /\ \A k \in 1..Len(fifo) : Drained[k].msg = fifo[k]
<1> DEFINE B == {"receiver", "free_func", "dropped"}
<1>1. \A k \in 1..Len(fifo) : Drained[k].msg = fifo[k] BY DEF Drained
<1>2. \A k \in 1..Len(fifo) :
         [msg |-> fifo[k], by |-> IF free_func = "set" THEN "free_func" ELSE "dropped"] \in [msg : Message, by : B]
  OBVIOUS
<1>3. Drained \in Seq([msg : Message, by : B])
  BY <1>2 DEF Drained
<1>4. Len(Drained) = Len(fifo) BY DEF Drained
<1> QED BY <1>1, <1>3, <1>4

\* Every variable of the queue keeps its type, and the fifo never holds more than
\* nelem messages: av_thread_message_queue_send waits or fails instead.
THEOREM TypeInv == Spec => []TypeOK
<1> USE NElemAssumption, ErrAssumption DEF Threads
<1>1. Init => TypeOK BY DEF Init, TypeOK
<1>2. TypeOK /\ [Next]_vars => TypeOK'
  <2> SUFFICES ASSUME TypeOK, [Next]_vars PROVE TypeOK'
    OBVIOUS
  <2> USE DEF TypeOK
  <2>1. CASE Alloc BY <2>1 DEF Alloc
  <2>2. CASE SetFreeFunc BY <2>2 DEF SetFreeFunc
  <2>3. CASE Flush
    <3>1. /\ taken' = taken \o Drained /\ fifo' = <<>> /\ Broadcast(Senders)
          /\ UNCHANGED <<mq, err_send, err_recv, free_func, ret, sent>>
      BY <2>3 DEF Flush
    <3>2. pc' \in [Threads -> PcSet] BY <3>1, BroadcastType DEF PcSet
    <3>3. taken' \in Seq([msg : Message, by : {"receiver", "free_func", "dropped"}])
      BY <3>1, DrainedType
    <3> QED BY <3>1, <3>2, <3>3 DEF PcSet
  <2>4. CASE Free BY <2>4, DrainedType DEF Free
  <2>5. ASSUME NEW s \in Senders, NEW b \in BOOLEAN, SendLocked(s, b) PROVE TypeOK'
    <3>1. CASE err_send = NoErr /\ NoSpace
      BY <2>5, <3>1 DEF SendLocked, Return, queueVars
    <3>2. CASE err_send # NoErr
      BY <2>5, <3>2 DEF SendLocked, Return, queueVars
    <3>3. CASE err_send = NoErr /\ ~NoSpace
      <4> DEFINE msg == [src |-> s, num |-> Len(sent) + 1]
      <4>1. msg \in Message BY DEF Message
      <4>2. /\ fifo' = Append(fifo, msg) /\ sent' = Append(sent, msg)
            /\ Signal(s, Receivers) /\ Return(s, "ok")
            /\ UNCHANGED <<mq, err_send, err_recv, free_func, taken>>
        BY <2>5, <3>3 DEF SendLocked, SignalReceiver
      <4>3. pc' \in [Threads -> PcSet] BY <4>2, SignalType DEF PcSet
      <4> HIDE DEF msg
      <4>4. /\ fifo' \in Seq(Message) /\ Len(fifo') <= NElem
            /\ sent' \in Seq(Message)
        BY <3>3, <4>1, <4>2 DEF NoSpace
      <4> QED BY <4>2, <4>3, <4>4 DEF Return, PcSet
    <3> QED BY <3>1, <3>2, <3>3
  <2>6. ASSUME NEW r \in Receivers, NEW b \in BOOLEAN, RecvLocked(r, b) PROVE TypeOK'
    <3>1. CASE fifo = <<>>
      <4>1. UNCHANGED <<queueVars, sent, taken>>
        BY <2>6, <3>1 DEF RecvLocked
      <4>2. pc' \in [Threads -> PcSet]
        BY <2>6, <3>1 DEF RecvLocked, PcSet
      <4>3. \/ UNCHANGED ret
            \/ ret' = [to |-> r, code |-> "EAGAIN"]
            \/ err_recv # NoErr /\ ret' = [to |-> r, code |-> err_recv]
        BY <2>6, <3>1 DEF RecvLocked, RecvEnds, Return
      <4>4. ret' \in [to : Threads \cup {"nobody"}, code : {"none", "ok", "EAGAIN"} \cup ErrCodes]
        BY <4>3
      <4> QED BY <4>1, <4>2, <4>4 DEF queueVars, PcSet
    <3>2. CASE fifo # <<>>
      <4> DEFINE entry == [msg |-> Head(fifo), by |-> "receiver"]
      <4>1. /\ taken' = Append(taken, entry) /\ fifo' = Tail(fifo)
            /\ Signal(r, Senders) /\ Return(r, "ok")
            /\ UNCHANGED <<mq, err_send, err_recv, free_func, sent>>
        BY <2>6, <3>2 DEF RecvLocked, RecvEnds, SignalSender
      <4>2. pc' \in [Threads -> PcSet] BY <4>1, SignalType DEF PcSet
      <4>3. entry \in [msg : Message, by : {"receiver", "free_func", "dropped"}]
        BY <3>2
      <4> HIDE DEF entry
      <4>4. /\ fifo' \in Seq(Message) /\ Len(fifo') <= NElem
            /\ taken' \in Seq([msg : Message, by : {"receiver", "free_func", "dropped"}])
        BY <3>2, <4>1, <4>3
      <4> QED BY <4>1, <4>2, <4>4 DEF Return, PcSet
    <3> QED BY <3>1, <3>2
  <2>7. ASSUME NEW t \in Threads, SpuriousWakeup(t) PROVE TypeOK'
    BY <2>7 DEF SpuriousWakeup, queueVars
  <2>8. ASSUME NEW e \in ErrCodes \cup {NoErr}, SetErrSend(e) PROVE TypeOK'
    BY <2>8, BroadcastType DEF SetErrSend, PcSet
  <2>9. ASSUME NEW e \in ErrCodes \cup {NoErr}, SetErrRecv(e) PROVE TypeOK'
    BY <2>9, BroadcastType DEF SetErrRecv, PcSet
  <2>10. CASE UNCHANGED vars BY <2>10 DEF vars
  <2> QED
    BY <2>1, <2>2, <2>3, <2>4, <2>5, <2>6, <2>7, <2>8, <2>9, <2>10
    DEF Next, Send, Recv, SendResume, RecvResume
<1> QED BY <1>1, <1>2, PTL DEF Spec
-----------------------------------------------------------------------------
(* No wakeup is lost                                                       *)

\* Nobody is inside a call on a queue that does not exist.
NullIdle == mq = "null" => \A t \in Threads : pc[t] = "idle"

WakeInv ==
    TypeOK /\ NullIdle /\ NobodySleepsOnError /\ NoLostRecvWakeup /\ NoLostSendWakeup

\* The woken threads of a side are finite, so that they can be counted.
LEMMA FiniteSides ==
    ASSUME NEW T \in {Senders, Receivers}
    PROVE  /\ IsFiniteSet(Woken(T)) /\ Cardinality(Woken(T)) \in Nat
           /\ IsFiniteSet(Woken(T))' /\ Cardinality(Woken(T))' \in Nat
<1>1. Woken(T) \in SUBSET T /\ Woken(T)' \in SUBSET T BY DEF Woken
<1> QED BY <1>1, ThreadsAssumption, FS_Subset, FS_CardinalityType

\* A side whose threads do not move keeps its sleepers and its woken threads.
LEMMA SideUnchanged ==
    ASSUME NEW T, \A u \in T : pc'[u] = pc[u]
    PROVE  Asleep(T)' = Asleep(T) /\ Woken(T)' = Woken(T)
BY DEF Asleep, Woken

\* pthread_cond_signal(T) by a thread of the other side, which returns.
LEMMA SignalEffect ==
    ASSUME NEW T \in {Senders, Receivers}, NEW U \in {Senders, Receivers}, T \cap U = {},
           NEW t \in U, pc[t] # "asleep", TypeOK, Signal(t, T)
    PROVE  /\ Asleep(U)' = Asleep(U)
           /\ Woken(U)' = Woken(U) \ {t}
           /\ Asleep(T) = {} => Asleep(T)' = {}
           /\ Asleep(T) # {} => Cardinality(Woken(T))' = Cardinality(Woken(T)) + 1
           /\ Asleep(T)' \subseteq Asleep(T)
<1> USE ThreadsAssumption DEF Threads
<1>1. CASE Asleep(T) = {}
  <2>1. pc' = [pc EXCEPT ![t] = "idle"] BY <1>1 DEF Signal
  <2> QED BY <1>1, <2>1 DEF TypeOK, Asleep, Woken
<1>2. CASE Asleep(T) # {}
  <2>1. PICK u \in Asleep(T) : pc' = [pc EXCEPT ![t] = "idle", ![u] = "woken"]
    BY <1>2 DEF Signal
  <2>2. Woken(T)' = Woken(T) \cup {u} /\ u \notin Woken(T)
    BY <2>1 DEF TypeOK, Asleep, Woken
  <2>3. Cardinality(Woken(T))' = Cardinality(Woken(T)) + 1
    BY <2>2, FiniteSides, FS_AddElement
  <2>4. /\ Asleep(U)' = Asleep(U) /\ Woken(U)' = Woken(U) \ {t}
        /\ Asleep(T)' \subseteq Asleep(T)
    BY <2>1 DEF TypeOK, Asleep, Woken
  <2> QED BY <1>2, <2>3, <2>4
<1> QED BY <1>1, <1>2

\* A woken thread that returns leaves at most one woken thread less.
LEMMA WokenLeaves ==
    ASSUME NEW T \in {Senders, Receivers}, NEW t, Woken(T)' = Woken(T) \ {t}
    PROVE  Cardinality(Woken(T))' >= Cardinality(Woken(T)) - 1
<1>1. IsFiniteSet(Woken(T)) /\ Cardinality(Woken(T)) \in Nat BY FiniteSides
<1>2. Cardinality(Woken(T) \ {t}) \in {Cardinality(Woken(T)), Cardinality(Woken(T)) - 1}
  BY <1>1, FS_RemoveElement
<1> QED BY <1>1, <1>2

\* pthread_cond_broadcast leaves nobody of its side asleep, and the other side as it is.
LEMMA BroadcastEffect ==
    ASSUME NEW T \in {Senders, Receivers}, NEW U \in {Senders, Receivers}, T \cap U = {},
           TypeOK, Broadcast(T)
    PROVE  /\ Asleep(T)' = {}
           /\ Asleep(U)' = Asleep(U) /\ Woken(U)' = Woken(U)
           /\ \A t \in Threads : pc[t] = "idle" => pc'[t] = "idle"
BY ThreadsAssumption DEF Broadcast, TypeOK, Asleep, Woken, Threads

\* One iteration of the loop of av_thread_message_queue_send_locked.
LEMMA SendKeepsWakeups ==
    ASSUME WakeInv, TypeOK', mq = "queue",
           NEW s \in Senders, pc[s] # "asleep", NEW b \in BOOLEAN, SendLocked(s, b)
    PROVE  WakeInv'
<1> USE ThreadsAssumption DEF Threads
<1>1. TypeOK /\ Len(fifo) \in Nat /\ NElem \in Nat BY NElemAssumption DEF WakeInv, TypeOK
<1>2. CASE err_send = NoErr /\ NoSpace
  <2>1. /\ UNCHANGED queueVars
        /\ \E l \in {"idle", "asleep"} : pc' = [pc EXCEPT ![s] = l]
    BY <1>2 DEF SendLocked
  <2>2. Asleep(Receivers)' = Asleep(Receivers) /\ Woken(Receivers)' = Woken(Receivers)
    <3>1. \A u \in Receivers : pc'[u] = pc[u] BY <1>1, <2>1 DEF TypeOK
    <3> QED BY <3>1, SideUnchanged
  <2>3. NElem - Len(fifo) <= 0 BY <1>1, <1>2 DEF NoSpace
  <2> QED BY <1>1, <1>2, <2>1, <2>2, <2>3, FiniteSides
    DEF WakeInv, NullIdle, NobodySleepsOnError, NoLostRecvWakeup, NoLostSendWakeup, queueVars
<1>3. CASE err_send # NoErr
  <2>1. UNCHANGED queueVars /\ pc' = [pc EXCEPT ![s] = "idle"]
    BY <1>3 DEF SendLocked
  <2>2. Asleep(Receivers)' = Asleep(Receivers) /\ Woken(Receivers)' = Woken(Receivers)
    <3>1. \A u \in Receivers : pc'[u] = pc[u] BY <1>1, <2>1 DEF TypeOK
    <3> QED BY <3>1, SideUnchanged
  <2>3. Asleep(Senders)' = {}
    BY <1>1, <1>3, <2>1 DEF WakeInv, NobodySleepsOnError, Asleep, TypeOK
  <2> QED BY <1>1, <2>1, <2>2, <2>3
    DEF WakeInv, NullIdle, NobodySleepsOnError, NoLostRecvWakeup, NoLostSendWakeup, queueVars
<1>4. CASE err_send = NoErr /\ ~NoSpace
  <2>1. Signal(s, Receivers) /\ UNCHANGED <<mq, err_send, err_recv>>
    BY <1>4 DEF SendLocked, SignalReceiver
  <2>2. Len(fifo') = Len(fifo) + 1
    <3>1. \E msg : fifo' = Append(fifo, msg) BY <1>4 DEF SendLocked
    <3> QED BY <1>1, <3>1 DEF TypeOK
  <2>3. Senders \cap Receivers = {} OBVIOUS
  <2>4. WakeInv'
    <3>1. /\ Asleep(Senders)' = Asleep(Senders)
          /\ Woken(Senders)' = Woken(Senders) \ {s}
          /\ Asleep(Receivers) = {} => Asleep(Receivers)' = {}
          /\ Asleep(Receivers) # {} =>
                Cardinality(Woken(Receivers))' = Cardinality(Woken(Receivers)) + 1
          /\ Asleep(Receivers)' \subseteq Asleep(Receivers)
      BY <1>1, <2>1, <2>3, SignalEffect
    <3>2. Cardinality(Woken(Senders))' >= Cardinality(Woken(Senders)) - 1
      BY <3>1, WokenLeaves
    <3>3. NoLostRecvWakeup'
      BY <1>1, <2>2, <3>1, FiniteSides DEF WakeInv, NoLostRecvWakeup
    <3>4. NoLostSendWakeup'
      <4>1. /\ Cardinality(Woken(Senders)) \in Nat
            /\ Cardinality(Woken(Senders))' \in Nat
        BY FiniteSides
      <4>2. Asleep(Senders) # {} => NElem - Len(fifo) <= Cardinality(Woken(Senders))
        BY DEF WakeInv, NoLostSendWakeup
      <4>3. Asleep(Senders)' # {} => NElem - Len(fifo') <= Cardinality(Woken(Senders))'
        BY <1>1, <2>2, <3>1, <3>2, <4>1, <4>2
      <4> QED BY <4>3 DEF NoLostSendWakeup
    <3>5. NobodySleepsOnError' BY <2>1, <3>1 DEF WakeInv, NobodySleepsOnError
    <3> QED BY <1>1, <2>1, <3>3, <3>4, <3>5 DEF WakeInv, NullIdle
  <2> QED BY <2>4
<1> QED BY <1>2, <1>3, <1>4

\* One iteration of the loop of av_thread_message_queue_recv_locked.
LEMMA RecvKeepsWakeups ==
    ASSUME WakeInv, TypeOK', mq = "queue",
           NEW r \in Receivers, pc[r] # "asleep", NEW b \in BOOLEAN, RecvLocked(r, b)
    PROVE  WakeInv'
<1> USE ThreadsAssumption DEF Threads
<1>1. TypeOK /\ Len(fifo) \in Nat /\ NElem \in Nat BY NElemAssumption DEF WakeInv, TypeOK
<1>2. CASE fifo = <<>>
  <2>1. /\ UNCHANGED queueVars
        /\ pc' = [pc EXCEPT ![r] = "idle"] \/ (err_recv = NoErr /\ pc' = [pc EXCEPT ![r] = "asleep"])
    BY <1>2 DEF RecvLocked
  <2>2. Asleep(Senders)' = Asleep(Senders) /\ Woken(Senders)' = Woken(Senders)
    <3>1. \A u \in Senders : pc'[u] = pc[u] BY <1>1, <2>1 DEF TypeOK
    <3> QED BY <3>1, SideUnchanged
  <2>3. Len(fifo) = 0 BY <1>2
  <2>4. err_recv # NoErr => Asleep(Receivers)' = {}
    BY <1>1, <2>1 DEF WakeInv, NobodySleepsOnError, Asleep, TypeOK
  <2> QED BY <1>1, <2>1, <2>2, <2>3, <2>4, FiniteSides
    DEF WakeInv, NullIdle, NobodySleepsOnError, NoLostRecvWakeup, NoLostSendWakeup, queueVars
<1>3. CASE fifo # <<>>
  <2>1. /\ Signal(r, Senders) /\ fifo' = Tail(fifo)
        /\ UNCHANGED <<mq, err_send, err_recv>>
    BY <1>3 DEF RecvLocked, RecvEnds, SignalSender
  <2>2. Len(fifo') = Len(fifo) - 1 BY <1>1, <1>3, <2>1 DEF TypeOK
  <2>3. Senders \cap Receivers = {} OBVIOUS
  <2>4. /\ Asleep(Receivers)' = Asleep(Receivers)
        /\ Woken(Receivers)' = Woken(Receivers) \ {r}
        /\ Asleep(Senders) = {} => Asleep(Senders)' = {}
        /\ Asleep(Senders) # {} =>
              Cardinality(Woken(Senders))' = Cardinality(Woken(Senders)) + 1
        /\ Asleep(Senders)' \subseteq Asleep(Senders)
    BY <1>1, <2>1, <2>3, SignalEffect
  <2>5. Cardinality(Woken(Receivers))' >= Cardinality(Woken(Receivers)) - 1
    BY <2>4, WokenLeaves
  <2>6. NoLostSendWakeup'
    BY <1>1, <2>2, <2>4, FiniteSides DEF WakeInv, NoLostSendWakeup
  <2>7. NoLostRecvWakeup'
    <3>1. /\ Cardinality(Woken(Receivers)) \in Nat
          /\ Cardinality(Woken(Receivers))' \in Nat
      BY FiniteSides
    <3>2. Asleep(Receivers) # {} => Len(fifo) <= Cardinality(Woken(Receivers))
      BY DEF WakeInv, NoLostRecvWakeup
    <3>3. Asleep(Receivers)' # {} => Len(fifo') <= Cardinality(Woken(Receivers))'
      BY <1>1, <2>2, <2>4, <2>5, <3>1, <3>2
    <3> QED BY <3>3 DEF NoLostRecvWakeup
  <2>8. NobodySleepsOnError' BY <2>1, <2>4 DEF WakeInv, NobodySleepsOnError
  <2> QED BY <1>1, <2>1, <2>6, <2>7, <2>8 DEF WakeInv, NullIdle
<1> QED BY <1>2, <1>3

\* Everything else that moves threads: broadcasts and spurious wakeups.
LEMMA OthersKeepWakeups ==
    ASSUME WakeInv, TypeOK',
           \/ Alloc \/ SetFreeFunc \/ Flush \/ Free
           \/ \E t \in Threads : SpuriousWakeup(t)
           \/ \E e \in ErrCodes \cup {NoErr} : SetErrSend(e) \/ SetErrRecv(e)
    PROVE  WakeInv'
<1> USE ThreadsAssumption, NElemAssumption
<1>0. TypeOK /\ Len(fifo) \in Nat /\ TypeOK' BY DEF WakeInv, TypeOK
<1>1. CASE mq = "null" /\ Alloc
  <2>1. \A t \in Threads : pc'[t] = "idle" BY <1>1 DEF Alloc, WakeInv, NullIdle
  <2>2. Asleep(Senders)' = {} /\ Asleep(Receivers)' = {} BY <2>1 DEF Asleep, Threads
  <2> QED BY <1>0, <2>1, <2>2
    DEF WakeInv, NullIdle, NobodySleepsOnError, NoLostRecvWakeup, NoLostSendWakeup
<1>2. CASE SetFreeFunc
  <2>1. UNCHANGED <<pc, fifo, err_send, err_recv, mq>> BY <1>2 DEF SetFreeFunc
  <2> QED BY <1>0, <2>1
    DEF WakeInv, NullIdle, NobodySleepsOnError, NoLostRecvWakeup, NoLostSendWakeup, Asleep, Woken
<1>3. CASE Free
  <2>1. \A t \in Threads : pc'[t] = "idle" BY <1>3 DEF Free
  <2>2. Asleep(Senders)' = {} /\ Asleep(Receivers)' = {} BY <2>1 DEF Asleep, Threads
  <2> QED BY <1>0, <2>1, <2>2
    DEF WakeInv, NullIdle, NobodySleepsOnError, NoLostRecvWakeup, NoLostSendWakeup
<1>4. CASE Flush
  <2>1. Broadcast(Senders) /\ fifo' = <<>> /\ UNCHANGED <<mq, err_send, err_recv>>
    BY <1>4 DEF Flush
  <2>2. Asleep(Senders)' = {} /\ Asleep(Receivers)' = Asleep(Receivers)
    BY <1>0, <2>1, BroadcastEffect
  <2>3. Len(fifo') = 0 /\ Cardinality(Woken(Receivers))' \in Nat
    BY <2>1, FiniteSides
  <2> QED BY <1>0, <1>4, <2>1, <2>2, <2>3
    DEF WakeInv, NullIdle, NobodySleepsOnError, NoLostRecvWakeup, NoLostSendWakeup, Flush
<1>5. ASSUME NEW e \in ErrCodes \cup {NoErr}, SetErrSend(e) PROVE WakeInv'
  <2>1. Broadcast(Senders) /\ mq = "queue" /\ UNCHANGED <<mq, fifo, err_recv>>
    BY <1>5 DEF SetErrSend
  <2>2. /\ Asleep(Senders)' = {}
        /\ Asleep(Receivers)' = Asleep(Receivers) /\ Woken(Receivers)' = Woken(Receivers)
    BY <1>0, <2>1, BroadcastEffect
  <2> QED BY <1>0, <2>1, <2>2
    DEF WakeInv, NullIdle, NobodySleepsOnError, NoLostRecvWakeup, NoLostSendWakeup
<1>6. ASSUME NEW e \in ErrCodes \cup {NoErr}, SetErrRecv(e) PROVE WakeInv'
  <2>1. Broadcast(Receivers) /\ mq = "queue" /\ UNCHANGED <<mq, fifo, err_send>>
    BY <1>6 DEF SetErrRecv
  <2>2. /\ Asleep(Receivers)' = {}
        /\ Asleep(Senders)' = Asleep(Senders) /\ Woken(Senders)' = Woken(Senders)
    BY <1>0, <2>1, BroadcastEffect
  <2> QED BY <1>0, <2>1, <2>2
    DEF WakeInv, NullIdle, NobodySleepsOnError, NoLostRecvWakeup, NoLostSendWakeup
<1>7. ASSUME NEW t \in Threads, SpuriousWakeup(t) PROVE WakeInv'
  <2>1. /\ pc[t] = "asleep" /\ pc' = [pc EXCEPT ![t] = "woken"]
        /\ UNCHANGED <<mq, fifo, err_send, err_recv>>
    BY <1>7 DEF SpuriousWakeup, queueVars
  <2>2. ASSUME NEW T \in {Senders, Receivers}
        PROVE  /\ Asleep(T)' \subseteq Asleep(T)
               /\ Cardinality(Woken(T))' >= Cardinality(Woken(T))
    <3>1. Asleep(T)' \subseteq Asleep(T) /\ Woken(T) \subseteq Woken(T)'
      BY <1>0, <2>1 DEF Asleep, Woken, TypeOK, Threads
    <3> QED BY <3>1, FiniteSides, FS_Subset
  <2>3. /\ Cardinality(Woken(Senders)) \in Nat /\ Cardinality(Woken(Senders))' \in Nat
        /\ Cardinality(Woken(Receivers)) \in Nat /\ Cardinality(Woken(Receivers))' \in Nat
    BY FiniteSides
  <2>4. mq # "null" BY <2>1 DEF WakeInv, NullIdle
  <2>5. NobodySleepsOnError'
    BY <2>1, <2>2 DEF WakeInv, NobodySleepsOnError
  <2>6. NoLostRecvWakeup'
    BY <1>0, <2>1, <2>2, <2>3 DEF WakeInv, NoLostRecvWakeup
  <2>7. NoLostSendWakeup'
    BY <1>0, <2>1, <2>2, <2>3 DEF WakeInv, NoLostSendWakeup
  <2> QED BY <1>0, <2>1, <2>4, <2>5, <2>6, <2>7 DEF WakeInv, NullIdle
<1>8. Alloc => mq = "null" BY DEF Alloc
<1> QED BY <1>1, <1>2, <1>3, <1>4, <1>5, <1>6, <1>7, <1>8

\* WakeInv holds of every state the queue reaches.
LEMMA WakeInvariant == Spec => []WakeInv
<1>1. Init => WakeInv
  <2> SUFFICES ASSUME Init PROVE WakeInv
    OBVIOUS
  <2>1. TypeOK BY NElemAssumption DEF Init, TypeOK
  <2>2. \A t \in Threads : pc[t] = "idle" BY DEF Init
  <2>3. Asleep(Senders) = {} /\ Asleep(Receivers) = {} BY <2>2 DEF Asleep, Threads
  <2> QED BY <2>1, <2>2, <2>3
    DEF WakeInv, NullIdle, NobodySleepsOnError, NoLostRecvWakeup, NoLostSendWakeup
<1>2. WakeInv /\ TypeOK' /\ [Next]_vars => WakeInv'
  <2> SUFFICES ASSUME WakeInv, TypeOK', [Next]_vars PROVE WakeInv'
    OBVIOUS
  <2>1. \A t \in Threads : pc[t] # "idle" => mq = "queue"
    BY DEF WakeInv, NullIdle, TypeOK
  <2>2. ASSUME NEW s \in Senders, Send(s) PROVE WakeInv'
    BY <2>2, SendKeepsWakeups DEF Send
  <2>3. ASSUME NEW s \in Senders, SendResume(s) PROVE WakeInv'
    BY <2>1, <2>3, SendKeepsWakeups DEF SendResume, Threads
  <2>4. ASSUME NEW r \in Receivers, Recv(r) PROVE WakeInv'
    BY <2>4, RecvKeepsWakeups DEF Recv
  <2>5. ASSUME NEW r \in Receivers, RecvResume(r) PROVE WakeInv'
    BY <2>1, <2>5, RecvKeepsWakeups DEF RecvResume, Threads
  <2>6. CASE UNCHANGED vars
    BY <2>6 DEF vars, WakeInv, NullIdle, NobodySleepsOnError, NoLostRecvWakeup,
                NoLostSendWakeup, Asleep, Woken
  <2> QED BY <2>2, <2>3, <2>4, <2>5, <2>6, OthersKeepWakeups DEF Next
<1> QED BY <1>1, <1>2, TypeInv, PTL DEF Spec

\* While a thread sleeps on either side of the queue, as many threads of its
\* side are on their way to the mutex as there are messages (or free slots) for
\* them, and nobody sleeps on an error: threadmessage.c loses no wakeup.
THEOREM NoLostWakeups == Spec => []NoLostWakeup
<1>1. WakeInv => NoLostWakeup BY DEF WakeInv, NoLostWakeup
<1> QED BY <1>1, WakeInvariant, PTL

-----------------------------------------------------------------------------
(* No message is lost, duplicated, reordered or leaked                     *)

\* Conservation, message by message.
SameLog ==
    /\ Len(sent) = Len(taken) + Len(fifo)
    /\ \A k \in 1..Len(taken) : sent[k] = taken[k].msg
    /\ \A k \in 1..Len(fifo) : sent[Len(taken) + k] = fifo[k]

\* A queue that does not exist is empty, and no message of a queue that has a
\* free_func was dropped.
NullEmpty == mq = "null" => fifo = <<>>
NoneDropped == free_func = "set" => \A k \in 1..Len(taken) : taken[k].by # "dropped"

LogInv == SameLog /\ NullEmpty /\ NoneDropped

\* A send appends to what was sent and to what is queued, or changes neither.
LEMMA SendKeepsLog ==
    ASSUME TypeOK, TypeOK', LogInv, mq = "queue",
           NEW s \in Senders, NEW b \in BOOLEAN, SendLocked(s, b)
    PROVE  LogInv'
<1>1. CASE UNCHANGED <<queueVars, sent, taken>>
  BY <1>1 DEF queueVars, LogInv, SameLog, NullEmpty, NoneDropped
<1>2. CASE err_send = NoErr /\ ~NoSpace
  <2>1. PICK msg : /\ fifo' = Append(fifo, msg) /\ sent' = Append(sent, msg)
                   /\ UNCHANGED <<mq, err_send, err_recv, free_func, taken>>
    BY <1>2 DEF SendLocked
  <2>2. /\ Len(fifo') = Len(fifo) + 1 /\ Len(sent') = Len(sent) + 1
        /\ \A k \in 1..Len(fifo) : fifo'[k] = fifo[k]
        /\ \A k \in 1..Len(sent) : sent'[k] = sent[k]
        /\ fifo'[Len(fifo) + 1] = msg /\ sent'[Len(sent) + 1] = msg
    BY <2>1 DEF TypeOK
  <2>3. Len(fifo) \in Nat /\ Len(sent) \in Nat /\ Len(taken) \in Nat BY DEF TypeOK
  <2>4. sent' = Append(sent, msg) /\ taken' = taken BY <2>1
  <2>5. Len(sent) = Len(taken) + Len(fifo) BY DEF LogInv, SameLog
  <2>6. \A k \in 1..Len(taken') : sent'[k] = taken'[k].msg
    BY <2>2, <2>3, <2>4, <2>5 DEF LogInv, SameLog
  <2>7. \A k \in 1..Len(fifo') : sent'[Len(taken') + k] = fifo'[k]
    <3> SUFFICES ASSUME NEW k \in 1..Len(fifo') PROVE sent'[Len(taken) + k] = fifo'[k]
      BY <2>4
    <3>1. CASE k \in 1..Len(fifo)
      <4>1. Len(taken) + k \in 1..Len(sent) BY <2>3, <2>5, <3>1
      <4> QED BY <2>2, <3>1, <4>1 DEF LogInv, SameLog
    <3>2. CASE k = Len(fifo) + 1
      <4>1. Len(taken) + k = Len(sent) + 1 BY <2>3, <2>5, <3>2
      <4> QED BY <2>2, <3>2, <4>1
    <3> QED BY <2>2, <2>3, <3>1, <3>2
  <2>8. Len(sent') = Len(taken') + Len(fifo') BY <2>2, <2>3, <2>4, <2>5
  <2>9. SameLog' BY <2>6, <2>7, <2>8 DEF SameLog
  <2> QED BY <2>1, <2>9 DEF LogInv, NullEmpty, NoneDropped
<1> QED BY <1>1, <1>2 DEF SendLocked

\* A receive moves the oldest message from what is queued to what was taken.
LEMMA RecvKeepsLog ==
    ASSUME TypeOK, TypeOK', LogInv, mq = "queue",
           NEW r \in Receivers, NEW b \in BOOLEAN, RecvLocked(r, b)
    PROVE  LogInv'
<1>1. CASE UNCHANGED <<queueVars, sent, taken>>
  BY <1>1 DEF queueVars, LogInv, SameLog, NullEmpty, NoneDropped
<1>2. CASE fifo # <<>> /\ ~UNCHANGED <<queueVars, sent, taken>>
  <2> DEFINE entry == [msg |-> Head(fifo), by |-> "receiver"]
  <2>1. /\ taken' = Append(taken, entry) /\ fifo' = Tail(fifo)
        /\ UNCHANGED <<mq, err_send, err_recv, free_func, sent>>
    BY <1>2 DEF RecvLocked, RecvEnds
  <2>2. entry.msg = fifo[1] /\ entry.by # "dropped"
    BY <1>2, ErrAssumption DEF TypeOK
  <2> HIDE DEF entry
  <2>3. /\ Len(fifo) > 0 /\ Len(fifo') = Len(fifo) - 1 /\ Len(taken') = Len(taken) + 1
        /\ \A k \in 1..Len(fifo') : fifo'[k] = fifo[k + 1]
        /\ \A k \in 1..Len(taken) : taken'[k] = taken[k]
        /\ taken'[Len(taken) + 1] = entry
    BY <1>2, <2>1 DEF TypeOK
  <2>4. Len(fifo) \in Nat /\ Len(sent) \in Nat /\ Len(taken) \in Nat BY DEF TypeOK
  <2>5. SameLog'
    <3>1. Len(sent') = Len(taken') + Len(fifo')
      <4>1. sent' = sent BY <2>1
      <4>2. Len(sent) = Len(taken) + Len(fifo) BY DEF LogInv, SameLog
      <4>3. Len(fifo') = Len(fifo) - 1 /\ Len(taken') = Len(taken) + 1 BY <2>3
      <4> QED BY <2>4, <4>1, <4>2, <4>3
    <3>2. \A k \in 1..Len(taken') : sent'[k] = taken'[k].msg
      <4>1. sent[Len(taken) + 1] = entry.msg BY <2>2, <2>3, <2>4 DEF LogInv, SameLog
      <4> QED BY <2>1, <2>3, <2>4, <4>1 DEF LogInv, SameLog
    <3>3. \A k \in 1..Len(fifo') : sent'[Len(taken') + k] = fifo'[k]
      <4> SUFFICES ASSUME NEW k \in 1..Len(fifo') PROVE sent'[Len(taken') + k] = fifo'[k]
        OBVIOUS
      <4>1. sent[Len(taken) + (k + 1)] = fifo[k + 1]
        BY <2>3, <2>4 DEF LogInv, SameLog
      <4>2. Len(taken') + k = Len(taken) + (k + 1) BY <2>3, <2>4
      <4> QED BY <2>1, <2>3, <4>1, <4>2
    <3> QED BY <3>1, <3>2, <3>3 DEF SameLog
  <2>6. NoneDropped' BY <2>1, <2>2, <2>3, <2>4 DEF LogInv, NoneDropped
  <2> QED BY <2>1, <2>5, <2>6 DEF LogInv, NullEmpty
<1> QED BY <1>1, <1>2 DEF RecvLocked

\* What av_thread_message_flush and the flush inside free do to the messages.
LEMMA DrainKeepsLog ==
    ASSUME TypeOK, TypeOK', LogInv, taken' = taken \o Drained, fifo' = <<>>,
           sent' = sent, free_func' = free_func
    PROVE  LogInv'
<1>1. Len(fifo) \in Nat /\ Len(sent) \in Nat /\ Len(taken) \in Nat BY DEF TypeOK
<1>2. /\ Len(taken') = Len(taken) + Len(fifo)
      /\ \A k \in 1..Len(taken) : taken'[k] = taken[k]
      /\ \A k \in 1..Len(fifo) : taken'[Len(taken) + k] = Drained[k]
  <2> DEFINE B == [msg : Message, by : {"receiver", "free_func", "dropped"}]
  <2>1. taken \in Seq(B) /\ Drained \in Seq(B) /\ Len(Drained) = Len(fifo)
    BY DrainedType DEF TypeOK
  <2> HIDE DEF B
  <2>2. /\ Len(taken \o Drained) = Len(taken) + Len(Drained)
        /\ \A k \in 1 .. Len(taken) + Len(Drained) : (taken \o Drained)[k] =
              IF k <= Len(taken) THEN taken[k] ELSE Drained[k - Len(taken)]
    BY <2>1, ConcatProperties
  <2>3. ASSUME NEW k \in 1..Len(fifo) PROVE taken'[Len(taken) + k] = Drained[k]
    <3>1. /\ Len(taken) + k \in 1 .. Len(taken) + Len(Drained)
          /\ ~(Len(taken) + k <= Len(taken)) /\ (Len(taken) + k) - Len(taken) = k
      BY <1>1, <2>1
    <3> QED BY <2>2, <3>1
  <2> QED BY <1>1, <2>1, <2>2, <2>3
<1>3. /\ \A k \in 1..Len(fifo) : Drained[k].msg = fifo[k]
      /\ free_func = "set" => \A k \in 1..Len(fifo) : Drained[k].by # "dropped"
  BY DrainedType DEF Drained, TypeOK
<1>4. ASSUME NEW k \in 1..Len(taken'), k \notin 1..Len(taken)
      PROVE  /\ k - Len(taken) \in 1..Len(fifo)
             /\ taken'[k] = Drained[k - Len(taken)]
             /\ Len(taken) + (k - Len(taken)) = k
  BY <1>1, <1>2, <1>4
<1>5. SameLog'
  <2>1. \A k \in 1..Len(taken') : sent'[k] = taken'[k].msg
    <3> SUFFICES ASSUME NEW k \in 1..Len(taken') PROVE sent'[k] = taken'[k].msg
      OBVIOUS
    <3>1. CASE k \in 1..Len(taken) BY <1>2, <3>1 DEF LogInv, SameLog
    <3>2. CASE k \notin 1..Len(taken)
      BY <1>3, <1>4, <3>2 DEF LogInv, SameLog
    <3> QED BY <3>1, <3>2
  <2>2. Len(fifo') = 0 OBVIOUS
  <2> QED BY <1>1, <1>2, <2>1, <2>2 DEF LogInv, SameLog
<1>6. NoneDropped'
  <2> SUFFICES ASSUME free_func = "set", NEW k \in 1..Len(taken')
               PROVE  taken'[k].by # "dropped"
    BY DEF NoneDropped
  <2>1. CASE k \in 1..Len(taken) BY <1>2, <2>1 DEF LogInv, NoneDropped
  <2>2. CASE k \notin 1..Len(taken) BY <1>3, <1>4, <2>2
  <2> QED BY <2>1, <2>2
<1> QED BY <1>5, <1>6 DEF LogInv, NullEmpty

\* SameLog is Conservation.
LEMMA SameLogConserves ==
    ASSUME TypeOK, SameLog
    PROVE  Conservation
<1> DEFINE out == [k \in 1..Len(taken) |-> taken[k].msg]
<1>1. Len(fifo) \in Nat /\ Len(sent) \in Nat /\ Len(taken) \in Nat BY DEF TypeOK
<1>2. ASSUME NEW k \in 1..Len(taken) PROVE taken[k].msg \in Message
  <2> DEFINE B == [msg : Message, by : {"receiver", "free_func", "dropped"}]
  <2>1. taken \in Seq(B) BY DEF TypeOK
  <2>2. taken[k] \in B BY <2>1, ElementOfSeq
  <2> QED BY <2>2
<1>3. out \in Seq(Message) /\ Len(out) = Len(taken) BY <1>1, <1>2
<1>4. \A k \in 1..Len(taken) : out[k] = taken[k].msg OBVIOUS
<1> HIDE DEF out
<1> DEFINE all == out \o fifo
<1>5. /\ all \in Seq(Message) /\ Len(all) = Len(taken) + Len(fifo)
      /\ \A k \in 1 .. Len(taken) + Len(fifo) :
            all[k] = IF k <= Len(taken) THEN out[k] ELSE fifo[k - Len(taken)]
  <2>1. out \in Seq(Message) /\ fifo \in Seq(Message) BY <1>3 DEF TypeOK
  <2>2. /\ out \o fifo \in Seq(Message) /\ Len(out \o fifo) = Len(out) + Len(fifo)
        /\ \A k \in 1 .. Len(out) + Len(fifo) : (out \o fifo)[k] =
              IF k <= Len(out) THEN out[k] ELSE fifo[k - Len(out)]
    BY <2>1, ConcatProperties
  <2> QED BY <1>3, <2>2
<1> HIDE DEF all
<1>6. ASSUME NEW k \in 1..Len(sent) PROVE all[k] = sent[k]
  <2>1. CASE k <= Len(taken)
    BY <1>1, <1>4, <1>5, <2>1 DEF SameLog
  <2>2. CASE k > Len(taken)
    <3>1. /\ k - Len(taken) \in 1..Len(fifo) /\ Len(taken) + (k - Len(taken)) = k
      BY <1>1, <2>2 DEF SameLog
    <3>2. all[k] = fifo[k - Len(taken)] BY <1>1, <1>5, <2>2 DEF SameLog
    <3> QED BY <3>1, <3>2 DEF SameLog
  <2> QED BY <1>1, <2>1, <2>2
<1>7. all = sent
  <2>1. sent \in Seq(Message) /\ Len(sent) = Len(all) BY <1>5 DEF TypeOK, SameLog
  <2> QED BY <1>5, <1>6, <2>1, SeqEqual
<1> QED BY <1>7 DEF all, out, Conservation

\* Every message sent is received, flushed or queued, once and in the order of
\* the sends; and after av_thread_message_queue_free each has been disposed of.
THEOREM NoMessageLost == Spec => []MessagesAccountedFor
<1>1. Init => LogInv
  BY DEF Init, LogInv, SameLog, NullEmpty, NoneDropped
<1>2. TypeOK /\ TypeOK' /\ WakeInv /\ LogInv /\ [Next]_vars => LogInv'
  <2> SUFFICES ASSUME TypeOK, TypeOK', WakeInv, LogInv, [Next]_vars PROVE LogInv'
    OBVIOUS
  <2>1. \A t \in Threads : pc[t] # "idle" => mq = "queue"
    BY DEF WakeInv, NullIdle, TypeOK
  <2>2. CASE Alloc
    BY <2>2 DEF Alloc, LogInv, SameLog, NullEmpty, NoneDropped
  <2>3. CASE SetFreeFunc
    <3>1. Len(taken) = 0 /\ UNCHANGED <<mq, fifo, sent, taken>>
      BY <2>3 DEF SetFreeFunc, LogInv, SameLog, TypeOK
    <3> QED BY <3>1 DEF LogInv, SameLog, NullEmpty, NoneDropped
  <2>4. CASE Flush BY <2>4, DrainKeepsLog DEF Flush
  <2>5. CASE Free BY <2>5, DrainKeepsLog DEF Free
  <2>6. ASSUME NEW s \in Senders, Send(s) \/ SendResume(s) PROVE LogInv'
    BY <2>1, <2>6, SendKeepsLog DEF Send, SendResume, Threads
  <2>7. ASSUME NEW r \in Receivers, Recv(r) \/ RecvResume(r) PROVE LogInv'
    BY <2>1, <2>7, RecvKeepsLog DEF Recv, RecvResume, Threads
  <2>8. ASSUME NEW t \in Threads, SpuriousWakeup(t) PROVE LogInv'
    BY <2>8 DEF SpuriousWakeup, queueVars, LogInv, SameLog, NullEmpty, NoneDropped
  <2>9. ASSUME NEW e \in ErrCodes \cup {NoErr}, SetErrSend(e) \/ SetErrRecv(e) PROVE LogInv'
    BY <2>9 DEF SetErrSend, SetErrRecv, LogInv, SameLog, NullEmpty, NoneDropped
  <2>10. CASE UNCHANGED vars
    BY <2>10 DEF vars, LogInv, SameLog, NullEmpty, NoneDropped
  <2> QED BY <2>2, <2>3, <2>4, <2>5, <2>6, <2>7, <2>8, <2>9, <2>10 DEF Next
<1>3. TypeOK /\ LogInv => MessagesAccountedFor
  <2> SUFFICES ASSUME TypeOK, LogInv PROVE Conservation /\ NoLeak
    BY DEF MessagesAccountedFor
  <2>1. Conservation BY SameLogConserves DEF LogInv
  <2>2. NoLeak BY DEF LogInv, SameLog, NullEmpty, NoneDropped, NoLeak, TypeOK
  <2> QED BY <2>1, <2>2
<1> QED BY <1>1, <1>2, <1>3, TypeInv, WakeInvariant, PTL DEF Spec

-----------------------------------------------------------------------------
(* The queue is a channel                                                  *)

Blocked == {t \in Threads : pc[t] # "idle"}
Calling == Senders \ {t \in Senders : pc[t] = "idle"}

\* The bound on messages leaves room for the sends that are blocked.
RoomToSend == Len(sent) + Cardinality(Calling) <= MaxSend

LEMMA CallingIsFinite ==
    /\ IsFiniteSet(Calling) /\ Cardinality(Calling) \in Nat
    /\ Cardinality(Calling)' \in Nat
<1>1. Calling \in SUBSET Senders /\ Calling' \in SUBSET Senders BY DEF Calling
<1> QED BY <1>1, ThreadsAssumption, FS_Subset, FS_CardinalityType

\* A thread that returns and signals the other side.
LEMMA SignalUnblocks ==
    ASSUME NEW T \in {Senders, Receivers}, NEW t \in Threads \ T, TypeOK, Signal(t, T)
    PROVE  /\ Blocked' = Blocked \ {t}
           /\ Calling' = Calling \ {t}
<1>1. \A u \in Threads : pc'[u] # "idle" <=> pc[u] # "idle" /\ u # t
  <2>1. CASE Asleep(T) = {}
    BY <2>1 DEF Signal, TypeOK, Threads
  <2>2. CASE Asleep(T) # {}
    <3>1. PICK u \in Asleep(T) : pc' = [pc EXCEPT ![t] = "idle", ![u] = "woken"]
      BY <2>2 DEF Signal
    <3>2. u \in Threads /\ u # t /\ pc[u] # "idle"
      BY DEF Asleep, Threads
    <3> QED BY <3>1, <3>2 DEF TypeOK
  <2> QED BY <2>1, <2>2
<1> QED BY <1>1 DEF Blocked, Calling, Threads

\* A thread that returns and signals nobody, or falls asleep.
LEMMA OneUnblocks ==
    ASSUME NEW t \in Threads, NEW p \in PcSet, TypeOK, pc' = [pc EXCEPT ![t] = p]
    PROVE  /\ Blocked' = IF p = "idle" THEN Blocked \ {t} ELSE Blocked \cup {t}
           /\ Calling' = IF p = "idle" \/ t \notin Senders THEN Calling \ {t} ELSE Calling \cup {t}
BY DEF Blocked, Calling, Threads, TypeOK

\* Threads that are woken are still in their calls.
LEMMA WakingKeepsBlocked ==
    ASSUME TypeOK,
           \A t \in Threads : pc'[t] = pc[t] \/ (pc[t] = "asleep" /\ pc'[t] = "woken")
    PROVE  Blocked' = Blocked /\ Calling' = Calling
BY DEF Blocked, Calling, Threads

LEMMA BroadcastKeepsBlocked ==
    ASSUME TypeOK, NEW T \in {Senders, Receivers}, Broadcast(T)
    PROVE  Blocked' = Blocked /\ Calling' = Calling
<1>1. \A t \in Threads : pc'[t] = pc[t] \/ (pc[t] = "asleep" /\ pc'[t] = "woken")
  BY DEF Broadcast, Asleep
<1> QED BY <1>1, WakingKeepsBlocked

\* av_thread_message_queue_send, called or awoken, is a send of the channel: it puts a
\* message of the bound, fails, blocks, or blocks again, which the channel does not see.
LEMMA SendIsSend ==
    ASSUME TypeOK, TypeOK', RoomToSend, mq = "queue",
           NEW s \in Senders, NEW b \in BOOLEAN, SendLocked(s, b),
           \/ pc[s] = "idle" /\ Len(sent) + Cardinality(Calling) < MaxSend
           \/ pc[s] = "woken" /\ b = FALSE
    PROVE  /\ RoomToSend'
           /\ Channel!Put(s) \/ Channel!SendFails(s) \/ Channel!Cannot(s)
                 \/ UNCHANGED Channel!vars
<1> USE MaxSendAssumption, CallingIsFinite
<1>0. /\ s \in Threads /\ s \notin Receivers /\ Len(sent) \in Nat
      /\ s \in Calling <=> pc[s] # "idle"
      /\ s \in Blocked <=> pc[s] # "idle"
  BY ThreadsAssumption DEF Threads, Calling, Blocked, TypeOK
<1>1. /\ Cardinality(Calling \ {s}) = IF s \in Calling THEN Cardinality(Calling) - 1
                                                       ELSE Cardinality(Calling)
      /\ Cardinality(Calling \cup {s}) = IF s \in Calling THEN Cardinality(Calling)
                                                          ELSE Cardinality(Calling) + 1
  BY FS_AddElement, FS_RemoveElement
<1>2. CASE err_send = NoErr /\ NoSpace
  <2>1. /\ \/ b = TRUE /\ Return(s, "EAGAIN") /\ pc' = [pc EXCEPT ![s] = "idle"]
           \/ b = FALSE /\ pc' = [pc EXCEPT ![s] = "asleep"] /\ UNCHANGED ret
        /\ UNCHANGED <<mq, fifo, err_send, err_recv, sent>>
    BY <1>2 DEF SendLocked, queueVars
  <2>2. Len(fifo) = NElem
    BY <1>2, NElemAssumption DEF NoSpace, TypeOK
  <2>3. CASE b = TRUE
    <3>1. pc[s] = "idle" /\ Blocked' = Blocked \ {s} /\ Calling' = Calling \ {s}
          /\ ret' = [to |-> s, code |-> "EAGAIN"]
      BY <1>0, <2>1, <2>3, OneUnblocks DEF PcSet, Return
    <3>2. RoomToSend' BY <1>0, <1>1, <2>1, <3>1 DEF RoomToSend
    <3>3. Channel!Cannot(s)
      BY <1>0, <1>2, <2>1, <2>2, <3>1 DEF Channel!Cannot, Channel!Finish, Blocked
    <3> QED BY <3>2, <3>3
  <2>4. CASE b = FALSE
    <3>1. Blocked' = Blocked \cup {s} /\ Calling' = Calling \cup {s} /\ UNCHANGED ret
      BY <1>0, <2>1, <2>4, OneUnblocks DEF PcSet
    <3>2. RoomToSend' BY <1>0, <1>1, <2>1, <3>1 DEF RoomToSend
    <3>3. CASE pc[s] = "idle"
      <4>1. Channel!Cannot(s)
        BY <1>0, <1>2, <2>1, <2>2, <3>1, <3>3 DEF Channel!Cannot, Blocked
      <4> QED BY <3>2, <4>1
    <3>4. CASE pc[s] # "idle"
      <4>1. Blocked' = Blocked BY <1>0, <3>1, <3>4
      <4>2. UNCHANGED Channel!vars BY <2>1, <3>1, <4>1 DEF Channel!vars, Blocked
      <4> QED BY <3>2, <4>2
    <3> QED BY <3>3, <3>4
  <2> QED BY <2>3, <2>4
<1>3. CASE err_send # NoErr
  <2>1. /\ pc' = [pc EXCEPT ![s] = "idle"] /\ ret' = [to |-> s, code |-> err_send]
        /\ UNCHANGED <<mq, fifo, err_send, err_recv, sent>>
    BY <1>3 DEF SendLocked, Return, queueVars
  <2>2. Blocked' = Blocked \ {s} /\ Calling' = Calling \ {s}
    BY <1>0, <2>1, OneUnblocks DEF PcSet
  <2>3. RoomToSend' BY <1>0, <1>1, <2>1, <2>2 DEF RoomToSend
  <2>4. Channel!SendFails(s)
    BY <1>3, <2>1, <2>2 DEF Channel!SendFails, Channel!Finish, Blocked
  <2> QED BY <2>3, <2>4
<1>4. CASE err_send = NoErr /\ ~NoSpace
  <2> DEFINE msg == [src |-> s, num |-> Len(sent) + 1]
  <2>1. /\ fifo' = Append(fifo, msg) /\ sent' = Append(sent, msg)
        /\ Signal(s, Receivers) /\ ret' = [to |-> s, code |-> "ok"]
        /\ UNCHANGED <<mq, err_send, err_recv>>
    BY <1>4 DEF SendLocked, SignalReceiver, Return
  <2>2. Blocked' = Blocked \ {s} /\ Calling' = Calling \ {s}
    BY <1>0, <2>1, SignalUnblocks
  <2>3. Len(sent') = Len(sent) + 1
    BY <2>1 DEF TypeOK
  <2>4. RoomToSend' BY <1>0, <1>1, <2>2, <2>3 DEF RoomToSend
  <2>5. msg \in [src : Senders, num : 1..MaxSend] /\ msg.src = s
    <3>1. Cardinality(Calling \ {s}) \in Nat
      BY FS_RemoveElement, FS_CardinalityType
    <3>2. Len(sent) + 1 <= MaxSend
      BY <1>0, <1>1, <3>1 DEF RoomToSend
    <3> QED BY <1>0, <3>2
  <2>6. Len(fifo) < NElem
    BY <1>4, NElemAssumption DEF NoSpace, TypeOK
  <2> HIDE DEF msg
  <2>7. Channel!Put(s)
    BY <1>4, <2>1, <2>2, <2>5, <2>6
    DEF Channel!Put, Channel!CanSend, Channel!Finish, Blocked
  <2> QED BY <2>4, <2>7
<1> QED BY <1>2, <1>3, <1>4

\* av_thread_message_queue_recv, called or awoken, is a receive of the channel.
LEMMA RecvIsRecv ==
    ASSUME TypeOK, RoomToSend, mq = "queue",
           NEW r \in Receivers, NEW b \in BOOLEAN, RecvLocked(r, b),
           pc[r] = "idle" \/ (pc[r] = "woken" /\ b = FALSE)
    PROVE  /\ RoomToSend'
           /\ Channel!Take(r) \/ Channel!RecvFails(r) \/ Channel!Cannot(r)
                 \/ UNCHANGED Channel!vars
<1>0. /\ r \in Threads /\ r \notin Senders /\ r \notin Calling /\ Calling \ {r} = Calling
      /\ r \in Blocked <=> pc[r] # "idle"
  BY ThreadsAssumption DEF Threads, Calling, Blocked
<1>1. CASE err_recv = NoErr /\ fifo = <<>>
  <2>1. /\ \/ b = TRUE /\ Return(r, "EAGAIN") /\ pc' = [pc EXCEPT ![r] = "idle"]
           \/ b = FALSE /\ pc' = [pc EXCEPT ![r] = "asleep"] /\ UNCHANGED ret
        /\ UNCHANGED <<mq, fifo, err_send, err_recv, sent>>
    BY <1>1 DEF RecvLocked, RecvEnds, queueVars
  <2>2. CASE b = TRUE
    <3>1. pc[r] = "idle" /\ Blocked' = Blocked \ {r} /\ Calling' = Calling
          /\ ret' = [to |-> r, code |-> "EAGAIN"]
      BY <1>0, <2>1, <2>2, OneUnblocks DEF PcSet, Return
    <3>2. Channel!Cannot(r)
      BY <1>0, <1>1, <2>1, <3>1 DEF Channel!Cannot, Channel!CanRecv, Channel!Finish, Blocked
    <3> QED BY <2>1, <3>1, <3>2 DEF RoomToSend
  <2>3. CASE b = FALSE
    <3>1. Blocked' = Blocked \cup {r} /\ Calling' = Calling /\ UNCHANGED ret
      BY <1>0, <2>1, <2>3, OneUnblocks DEF PcSet
    <3>2. RoomToSend' BY <2>1, <3>1 DEF RoomToSend
    <3>3. CASE pc[r] = "idle"
      <4>1. Channel!Cannot(r)
        BY <1>0, <1>1, <2>1, <3>1, <3>3 DEF Channel!Cannot, Channel!CanRecv, Blocked
      <4> QED BY <3>2, <4>1
    <3>4. CASE pc[r] # "idle"
      <4>1. Blocked' = Blocked BY <1>0, <3>1, <3>4
      <4>2. UNCHANGED Channel!vars BY <2>1, <3>1, <4>1 DEF Channel!vars, Blocked
      <4> QED BY <3>2, <4>2
    <3> QED BY <3>3, <3>4
  <2> QED BY <2>2, <2>3
<1>2. CASE err_recv # NoErr /\ fifo = <<>>
  <2>1. /\ pc' = [pc EXCEPT ![r] = "idle"] /\ ret' = [to |-> r, code |-> err_recv]
        /\ UNCHANGED <<mq, fifo, err_send, err_recv, sent>>
    BY <1>2 DEF RecvLocked, RecvEnds, Return, queueVars
  <2>2. Blocked' = Blocked \ {r} /\ Calling' = Calling
    BY <1>0, <2>1, OneUnblocks DEF PcSet
  <2>3. Channel!RecvFails(r)
    BY <1>2, <2>1, <2>2 DEF Channel!RecvFails, Channel!CanRecv, Channel!Finish, Blocked
  <2> QED BY <2>1, <2>2, <2>3 DEF RoomToSend
<1>3. CASE fifo # <<>>
  <2>1. /\ fifo' = Tail(fifo) /\ Signal(r, Senders) /\ ret' = [to |-> r, code |-> "ok"]
        /\ UNCHANGED <<mq, err_send, err_recv, sent>>
    BY <1>3 DEF RecvLocked, RecvEnds, SignalSender, Return
  <2>2. Blocked' = Blocked \ {r} /\ Calling' = Calling
    BY <1>0, <2>1, SignalUnblocks
  <2>3. Channel!Take(r)
    BY <1>3, <2>1, <2>2 DEF Channel!Take, Channel!CanRecv, Channel!Finish, Blocked
  <2> QED BY <2>1, <2>2, <2>3 DEF RoomToSend
<1> QED BY <1>1, <1>2, <1>3

\* The other operations are those of the channel, or invisible to it.
LEMMA OthersAreChannelSteps ==
    ASSUME TypeOK, RoomToSend,
           \/ Alloc \/ SetFreeFunc \/ Flush \/ Free
           \/ \E t \in Threads : SpuriousWakeup(t)
           \/ \E e \in ErrCodes \cup {NoErr} : SetErrSend(e) \/ SetErrRecv(e)
           \/ UNCHANGED vars
    PROVE  /\ RoomToSend'
           /\ Channel!Open \/ Channel!Close \/ Channel!Discard \/ Channel!SetErrors
                 \/ UNCHANGED Channel!vars
<1>1. CASE Alloc
  <2>1. /\ mq = "null" /\ mq' = "queue" /\ fifo' = <<>> /\ err_send' = NoErr
        /\ err_recv' = NoErr /\ ret' = [to |-> "nobody", code |-> "none"]
        /\ UNCHANGED pc /\ sent' = <<>> /\ Len(sent') = 0 /\ Len(sent) \in Nat
    BY <1>1 DEF Alloc, TypeOK
  <2>2. Blocked' = Blocked /\ Calling' = Calling BY <2>1 DEF Blocked, Calling
  <2>3. RoomToSend' BY <2>1, <2>2, CallingIsFinite, MaxSendAssumption DEF RoomToSend
  <2>4. Channel!Open BY <2>1, <2>2 DEF Channel!Open, Blocked
  <2> QED BY <2>3, <2>4
<1>2. CASE SetFreeFunc
  <2>1. UNCHANGED <<mq, fifo, err_send, err_recv, pc, ret, sent>> BY <1>2 DEF SetFreeFunc
  <2>2. Blocked' = Blocked /\ Calling' = Calling BY <2>1 DEF Blocked, Calling
  <2> QED BY <2>1, <2>2 DEF RoomToSend, Channel!vars, Blocked
<1>3. CASE Flush
  <2>1. /\ mq = "queue" /\ fifo' = <<>> /\ Broadcast(Senders)
        /\ UNCHANGED <<mq, err_send, err_recv, ret, sent>>
    BY <1>3 DEF Flush
  <2>2. Blocked' = Blocked /\ Calling' = Calling BY <2>1, BroadcastKeepsBlocked
  <2>3. Channel!Discard BY <2>1, <2>2 DEF Channel!Discard, Blocked
  <2> QED BY <2>1, <2>2, <2>3 DEF RoomToSend
<1>4. CASE Free
  <2>1. /\ mq = "queue" /\ mq' = "null" /\ fifo' = <<>> /\ \A t \in Threads : pc[t] = "idle"
        /\ UNCHANGED <<err_send, err_recv, pc, ret, sent>>
    BY <1>4 DEF Free
  <2>2. Blocked = {} /\ Blocked' = Blocked /\ Calling' = Calling
    BY <2>1 DEF Blocked, Calling
  <2>3. Channel!Close BY <2>1, <2>2 DEF Channel!Close, Blocked
  <2> QED BY <2>1, <2>2, <2>3 DEF RoomToSend
<1>5. ASSUME NEW t \in Threads, SpuriousWakeup(t)
      PROVE  RoomToSend' /\ UNCHANGED Channel!vars
  <2>1. /\ pc[t] = "asleep" /\ pc' = [pc EXCEPT ![t] = "woken"]
        /\ UNCHANGED <<mq, fifo, err_send, err_recv, ret, sent>>
    BY <1>5 DEF SpuriousWakeup, queueVars
  <2>2. \A u \in Threads : pc'[u] = pc[u] \/ (pc[u] = "asleep" /\ pc'[u] = "woken")
    BY <2>1 DEF TypeOK
  <2>3. Blocked' = Blocked /\ Calling' = Calling BY <2>2, WakingKeepsBlocked
  <2> QED BY <2>1, <2>3 DEF RoomToSend, Channel!vars, Blocked
<1>6. ASSUME NEW e \in ErrCodes \cup {NoErr}, SetErrSend(e) \/ SetErrRecv(e)
      PROVE  RoomToSend' /\ Channel!SetErrors
  <2>1. /\ mq = "queue" /\ UNCHANGED <<mq, fifo, ret, sent>>
        /\ \/ err_send' = e /\ UNCHANGED err_recv
           \/ err_recv' = e /\ UNCHANGED err_send
    BY <1>6 DEF SetErrSend, SetErrRecv
  <2>2. Blocked' = Blocked /\ Calling' = Calling
    BY <1>6, BroadcastKeepsBlocked DEF SetErrSend, SetErrRecv
  <2> QED BY <2>1, <2>2 DEF RoomToSend, Channel!SetErrors, Blocked
<1>7. CASE UNCHANGED vars
  <2>1. UNCHANGED <<mq, fifo, err_send, err_recv, pc, ret, sent>> BY <1>7 DEF vars
  <2>2. Blocked' = Blocked /\ Calling' = Calling BY <2>1 DEF Blocked, Calling
  <2> QED BY <2>1, <2>2 DEF RoomToSend, Channel!vars, Blocked
<1> QED BY <1>1, <1>2, <1>3, <1>4, <1>5, <1>6, <1>7

\* Every step of threadmessage.c under its mutex and condition variables is a step of the
\* channel that threadmessage.h promises, or one its callers cannot see.
THEOREM StepsOfChannel == Spec => Channel!Init /\ [][Channel!Next]_(Channel!vars)
<1>1. Init => Channel!Init /\ RoomToSend
  <2> SUFFICES ASSUME Init PROVE Channel!Init /\ RoomToSend
    OBVIOUS
  <2>1. /\ mq = "null" /\ fifo = <<>> /\ err_send = NoErr /\ err_recv = NoErr
        /\ ret = [to |-> "nobody", code |-> "none"] /\ sent = <<>> /\ Len(sent) = 0
        /\ \A t \in Threads : pc[t] = "idle"
    BY DEF Init
  <2>2. Blocked = {} /\ Calling = {} BY <2>1 DEF Blocked, Calling, Threads
  <2>3. RoomToSend BY <2>1, <2>2, FS_EmptySet, MaxSendAssumption DEF RoomToSend
  <2>4. Channel!Init BY <2>1, <2>2 DEF Channel!Init, Blocked
  <2> QED BY <2>3, <2>4
<1>2. TypeOK /\ TypeOK' /\ WakeInv /\ RoomToSend /\ [Next]_vars
         => RoomToSend' /\ [Channel!Next]_(Channel!vars)
  <2> SUFFICES ASSUME TypeOK, TypeOK', WakeInv, RoomToSend, [Next]_vars
               PROVE  RoomToSend' /\ (Channel!Next \/ UNCHANGED Channel!vars)
    OBVIOUS
  <2>1. \A t \in Threads : pc[t] # "idle" => mq = "queue"
    BY DEF WakeInv, NullIdle, TypeOK
  <2>2. ASSUME NEW s \in Senders, Send(s) \/ SendResume(s)
        PROVE  RoomToSend' /\ (Channel!Next \/ UNCHANGED Channel!vars)
    <3>1. /\ mq = "queue"
          /\ \E b \in BOOLEAN :
                /\ SendLocked(s, b)
                /\ \/ pc[s] = "idle" /\ Len(sent) + Cardinality(Calling) < MaxSend
                   \/ pc[s] = "woken" /\ b = FALSE
      BY <2>1, <2>2 DEF Send, SendResume, Calling, Threads
    <3>2. /\ RoomToSend'
          /\ Channel!Put(s) \/ Channel!SendFails(s) \/ Channel!Cannot(s)
                \/ UNCHANGED Channel!vars
      BY <3>1, SendIsSend
    <3> QED BY <3>2 DEF Channel!Next, Channel!Threads
  <2>3. ASSUME NEW r \in Receivers, Recv(r) \/ RecvResume(r)
        PROVE  RoomToSend' /\ (Channel!Next \/ UNCHANGED Channel!vars)
    <3>1. /\ mq = "queue"
          /\ \E b \in BOOLEAN :
                RecvLocked(r, b) /\ (pc[r] = "idle" \/ (pc[r] = "woken" /\ b = FALSE))
      BY <2>1, <2>3 DEF Recv, RecvResume, Threads
    <3>2. /\ RoomToSend'
          /\ Channel!Take(r) \/ Channel!RecvFails(r) \/ Channel!Cannot(r)
                \/ UNCHANGED Channel!vars
      BY <3>1, RecvIsRecv
    <3> QED BY <3>2 DEF Channel!Next, Channel!Threads
  <2>4. CASE \/ Alloc \/ SetFreeFunc \/ Flush \/ Free
             \/ \E t \in Threads : SpuriousWakeup(t)
             \/ \E e \in ErrCodes \cup {NoErr} : SetErrSend(e) \/ SetErrRecv(e)
             \/ UNCHANGED vars
    BY <2>4, OthersAreChannelSteps DEF Channel!Next
  <2> QED BY <2>2, <2>3, <2>4 DEF Next
<1> QED BY <1>1, <1>2, TypeInv, WakeInvariant, PTL DEF Spec
=============================================================================
