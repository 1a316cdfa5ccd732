--------------------------- MODULE FifoMuxerProofs ---------------------------
(***************************************************************************)
(* Theorems about FifoMuxer, for all sets of options, any number of packets*)
(* and any number of errors of the actual muxer.                           *)
(***************************************************************************)
EXTENDS FifoMuxer, TLAPS

MessageSet == [type : {"header", "packet", "flush"}, n : Nat, key : BOOLEAN,
               rescaled : BOOLEAN]

\* The types, with those of the messages; a consumer that recovers does so from an
\* error; and the consumer only starts with the header.
Types ==
    /\ TypeOK
    /\ msg \in MessageSet /\ sending \in MessageSet /\ queue \in Seq(MessageSet)
    /\ written <= last
    /\ cpc \in {"recover", "attempt", "failed", "giveUp"} => err # "ok"
    /\ upc = "init" => cpc = "none"
    /\ cpc = "none" => msg = Header

\* No packet has a number that was not given out yet.
Numbered ==
    /\ msg.n <= sent /\ sending.n <= sent
    /\ \A k \in 1..Len(queue) : queue[k].n <= sent

OrderInv == Types /\ Numbered /\ Ordered

-----------------------------------------------------------------------------
\* The values of the options in use.
LEMMA OptionTypes ==
    ASSUME TypeOK
    PROVE  /\ queue_size \in Nat /\ queue_size > 0 /\ max_recovery_attempts \in Nat
           /\ drop_pkts_on_overflow \in BOOLEAN /\ restart_with_keyframe \in BOOLEAN
           /\ UnknownOption \in BOOLEAN
           /\ Errors \subseteq {"temporary", "again", "permanent", "exit"}
BY OptionsAssumption
DEF TypeOK, queue_size, max_recovery_attempts, drop_pkts_on_overflow,
    restart_with_keyframe, UnknownOption, Errors

\* An error of the actual muxer is counted up to its bound.
LEMMA FailsBounded ==
    ASSUME TypeOK, NEW ret, Fails(ret)
    PROVE  errors' \in 0..MaxErrors
BY BoundsAssumption DEF TypeOK, Fails

LEMMA HeaderFailsBounded ==
    ASSUME TypeOK, NEW ret, HeaderFails(ret)
    PROVE  errors' \in 0..MaxErrors /\ (ret \in Errors \/ ret = "permanent")
BY FailsBounded DEF HeaderFails, Fails

\* What writing a message can change: never the number of the message; and its
\* packet is written at most once, when that succeeds.
LEMMA WriteMsgEffect ==
    ASSUME OrderInv, NEW dropping \in BOOLEAN, NEW ret \in Errors \cup {"ok", "permanent"},
           WriteMsg(dropping, ret)
    PROVE  /\ drop_until_keyframe' \in BOOLEAN
           /\ errors' \in 0..MaxErrors
           /\ live' \subseteq live
           /\ msg' \in MessageSet /\ msg'.n = msg.n /\ msg'.type = msg.type
           /\ \/ written' = written /\ last' = last
              \/ /\ written' = written + 1 /\ last' = msg.n
                 /\ msg.type = "packet" /\ ret = "ok"
<1>1. CASE /\ \/ ret = "ok" /\ UNCHANGED errors
              \/ msg.type = "flush" /\ Fails(ret)
           /\ drop_until_keyframe' = dropping
           /\ UNCHANGED <<msg, written, last, live>>
  <2>1. errors' \in 0..MaxErrors
    BY <1>1, FailsBounded DEF OrderInv, Types, TypeOK
  <2> QED
    BY <1>1, <2>1 DEF OrderInv, Types
<1>2. CASE /\ ret = "ok"
           /\ FreeMsg
           /\ drop_until_keyframe' = dropping
           /\ UNCHANGED <<msg, written, last, errors>>
  BY <1>2 DEF OrderInv, Types, TypeOK, FreeMsg
<1>3. CASE /\ msg.type = "packet"
           /\ drop_until_keyframe' = FALSE
           /\ msg' = [msg EXCEPT !.rescaled = TRUE]
           /\ \/ /\ ret = "ok" /\ FreeMsg
                 /\ written' = written + 1 /\ last' = msg.n
                 /\ UNCHANGED errors
              \/ Fails(ret) /\ UNCHANGED <<live, written, last>>
  <2>1. msg' \in MessageSet /\ msg'.n = msg.n /\ msg'.type = msg.type
    BY <1>3 DEF OrderInv, Types, MessageSet
  <2>2. errors' \in 0..MaxErrors
    BY <1>3, FailsBounded DEF OrderInv, Types, TypeOK
  <2>3. live' \subseteq live
    BY <1>3 DEF FreeMsg
  <2> QED
    BY <1>3, <2>1, <2>2, <2>3
<1> QED
  BY <1>1, <1>2, <1>3 DEF WriteMsg

\* The same of a dispatch, which may write the header first.
LEMMA DispatchEffect ==
    ASSUME OrderInv, NEW dropping \in BOOLEAN, NEW ret \in Errors \cup {"ok", "permanent"},
           Dispatch(dropping, ret)
    PROVE  /\ drop_until_keyframe' \in BOOLEAN /\ restarted' \in BOOLEAN
           /\ errors' \in 0..MaxErrors
           /\ live' \subseteq live
           /\ msg' \in MessageSet /\ msg'.n = msg.n /\ msg'.type = msg.type
           /\ \/ written' = written /\ last' = last
              \/ /\ written' = written + 1 /\ last' = msg.n
                 /\ msg.type = "packet" /\ ret = "ok"
           /\ \/ header_written' = header_written /\ out' = out
              \/ header_written' = TRUE /\ out' = "open"
<1>1. CASE ~header_written /\ HeaderFails(ret) /\ drop_until_keyframe' = dropping
           /\ UNCHANGED <<header_written, out, msg, restarted, written, last, live>>
  BY <1>1, HeaderFailsBounded DEF OrderInv, Types, TypeOK
<1>2. CASE /\ drop_until_keyframe' = dropping
           /\ header_written' = TRUE /\ out' = "open"
           /\ UNCHANGED <<msg, restarted, written, last, live, errors>>
  BY <1>2 DEF OrderInv, Types, TypeOK
<1>3. CASE /\ header_written' = TRUE /\ out' = "open"
           /\ WriteMsg(dropping, ret)
           /\ restarted' = (restarted /\ written' = written)
  BY <1>3, WriteMsgEffect DEF OrderInv, Types, TypeOK
<1> QED
  BY <1>1, <1>2, <1>3 DEF Dispatch

-----------------------------------------------------------------------------
(* Types is inductive, given the numbers and their order.                  *)

\* The fields of a new FifoContext and FifoThreadContext have their types.
LEMMA TypesInit == Init => Types
<1> SUFFICES ASSUME Init PROVE Types
  OBVIOUS
<1>1. Header \in MessageSet /\ Header.type # "packet"
  BY DEF Header, Message, MessageSet
<1>2. TypeOK
  <2>1. queue_size \in Nat /\ Len(queue) = 0
    BY OptionsAssumption DEF Init, queue_size
  <2>2. 0 \in 0..MaxSend /\ 0 \in 0..MaxErrors /\ NoPts \in NoPts..MaxSend
    BY BoundsAssumption DEF NoPts
  <2>3. sent \in 0..MaxSend /\ errors \in 0..MaxErrors /\ recovery_nr \in Nat
        /\ last_recovery_ts \in NoPts..MaxSend
    BY <2>2 DEF Init
  <2>4. written \in 0..sent /\ last \in 0..sent /\ live \subseteq 1..sent
    BY DEF Init
  <2>5. {overflow_flag, header_written, drop_until_keyframe, restarted} \subseteq BOOLEAN
    BY DEF Init
  <2>6. Len(queue) <= queue_size
    BY <2>1
  <2> QED
    BY <2>3, <2>4, <2>5, <2>6 DEF Init, TypeOK
<1> QED
  BY <1>1, <1>2 DEF Init, Types

\* The empty message, and the request for the header, is a message without a packet.
LEMMA HeaderIsMessage == Header \in MessageSet /\ Header.n = 0 /\ Header.type = "header"
BY DEF Header, Message, MessageSet

\* The steps of the user's thread keep the types.
LEMMA TypesUser ==
    ASSUME OrderInv,
           WriteHeader \/ WritePacket \/ WriteTrailer \/ Deinit \/ Send \/ SetOverflow \/ Join
    PROVE  Types'
<1> USE DEF OrderInv, Types, TypeOK, queue_size, Errors, vars, user, channel, thread, muxer
<1>1. CASE WriteHeader
  BY <1>1 DEF WriteHeader
<1>2. CASE WritePacket
  <2>1. sending' \in MessageSet
    <3>1. ASSUME NEW key \in BOOLEAN PROVE Message("packet", sent + 1, key) \in MessageSet
      BY BoundsAssumption DEF Message, MessageSet
    <3>2. Message("flush", 0, FALSE) \in MessageSet
      BY DEF Message, MessageSet
    <3> QED
      BY <1>2, <3>1, <3>2 DEF WritePacket
  <2>2. /\ sent' \in 0..MaxSend /\ sent <= sent' /\ live' \subseteq 1..sent'
        /\ written \in 0..sent' /\ last \in 0..sent'
    <3>1. CASE sent' = sent + 1 /\ live' = live \cup {sent + 1}
      BY <1>2, <3>1, BoundsAssumption DEF WritePacket
    <3>2. CASE UNCHANGED <<sent, live>>
      BY <3>2
    <3> QED
      BY <1>2, <3>1, <3>2 DEF WritePacket
  <2> QED
    BY <1>2, <2>1, <2>2 DEF WritePacket
<1>3. CASE WriteTrailer
  BY <1>3 DEF WriteTrailer, EndOfInput
<1>4. CASE Deinit
  <2>1. live' \subseteq 1..sent
    BY <1>4 DEF Deinit
  <2>2. queue' \in Seq(MessageSet) /\ Len(queue') = 0
    BY <1>4 DEF Deinit
  <2> QED
    BY <1>4, <2>1, <2>2, OptionTypes DEF Deinit
<1>5. CASE Send
  <2>1. live' \subseteq 1..sent
    BY <1>5 DEF Send
  <2>2. queue' \in Seq(MessageSet) /\ Len(queue') <= queue_size
    <3>1. CASE ~Full /\ queue' = Append(queue, sending)
      BY <3>1, OptionTypes DEF Full
    <3>2. CASE UNCHANGED queue
      BY <3>2
    <3> QED
      BY <1>5, <3>1, <3>2 DEF Send
  <2>3. sending' \in MessageSet /\ upc' \in {"open", "overflow"}
    BY <1>5, HeaderIsMessage DEF Send
  <2> QED
    BY <1>5, <2>1, <2>2, <2>3 DEF Send
<1>6. CASE SetOverflow
  BY <1>6, HeaderIsMessage DEF SetOverflow
<1>7. CASE Join
  BY <1>7 DEF Join
<1> QED
  BY <1>1, <1>2, <1>3, <1>4, <1>5, <1>6, <1>7

\* What is written is newer than what was written before.
LEMMA DispatchOrder ==
    ASSUME OrderInv, NEW dropping \in BOOLEAN, NEW ret \in Errors \cup {"ok", "permanent"},
           Dispatch(dropping, ret), msg.type = "packet" => PacketInHand
    PROVE  /\ written' \in 0..sent /\ last' \in 0..sent /\ written' <= last'
           /\ written' # written => last' > last
<1>1. /\ sent \in Nat /\ written \in 0..sent /\ last \in 0..sent /\ written <= last
      /\ msg.n \in Nat /\ msg.n <= sent
  BY BoundsAssumption DEF OrderInv, Types, TypeOK, Numbered, MessageSet
<1>2. CASE written' = written /\ last' = last
  BY <1>1, <1>2
<1>3. CASE written' = written + 1 /\ last' = msg.n /\ msg.type = "packet"
  <2>1. last < msg.n
    BY <1>3 DEF OrderInv, Ordered
  <2> QED
    BY <1>1, <1>3, <2>1
<1> QED
  BY <1>2, <1>3, DispatchEffect

\* So do the steps that dispatch a message: what is written was given out before.
LEMMA TypesDispatch ==
    ASSUME OrderInv, DispatchMsg \/ Attempt
    PROVE  Types'
<1>1. CASE DispatchMsg
  <2>1. PICK ret \in Errors \cup {"ok", "permanent"} :
            /\ Dispatch(drop_until_keyframe, ret)
            /\ err' = ret
            /\ cpc' = IF ret = "ok" THEN "flag" ELSE "recover"
    BY <1>1 DEF DispatchMsg
  <2>2. drop_until_keyframe \in BOOLEAN
    BY DEF OrderInv, Types, TypeOK
  <2>3. PacketInHand <=> msg.type = "packet"
    BY <1>1 DEF DispatchMsg, PacketInHand
  <2>4. UNCHANGED <<options, user, channel, overflow_flag, recovery_nr, last_recovery_ts>>
    BY <1>1 DEF DispatchMsg
  <2>5. written' \in 0..sent /\ last' \in 0..sent /\ written' <= last'
    BY <2>1, <2>2, <2>3, DispatchOrder
  <2>6. out' \in {"closed", "open"} /\ header_written' \in BOOLEAN /\ live' \subseteq 1..sent
    BY <2>1, <2>2, DispatchEffect DEF OrderInv, Types, TypeOK
  <2>7. /\ drop_until_keyframe' \in BOOLEAN /\ restarted' \in BOOLEAN
        /\ errors' \in 0..MaxErrors /\ msg' \in MessageSet
    BY <2>1, <2>2, DispatchEffect
  <2>8. cpc # "none" /\ upc # "init"
    BY <1>1 DEF DispatchMsg, OrderInv, Types
  <2> QED
    BY <2>1, <2>4, <2>5, <2>6, <2>7, <2>8
    DEF OrderInv, Types, TypeOK, user, channel, queue_size, Errors
<1>2. CASE Attempt
  <2>1. PICK ret \in Errors \cup {"ok", "permanent"} :
            /\ Dispatch(DropsToKeyframe, ret)
            /\ \/ err' = err
               \/ ret # "ok" /\ err' = ret
            /\ recovery_nr' \in {0, recovery_nr + 1}
            /\ last_recovery_ts' \in {NoPts, last_recovery_ts, msg.n}
            /\ cpc' \in {"flag", "giveUp", "failed", "trailer"}
            /\ err_send' \in {err_send, ret}
            /\ ret = "ok" => err_send' = err_send
    BY <1>2 DEF Attempt, LastFailure, GiveUp, Recovered
  <2>2. DropsToKeyframe \in BOOLEAN
    BY OptionTypes DEF OrderInv, Types, TypeOK, DropsToKeyframe
  <2>3. PacketInHand <=> msg.type = "packet"
    BY <1>2 DEF Attempt, PacketInHand
  <2>4. UNCHANGED <<options, user, queue, err_recv, overflow_flag>>
    BY <1>2 DEF Attempt
  <2>5. written' \in 0..sent /\ last' \in 0..sent /\ written' <= last'
    BY <2>1, <2>2, <2>3, DispatchOrder
  <2>6. out' \in {"closed", "open"} /\ header_written' \in BOOLEAN /\ live' \subseteq 1..sent
    BY <2>1, <2>2, DispatchEffect DEF OrderInv, Types, TypeOK
  <2>7. /\ drop_until_keyframe' \in BOOLEAN /\ restarted' \in BOOLEAN
        /\ errors' \in 0..MaxErrors /\ msg' \in MessageSet
    BY <2>1, <2>2, DispatchEffect
  <2>8. cpc = "attempt" /\ err # "ok" /\ upc # "init"
    BY <1>2 DEF Attempt, OrderInv, Types
  <2>9. last_recovery_ts' \in NoPts..MaxSend
    BY <2>1, BoundsAssumption DEF OrderInv, Types, TypeOK, Numbered, MessageSet, NoPts
  <2>10. recovery_nr' \in Nat
    BY <2>1 DEF OrderInv, Types, TypeOK
  <2> QED
    BY <2>1, <2>4, <2>5, <2>6, <2>7, <2>8, <2>9, <2>10
    DEF OrderInv, Types, TypeOK, user, queue_size, Errors
<1> QED
  BY <1>1, <1>2

\* So do the other steps of the consumer.
LEMMA TypesConsumer ==
    ASSUME OrderInv,
           \/ Unrecoverable \/ CloseOutput \/ DropMsg \/ FailAttempt \/ RetryAttempt
           \/ CheckOverflow \/ Receive \/ Trailer
    PROVE  Types'
<1> USE DEF OrderInv, Types, TypeOK, queue_size, Errors, user, channel, thread, muxer
<1>1. CASE Unrecoverable
  <2>1. /\ UNCHANGED <<options, user, queue, err_recv, overflow_flag, msg, err, header_written,
                       recovery_nr, last_recovery_ts, drop_until_keyframe, out, restarted,
                       written, last, errors>>
        /\ live' \subseteq live /\ cpc' \in {"trailer", "flag", "spin"}
        /\ err_send' = err_send \/ (err_send' = err /\ cpc = "recover")
    BY <1>1 DEF Unrecoverable, GiveUp, FreeMsg
  <2>2. err_send' \in Errors \cup {"none", "eof", "permanent"}
    BY <2>1
  <2>3. TypeOK'
    BY <2>1, <2>2
  <2>4. UNCHANGED <<msg, sending, queue, written, last, err, upc>> /\ upc # "init"
    BY <2>1, <1>1 DEF Unrecoverable
  <2> HIDE DEF TypeOK
  <2> QED
    BY <2>1, <2>3, <2>4
<1>2. CASE CloseOutput
  BY <1>2 DEF CloseOutput, Closed
<1>3. CASE DropMsg
  BY <1>3 DEF DropMsg, FreeMsg
<1>4. CASE FailAttempt
  BY <1>4 DEF FailAttempt, GiveUp, FreeMsg
<1>5. CASE RetryAttempt
  BY <1>5 DEF RetryAttempt, FreeMsg
<1>6. CASE CheckOverflow
  <2>1. queue' \in Seq(MessageSet) /\ Len(queue') <= queue_size
    <3>1. CASE queue' = <<>>
      BY <3>1, OptionTypes
    <3>2. CASE UNCHANGED queue
      BY <3>2
    <3> QED
      BY <1>6, <3>1, <3>2 DEF CheckOverflow
  <2>2. live' \subseteq 1..sent
    BY <1>6 DEF CheckOverflow
  <2>3. drop_until_keyframe' \in BOOLEAN
    BY <1>6, OptionTypes DEF CheckOverflow
  <2> QED
    BY <1>6, <2>1, <2>2, <2>3, HeaderIsMessage DEF CheckOverflow
<1>7. CASE Receive
  <2>1. CASE queue # <<>> /\ msg' = Head(queue) /\ queue' = Tail(queue)
    <3>1. msg' \in MessageSet /\ queue' \in Seq(MessageSet) /\ Len(queue') <= queue_size
      BY <2>1, OptionTypes
    <3> QED
      BY <1>7, <2>1, <3>1 DEF Receive
  <2>2. CASE queue = <<>> /\ GiveUp(err_recv) /\ UNCHANGED <<queue, msg, err>>
    BY <1>7, <2>2 DEF Receive, GiveUp
  <2> QED
    BY <1>7, <2>1, <2>2 DEF Receive
<1>8. CASE Trailer
  BY <1>8 DEF Trailer
<1> QED
  BY <1>1, <1>2, <1>3, <1>4, <1>5, <1>6, <1>7, <1>8

-----------------------------------------------------------------------------
(* The order of the packets is inductive.                                  *)

\* Nothing is on its way at the start.
LEMMA OrderInit == Init => Numbered /\ Ordered
BY HeaderIsMessage DEF Init, Numbered, Ordered, PacketInHand, PacketPending

\* The numbers are integers.
LEMMA Numbers ==
    ASSUME OrderInv
    PROVE  /\ sent \in Nat /\ last \in Nat /\ written \in Nat
           /\ last <= sent /\ msg.n \in Nat /\ sending.n \in Nat
           /\ Len(queue) \in Nat
           /\ \A k \in 1..Len(queue) : queue[k] \in MessageSet /\ queue[k].n \in Nat
<1>1. sent \in Nat /\ last \in Nat /\ written \in Nat /\ last <= sent
  BY BoundsAssumption DEF OrderInv, Types, TypeOK
<1>2. \A m \in MessageSet : m.n \in Nat
  BY DEF MessageSet
<1>3. msg \in MessageSet /\ sending \in MessageSet /\ queue \in Seq(MessageSet)
  BY DEF OrderInv, Types
<1> QED
  BY <1>1, <1>2, <1>3

\* A step that leaves the queue and what was written alone, and gives neither thread
\* another packet.
LEMMA OrderKept ==
    ASSUME OrderInv, UNCHANGED <<sent, queue, last>>,
           msg' = msg \/ (msg'.n = msg.n /\ msg'.type = msg.type) \/ msg' = Header,
           sending' = sending \/ sending' = Header,
           PacketInHand' => PacketInHand, PacketPending' => PacketPending
    PROVE  Numbered' /\ Ordered'
<1>1. (PacketInHand' => msg'.n = msg.n) /\ (PacketPending' => sending'.n = sending.n)
  BY HeaderIsMessage DEF PacketInHand, PacketPending
<1>2. Numbered'
  BY Numbers, HeaderIsMessage DEF OrderInv, Numbered
<1>3. Ordered'
  BY <1>1 DEF OrderInv, Ordered
<1> QED
  BY <1>2, <1>3

\* A step that empties the queue.
LEMMA OrderEmptied ==
    ASSUME OrderInv, UNCHANGED <<sent, last>>, queue' = <<>>,
           msg' = msg \/ msg' = Header, sending' = sending,
           PacketInHand' => PacketInHand /\ msg' = msg, PacketPending' => PacketPending
    PROVE  Numbered' /\ Ordered'
<1>1. Numbered'
  BY Numbers, HeaderIsMessage DEF OrderInv, Numbered
<1>2. Ordered'
  BY DEF OrderInv, Ordered
<1> QED
  BY <1>1, <1>2

\* The user's thread gives a new packet a new number and appends it to the queue, or
\* loses it.
LEMMA OrderUser ==
    ASSUME OrderInv,
           WriteHeader \/ WritePacket \/ WriteTrailer \/ Deinit \/ Send \/ SetOverflow \/ Join
    PROVE  Numbered' /\ Ordered'
<1>1. CASE WriteHeader
  <2>1. msg.type # "packet"
    BY <1>1, HeaderIsMessage DEF WriteHeader, OrderInv, Types
  <2>2. ~PacketInHand' /\ ~PacketPending' /\ UNCHANGED <<sent, queue, last, msg, sending>>
    BY <1>1, <2>1 DEF WriteHeader, PacketInHand, PacketPending, channel, muxer
  <2> QED
    BY <2>2, OrderKept
<1>2. CASE WritePacket
  <2>1. UNCHANGED <<queue, last, msg, cpc>> /\ (PacketInHand' <=> PacketInHand)
    BY <1>2 DEF WritePacket, channel, thread, PacketInHand
  <2>2. CASE sent' = sent + 1 /\ sending'.n = sent + 1
    <3>1. Numbered'
      BY <2>1, <2>2, Numbers DEF OrderInv, Numbered
    <3>2. \A k \in 1..Len(queue) : queue[k].n < sending'.n
      BY <2>2, Numbers DEF OrderInv, Numbered
    <3>3. last < sending'.n /\ msg.n < sending'.n
      BY <2>2, Numbers DEF OrderInv, Numbered
    <3>4. Ordered'
      BY <2>1, <3>2, <3>3 DEF OrderInv, Ordered
    <3> QED
      BY <3>1, <3>4
  <2>3. CASE sent' = sent /\ sending'.n = 0 /\ sending'.type = "flush"
    <3>1. Numbered'
      BY <2>1, <2>3, Numbers DEF OrderInv, Numbered
    <3>2. Ordered'
      BY <2>1, <2>3 DEF OrderInv, Ordered, PacketPending
    <3> QED
      BY <3>1, <3>2
  <2> QED
    BY <1>2, <2>2, <2>3 DEF WritePacket, Message
<1>3. CASE WriteTrailer
  BY <1>3, OrderKept DEF WriteTrailer, PacketInHand, PacketPending, thread, muxer
<1>4. CASE Deinit
  BY <1>4, OrderEmptied DEF Deinit, PacketInHand, PacketPending, thread
<1>5. CASE Send
  <2>1. CASE queue' = Append(queue, sending) /\ upc' = "open" /\ sending' = Header
    <3>1. UNCHANGED <<sent, last, msg, cpc>> /\ PacketInHand' = PacketInHand /\ ~PacketPending'
      BY <1>5, <2>1 DEF Send, thread, PacketInHand, PacketPending
    <3>2. /\ queue \in Seq(MessageSet) /\ sending \in MessageSet
          /\ PacketPending <=> sending.type = "packet"
      BY <1>5 DEF Send, PacketPending, OrderInv, Types
    <3>3. /\ Len(queue') = Len(queue) + 1
          /\ \A k \in 1..Len(queue') : \/ k \in 1..Len(queue) /\ queue'[k] = queue[k]
                                       \/ k = Len(queue) + 1 /\ queue'[k] = sending
      BY <2>1, <3>2
    <3>4. Numbered'
      BY <3>1, <3>3, <2>1, HeaderIsMessage, Numbers DEF OrderInv, Numbered
    <3>5. Ordered'
      <4>1. /\ PacketPending => /\ last < sending.n
                                /\ PacketInHand => msg.n < sending.n
                                /\ \A k \in 1..Len(queue) : queue[k].type = "packet" =>
                                      queue[k].n < sending.n
            /\ Len(queue) \in Nat
        BY Numbers DEF OrderInv, Ordered
      <4>2. ASSUME NEW k \in 1..Len(queue'), queue'[k].type = "packet"
            PROVE  last < queue'[k].n /\ (PacketInHand => msg.n < queue'[k].n)
        BY <3>2, <3>3, <4>1, <4>2 DEF OrderInv, Ordered
      <4>3. ASSUME NEW j \in 1..Len(queue'), NEW k \in 1..Len(queue'), j < k,
                   queue'[j].type = "packet", queue'[k].type = "packet"
            PROVE  queue'[j].n < queue'[k].n
        <5>1. j \in 1..Len(queue) /\ queue'[j] = queue[j]
          BY <3>3, <4>1, <4>3
        <5>2. CASE k \in 1..Len(queue) /\ queue'[k] = queue[k]
          BY <4>3, <5>1, <5>2 DEF OrderInv, Ordered
        <5>3. CASE queue'[k] = sending
          BY <3>2, <4>1, <4>3, <5>1, <5>3
        <5> QED
          BY <3>3, <5>2, <5>3
      <4> QED
        BY <3>1, <4>2, <4>3 DEF OrderInv, Ordered
    <3> QED
      BY <3>4, <3>5
  <2>2. CASE UNCHANGED queue
    BY <1>5, <2>2, OrderKept DEF Send, PacketInHand, PacketPending, thread
  <2> QED
    BY <1>5, <2>1, <2>2 DEF Send
<1>6. CASE SetOverflow
  BY <1>6, OrderKept DEF SetOverflow, PacketInHand, PacketPending, thread, channel
<1>7. CASE Join
  BY <1>7, OrderKept DEF Join, PacketInHand, PacketPending, thread, channel, muxer
<1> QED
  BY <1>1, <1>2, <1>3, <1>4, <1>5, <1>6, <1>7

\* A dispatch that succeeds takes its packet out of hand, one that fails writes nothing.
LEMMA OrderDispatch ==
    ASSUME OrderInv, DispatchMsg \/ Attempt
    PROVE  Numbered' /\ Ordered' /\ (written' # written => last' > last)
<1>1. PICK ret \in Errors \cup {"ok", "permanent"}, dropping \in BOOLEAN :
          Dispatch(dropping, ret) /\ (ret = "ok" => cpc' = "flag")
  <2>1. drop_until_keyframe \in BOOLEAN /\ DropsToKeyframe \in BOOLEAN
    BY OptionTypes DEF OrderInv, Types, TypeOK, DropsToKeyframe
  <2>2. CASE DispatchMsg
    BY <2>1, <2>2 DEF DispatchMsg
  <2>3. CASE Attempt
    BY <2>1, <2>3 DEF Attempt, Recovered
  <2> QED
    BY <2>2, <2>3
<1>2. /\ UNCHANGED <<sent, sending, queue, upc>> /\ PacketPending' = PacketPending
      /\ PacketInHand <=> msg.type = "packet"
  BY DEF DispatchMsg, Attempt, user, channel, PacketPending, PacketInHand
<1>3. written' # written => last' > last
  BY <1>1, <1>2, DispatchOrder
<1>4. msg'.n = msg.n /\ msg'.type = msg.type
  BY <1>1, DispatchEffect
<1>5. CASE written' = written /\ last' = last
  <2>1. PacketInHand' => PacketInHand
    BY <1>2, <1>4 DEF PacketInHand
  <2> QED
    BY <1>2, <1>3, <1>4, <1>5, <2>1, OrderKept
<1>6. CASE last' = msg.n /\ msg.type = "packet" /\ cpc' = "flag"
  <2>1. ~PacketInHand' /\ PacketInHand
    BY <1>2, <1>6 DEF PacketInHand
  <2>2. Numbered'
    BY <1>2, <1>4 DEF OrderInv, Numbered
  <2>3. Ordered'
    BY <1>2, <1>4, <1>6, <2>1 DEF OrderInv, Ordered
  <2> QED
    BY <1>3, <2>2, <2>3
<1> QED
  BY <1>1, <1>5, <1>6, DispatchEffect

\* The other steps of the consumer drop the packet in hand, or take the next one when
\* none is in hand.
LEMMA OrderConsumer ==
    ASSUME OrderInv,
           \/ Unrecoverable \/ CloseOutput \/ DropMsg \/ FailAttempt \/ RetryAttempt
           \/ CheckOverflow \/ Receive \/ Trailer
    PROVE  Numbered' /\ Ordered'
<1> USE DEF PacketInHand, PacketPending, user, channel, muxer
<1>1. CASE Unrecoverable \/ CloseOutput \/ DropMsg \/ FailAttempt \/ RetryAttempt \/ Trailer
  <2>1. /\ UNCHANGED <<sent, queue, last, msg, sending, upc>>
        /\ PacketInHand' => PacketInHand
    BY <1>1 DEF Unrecoverable, CloseOutput, DropMsg, FailAttempt, RetryAttempt, Trailer, GiveUp
  <2> QED
    BY <2>1, OrderKept
<1>2. CASE CheckOverflow
  <2>1. /\ UNCHANGED <<sent, last, sending, upc>> /\ msg' = Header /\ ~PacketInHand'
        /\ queue' = <<>> \/ queue' = queue
    BY <1>2, HeaderIsMessage DEF CheckOverflow
  <2> QED
    BY <2>1, OrderKept, OrderEmptied
<1>3. CASE Receive
  <2>1. CASE queue # <<>> /\ msg' = Head(queue) /\ queue' = Tail(queue)
    <3>1. UNCHANGED <<sent, last, sending, upc>> /\ PacketPending' = PacketPending
      BY <1>3 DEF Receive
    <3>2. /\ 1 \in 1..Len(queue) /\ msg' = queue[1] /\ Len(queue') = Len(queue) - 1
          /\ \A k \in 1..Len(queue') : k + 1 \in 1..Len(queue) /\ queue'[k] = queue[k + 1]
          /\ Len(queue) \in Nat
      BY <2>1 DEF OrderInv, Types
    <3>3. Numbered'
      BY <3>1, <3>2 DEF OrderInv, Numbered
    <3>4. ASSUME NEW k \in 1..Len(queue'), queue'[k].type = "packet"
          PROVE  /\ last < queue'[k].n /\ (PacketPending => queue'[k].n < sending.n)
                 /\ PacketInHand' => msg'.n < queue'[k].n
      BY <3>2, <3>4 DEF OrderInv, Ordered
    <3>5. ASSUME NEW j \in 1..Len(queue'), NEW k \in 1..Len(queue'), j < k,
                 queue'[j].type = "packet", queue'[k].type = "packet"
          PROVE  queue'[j].n < queue'[k].n
      <4>1. j + 1 \in 1..Len(queue) /\ k + 1 \in 1..Len(queue) /\ j + 1 < k + 1
        BY <3>2, <3>5
      <4>2. queue'[j] = queue[j + 1] /\ queue'[k] = queue[k + 1]
        BY <3>2
      <4>3. queue[j + 1].type = "packet" /\ queue[k + 1].type = "packet"
        BY <3>5, <4>2
      <4>4. queue[j + 1].n < queue[k + 1].n
        BY <4>1, <4>3 DEF OrderInv, Ordered
      <4> QED
        BY <4>2, <4>4
    <3>6. /\ PacketInHand' => last < msg'.n
          /\ PacketPending => last < sending.n /\ (PacketInHand' => msg'.n < sending.n)
      BY <3>2 DEF OrderInv, Ordered
    <3>7. Ordered'
      BY <3>1, <3>4, <3>5, <3>6 DEF Ordered
    <3> QED
      BY <3>3, <3>7
  <2>2. CASE UNCHANGED <<queue, msg>>
    <3>1. UNCHANGED <<sent, last, sending, upc>>
      BY <1>3 DEF Receive
    <3>2. PacketInHand' => PacketInHand
      BY <1>3, <2>2 DEF Receive, GiveUp, OrderInv, Types
    <3> QED
      BY <2>2, <3>1, <3>2, OrderKept
  <2> QED
    BY <1>3, <2>1, <2>2 DEF Receive
<1> QED
  BY <1>1, <1>2, <1>3

-----------------------------------------------------------------------------
\* OrderInv holds of a fifo muxer that has just been initialised.
LEMMA OrderInvInit == Init => OrderInv
BY TypesInit, OrderInit DEF OrderInv

\* OrderInv is kept by every step of either thread.
LEMMA OrderInvNext == OrderInv /\ [Next]_vars => OrderInv'
<1> SUFFICES ASSUME OrderInv, [Next]_vars PROVE OrderInv'
  OBVIOUS
<1>1. CASE WriteHeader \/ WritePacket \/ WriteTrailer \/ Deinit \/ Send \/ SetOverflow \/ Join
  BY <1>1, TypesUser, OrderUser DEF OrderInv
<1>2. CASE DispatchMsg \/ Attempt
  BY <1>2, TypesDispatch, OrderDispatch DEF OrderInv
<1>3. CASE \/ Unrecoverable \/ CloseOutput \/ DropMsg \/ FailAttempt \/ RetryAttempt
           \/ CheckOverflow \/ Receive \/ Trailer
  BY <1>3, TypesConsumer, OrderConsumer DEF OrderInv
<1>4. CASE UNCHANGED vars
  <2>1. Types'
    BY <1>4 DEF OrderInv, Types, TypeOK, queue_size, Errors, vars, user, channel, thread, muxer
  <2>2. Numbered' /\ Ordered'
    BY <1>4, OrderKept DEF PacketInHand, PacketPending, vars, user, channel, thread, muxer
  <2> QED
    BY <2>1, <2>2 DEF OrderInv
<1> QED
  BY <1>1, <1>2, <1>3, <1>4 DEF Next, InCall, Consumer

\* The queue and the messages stay ordered, whatever fails and is tried again.
THEOREM OrderCorrect == Spec => []OrderInv
BY OrderInvInit, OrderInvNext, PTL DEF Spec

\* The variables keep their types; the queue never grows over its size.
THEOREM TypeCorrect == Spec => []TypeOK
<1>1. OrderInv => TypeOK
  BY DEF OrderInv, Types
<1> QED
  BY <1>1, OrderCorrect, PTL

\* Only dispatches write, and what they write is newer than what was written.
LEMMA OrderStep == OrderInv /\ [Next]_vars => (written' # written => last' > last)
<1> SUFFICES ASSUME OrderInv, [Next]_vars, written' # written PROVE last' > last
  OBVIOUS
<1>1. CASE DispatchMsg \/ Attempt
  BY <1>1, OrderDispatch
<1>2. CASE ~(DispatchMsg \/ Attempt)
  BY <1>2
  DEF Next, InCall, Consumer, WriteHeader, WritePacket, WriteTrailer, Deinit, Send, SetOverflow,
      Join, Unrecoverable, CloseOutput, DropMsg, FailAttempt, RetryAttempt, CheckOverflow,
      Receive, Trailer, vars, muxer
<1> QED
  BY <1>1, <1>2

\* fifo_thread_dispatch_message and fifo_thread_attempt_recovery: packets are written
\* in the order of the calls, and none twice, with any number of packets in the queue
\* and any number of errors and restarts.
THEOREM PacketsInOrderOnce == Spec => InOrderOnce
<1>1. OrderInv /\ [Next]_vars => [written' # written => last' > last]_vars
  BY OrderStep
<1> QED
  BY <1>1, OrderCorrect, PTL DEF Spec, InOrderOnce

-----------------------------------------------------------------------------
(* The output                                                              *)

\* At the start the actual muxer is closed.
LEMMA OutputInit == Init => OutputProtocol
BY DEF Init, OutputProtocol

\* Every step keeps header_written and the state of the actual muxer together.
LEMMA OutputNext == OrderInv /\ OutputProtocol /\ [Next]_vars => OutputProtocol'
<1> SUFFICES ASSUME OrderInv, OutputProtocol, [Next]_vars PROVE OutputProtocol'
  OBVIOUS
<1>1. CASE DispatchMsg \/ Attempt
  <2>1. cpc \in {"dispatch", "attempt"} /\ cpc' \notin {"attempt", "done"}
    BY <1>1 DEF DispatchMsg, Attempt, GiveUp, Recovered
  <2>2. PICK ret \in Errors \cup {"ok", "permanent"}, dropping \in BOOLEAN : Dispatch(dropping, ret)
    <3>1. drop_until_keyframe \in BOOLEAN /\ DropsToKeyframe \in BOOLEAN
      BY OptionTypes DEF OrderInv, Types, TypeOK, DropsToKeyframe
    <3> QED
      BY <1>1, <3>1 DEF DispatchMsg, Attempt
  <2>3. \/ header_written' = header_written /\ out' = out
        \/ header_written' = TRUE /\ out' = "open"
    BY <2>2, DispatchEffect
  <2> QED
    BY <2>1, <2>3 DEF OutputProtocol
<1>2. CASE CloseOutput
  BY <1>2 DEF CloseOutput, Closed, OutputProtocol, OrderInv, Types, TypeOK
<1>3. CASE Trailer
  BY <1>3 DEF Trailer, OutputProtocol, OrderInv, Types, TypeOK
<1>4. CASE WriteHeader
  BY <1>4 DEF WriteHeader, muxer, OutputProtocol, OrderInv, Types
<1>5. CASE \/ WritePacket \/ WriteTrailer \/ Deinit \/ Send \/ SetOverflow \/ Join
           \/ UNCHANGED vars
  <2>1. UNCHANGED <<cpc, header_written, out>>
    BY <1>5
    DEF WritePacket, WriteTrailer, Deinit, Send, SetOverflow, Join, vars, thread, muxer
  <2> QED
    BY <2>1 DEF OutputProtocol
<1>6. CASE Unrecoverable \/ DropMsg \/ FailAttempt \/ RetryAttempt \/ CheckOverflow \/ Receive
  <2>1. cpc # "done" /\ cpc' \notin {"attempt", "done"} /\ UNCHANGED <<header_written, out>>
    BY <1>6
    DEF Unrecoverable, DropMsg, FailAttempt, RetryAttempt, CheckOverflow, Receive, GiveUp, muxer
  <2> QED
    BY <2>1 DEF OutputProtocol
<1> QED
  BY <1>1, <1>2, <1>3, <1>4, <1>5, <1>6 DEF Next, InCall, Consumer

\* header_written tells whether the actual muxer is open: its header, packets and
\* trailer come in turn over any number of restarts, and it is closed in the end.
THEOREM OutputCorrect == Spec => []OutputProtocol
BY OrderInvInit, OrderInvNext, OutputInit, OutputNext, PTL DEF Spec

-----------------------------------------------------------------------------
(* The attempts                                                            *)

\* While the consumer may still recover it has an attempt left; and it gives up in an
\* attempt only for an error that it cannot recover from.
AttemptsInv ==
    /\ cpc = "giveUp" => ~Recoverable(err)
    /\ "again" \notin Errors =>
          /\ max_recovery_attempts # 0 =>
                /\ recovery_nr <= max_recovery_attempts
                /\ cpc \notin {"giveUp", "trailer", "done"} => recovery_nr < max_recovery_attempts
          /\ (cpc = "trailer" /\ err_send \notin {"none", "eof"} /\ Recoverable(err_send)) =>
                recovery_nr = max_recovery_attempts

\* At the start no attempt was made.
LEMMA AttemptsInit == Init => AttemptsInv
<1> SUFFICES ASSUME Init PROVE AttemptsInv
  OBVIOUS
<1>1. max_recovery_attempts \in Nat
  BY OptionsAssumption DEF Init, max_recovery_attempts
<1> QED
  BY <1>1 DEF Init, AttemptsInv

\* The attempts are counted by the step that makes them, which gives up at the last one.
LEMMA AttemptsNext == OrderInv /\ AttemptsInv /\ [Next]_vars => AttemptsInv'
<1> SUFFICES ASSUME OrderInv, AttemptsInv, [Next]_vars PROVE AttemptsInv'
  OBVIOUS
<1>1. max_recovery_attempts \in Nat /\ recovery_nr \in Nat
  BY OptionTypes DEF OrderInv, Types, TypeOK
<1>2. options' = options
  BY DEF Next, InCall, Consumer, WriteHeader, WritePacket, WriteTrailer, Deinit, Send,
         SetOverflow, Join, DispatchMsg, Unrecoverable, CloseOutput, DropMsg, Attempt,
         FailAttempt, RetryAttempt, CheckOverflow, Receive, Trailer, vars
<1>3. /\ max_recovery_attempts' = max_recovery_attempts /\ Errors' = Errors
      /\ attempt_recovery' = attempt_recovery /\ recover_any_error' = recover_any_error
  BY <1>2 DEF max_recovery_attempts, Errors, attempt_recovery, recover_any_error
<1>4. /\ err' = err => (Recoverable(err))' = Recoverable(err)
      /\ err_send' = err_send => (Recoverable(err_send))' = Recoverable(err_send)
      /\ err_send' = err => (Recoverable(err_send))' = Recoverable(err)
  BY <1>3 DEF Recoverable
<1>5. CASE Attempt
  <2>1. PICK ret \in Errors \cup {"ok", "permanent"} :
            \/ /\ recovery_nr' = 0 /\ cpc' = "flag"
            \/ /\ ~Recoverable(ret) /\ err' = ret
               /\ recovery_nr' = recovery_nr + 1 /\ cpc' = "giveUp"
            \/ /\ recovery_nr' = recovery_nr + 1
               /\ ret # "ok"
               /\ IF LastAttempt /\ ret # "again" THEN cpc' = "trailer" ELSE cpc' = "failed"
    BY <1>5 DEF Attempt, GiveUp, Recovered
  <2>2. cpc = "attempt"
    BY <1>5 DEF Attempt
  <2>3. CASE recovery_nr' = 0 /\ cpc' = "flag"
    BY <1>1, <1>3, <2>3 DEF AttemptsInv
  <2>4. CASE /\ ~Recoverable(ret) /\ err' = ret
             /\ recovery_nr' = recovery_nr + 1 /\ cpc' = "giveUp"
    <3>1. ~(Recoverable(err))'
      BY <1>3, <2>4 DEF Recoverable
    <3> QED
      BY <1>1, <1>3, <2>2, <2>4, <3>1 DEF AttemptsInv
  <2>5. CASE /\ recovery_nr' = recovery_nr + 1 /\ ret # "ok"
             /\ IF LastAttempt /\ ret # "again" THEN cpc' = "trailer" ELSE cpc' = "failed"
    BY <1>1, <1>3, <2>2, <2>5 DEF AttemptsInv, LastAttempt
  <2> QED
    BY <2>1, <2>3, <2>4, <2>5
<1>6. CASE FailAttempt \/ (Unrecoverable /\ GiveUp(err))
  <2>1. /\ cpc' = "trailer" /\ err_send' = err /\ UNCHANGED recovery_nr
        /\ ~Recoverable(err)
    BY <1>6 DEF Unrecoverable, FailAttempt, GiveUp, AttemptsInv
  <2> QED
    BY <1>1, <1>3, <1>4, <2>1 DEF AttemptsInv
<1>7. CASE Receive
  <2>1. CASE cpc' \in {"dispatch", "recover"}
    BY <1>1, <1>3, <1>7, <2>1 DEF Receive, AttemptsInv
  <2>2. CASE cpc' = "trailer" /\ err_send' = err_recv
    BY <1>1, <1>3, <1>7, <2>2 DEF Receive, AttemptsInv, OrderInv, Types, TypeOK
  <2> QED
    BY <1>7, <2>1, <2>2 DEF Receive, GiveUp
<1>8. CASE \/ DispatchMsg \/ CloseOutput \/ DropMsg \/ RetryAttempt \/ CheckOverflow \/ WriteHeader
           \/ Unrecoverable /\ cpc' \in {"flag", "spin"}
  <2>1. /\ cpc \notin {"giveUp", "trailer", "done"} /\ cpc' \notin {"giveUp", "trailer", "done"}
        /\ UNCHANGED recovery_nr
    BY <1>8
    DEF Unrecoverable, DispatchMsg, CloseOutput, DropMsg, RetryAttempt, CheckOverflow, WriteHeader, OrderInv,
        Types
  <2> QED
    BY <1>1, <1>3, <2>1 DEF AttemptsInv
<1>9. CASE Trailer
  BY <1>1, <1>3, <1>9 DEF Trailer, AttemptsInv
<1>10. CASE \/ WritePacket \/ WriteTrailer \/ Deinit \/ Send \/ SetOverflow \/ Join
            \/ UNCHANGED vars
  <2>1. UNCHANGED <<cpc, err, err_send, recovery_nr>>
    BY <1>10
    DEF WritePacket, WriteTrailer, Deinit, Send, SetOverflow, Join, vars, thread, channel
  <2> QED
    BY <1>1, <1>3, <1>4, <2>1 DEF AttemptsInv
<1>11. Unrecoverable => GiveUp(err) \/ cpc' \in {"flag", "spin"}
  BY DEF Unrecoverable
<1> QED
  BY <1>5, <1>6, <1>7, <1>8, <1>9, <1>10, <1>11 DEF Next, InCall, Consumer

\* max_recovery_attempts bounds the successive attempts, and the output does not fail
\* permanently before them, unless the actual muxer returns AVERROR(EAGAIN).
THEOREM AttemptsCorrect == Spec => []AttemptsBounded
<1>1. AttemptsInv => AttemptsBounded
  BY DEF AttemptsInv, AttemptsBounded
<1> QED
  BY <1>1, OrderInvInit, OrderInvNext, AttemptsInit, AttemptsNext, PTL DEF Spec

-----------------------------------------------------------------------------
(* Nothing is missing                                                      *)

\* What NothingLost says beyond the order.
NothingMissing ==
    KeepsAll => written = last /\ \A n \in (last + 1) .. sent : OnTheWay(n)

\* Nothing makes the consumer skip packets unless they may be dropped; and it gives
\* up for an error and not for a message that came while the output was down.
CalmInv ==
    /\ ~drop_pkts_on_overflow => ~overflow_flag /\ ~drop_until_keyframe /\ upc # "overflow"
    /\ recovery_nr # 0 => attempt_recovery
    /\ cpc \in {"attempt", "failed", "giveUp"} => attempt_recovery
    /\ cpc = "recover" /\ err = "none" => attempt_recovery
    /\ cpc = "giveUp" => err # "none"

\* The options do not change.
LEMMA OptionsKept ==
    ASSUME [Next]_vars
    PROVE  /\ Errors' = Errors
           /\ attempt_recovery => attempt_recovery'
           /\ ~drop_pkts_on_overflow' => ~drop_pkts_on_overflow
<1>1. options' = options
  BY DEF Next, InCall, Consumer, WriteHeader, WritePacket, WriteTrailer, Deinit, Send,
         SetOverflow, Join, DispatchMsg, Unrecoverable, CloseOutput, DropMsg, Attempt,
         FailAttempt, RetryAttempt, CheckOverflow, Receive, Trailer, vars
<1>2. Errors' = Errors
  BY <1>1 DEF Errors
<1>3. (attempt_recovery => attempt_recovery') /\ (~drop_pkts_on_overflow' => ~drop_pkts_on_overflow)
  BY <1>1, Zenon DEF drop_pkts_on_overflow, attempt_recovery
<1> QED
  BY <1>2, <1>3

\* A dispatch that does not drop anything: it writes the packet exactly if it succeeds.
LEMMA DispatchWrites ==
    ASSUME OrderInv, NEW ret \in Errors \cup {"ok", "permanent"}, Dispatch(FALSE, ret)
    PROVE  /\ ~drop_until_keyframe'
           /\ msg'.n = msg.n /\ msg'.type = msg.type
           /\ IF ret = "ok" /\ msg.type = "packet" THEN written' = written + 1 /\ last' = msg.n
                                                   ELSE UNCHANGED <<written, last>>
<1>1. "ok" \notin Errors
  BY OptionTypes DEF OrderInv, Types
<1>2. msg'.n = msg.n /\ msg'.type = msg.type
  BY DispatchEffect
<1>3. ASSUME WriteMsg(FALSE, ret)
      PROVE  /\ ~drop_until_keyframe'
             /\ IF ret = "ok" /\ msg.type = "packet" THEN written' = written + 1 /\ last' = msg.n
                                                     ELSE UNCHANGED <<written, last>>
  <2>1. CASE msg.type # "packet"
    BY <1>3, <2>1 DEF WriteMsg
  <2>2. CASE msg.type = "packet"
    BY <1>1, <1>3, <2>2 DEF WriteMsg, Fails
  <2> QED
    BY <2>1, <2>2
<1> QED
  BY <1>1, <1>2, <1>3 DEF Dispatch, HeaderFails, Fails

LEMMA CalmInit == Init => CalmInv
BY DEF Init, CalmInv

LEMMA CalmNext == OrderInv /\ CalmInv /\ [Next]_vars => CalmInv'
<1> SUFFICES ASSUME OrderInv, CalmInv, [Next]_vars PROVE CalmInv'
  OBVIOUS
<1> USE OptionsKept
<1>1. /\ drop_pkts_on_overflow \in BOOLEAN /\ drop_until_keyframe \in BOOLEAN
      /\ Errors \subseteq {"temporary", "again", "permanent", "exit"}
  BY OptionTypes DEF OrderInv, Types, TypeOK
<1>2. CASE DispatchMsg
  <2>1. PICK ret \in Errors \cup {"ok", "permanent"} :
            /\ Dispatch(drop_until_keyframe, ret) /\ err' = ret
            /\ cpc' = IF ret = "ok" THEN "flag" ELSE "recover"
    BY <1>2 DEF DispatchMsg
  <2>2. ~drop_pkts_on_overflow => ~drop_until_keyframe'
    <3>1. SUFFICES ASSUME ~drop_pkts_on_overflow PROVE ~drop_until_keyframe'
      OBVIOUS
    <3>2. drop_until_keyframe = FALSE
      BY <1>1, <3>1 DEF CalmInv
    <3>3. Dispatch(FALSE, ret)
      BY <2>1, <3>2
    <3> QED
      BY <3>3, DispatchWrites
  <2>3. UNCHANGED <<upc, overflow_flag, recovery_nr>> /\ err' # "none"
    BY <1>1, <1>2, <2>1 DEF DispatchMsg, user
  <2> QED
    BY <2>1, <2>2, <2>3 DEF CalmInv
<1>3. CASE Attempt
  <2>1. PICK ret \in Errors \cup {"ok", "permanent"} :
            /\ Dispatch(DropsToKeyframe, ret)
            /\ err' = err \/ (err' = ret /\ ret # "ok")
            /\ cpc' \in {"flag", "giveUp", "failed", "trailer"}
            /\ cpc' = "giveUp" => err' = ret /\ ret # "ok"
    BY <1>3 DEF Attempt, GiveUp, Recovered
  <2>2. ~drop_pkts_on_overflow => ~drop_until_keyframe'
    <3>1. SUFFICES ASSUME ~drop_pkts_on_overflow PROVE ~drop_until_keyframe'
      OBVIOUS
    <3>2. DropsToKeyframe = FALSE
      BY <1>1, <3>1 DEF CalmInv, DropsToKeyframe
    <3>3. Dispatch(FALSE, ret)
      BY <2>1, <3>2
    <3> QED
      BY <3>3, DispatchWrites
  <2>3. UNCHANGED <<upc, overflow_flag>> /\ attempt_recovery
    BY <1>3 DEF Attempt, user, CalmInv
  <2>4. cpc' = "giveUp" => err' # "none"
    BY <1>1, <2>1
  <2> QED
    BY <2>1, <2>2, <2>3, <2>4 DEF CalmInv
<1>4. CASE CloseOutput
  BY <1>4 DEF CloseOutput, Recoverable, CalmInv, user
<1>5. CASE Send \/ SetOverflow
  BY <1>5 DEF Send, SetOverflow, CalmInv, thread
<1>6. CASE CheckOverflow
  BY <1>6 DEF CheckOverflow, CalmInv, user
<1>7. CASE Receive
  BY <1>7 DEF Receive, GiveUp, CalmInv, user
<1>8. CASE Unrecoverable \/ DropMsg \/ FailAttempt \/ RetryAttempt \/ Trailer
  <2>1. /\ UNCHANGED <<overflow_flag, drop_until_keyframe, upc, recovery_nr, err>>
        /\ cpc' \in {"trailer", "flag", "spin", "done"} \/ (cpc' = "recover" /\ cpc = "failed")
    BY <1>8
    DEF Unrecoverable, DropMsg, FailAttempt, RetryAttempt, Trailer, GiveUp, user
  <2> QED
    BY <2>1 DEF CalmInv
<1>9. CASE WriteHeader
  BY <1>9 DEF WriteHeader, CalmInv
<1>10. CASE WritePacket \/ WriteTrailer \/ Deinit \/ Join \/ UNCHANGED vars
  <2>1. /\ UNCHANGED <<overflow_flag, drop_until_keyframe, recovery_nr, err, cpc>>
        /\ upc' # "overflow" \/ upc' = upc
    BY <1>10 DEF WritePacket, WriteTrailer, Deinit, Join, vars, user, thread
  <2> QED
    BY <2>1 DEF CalmInv
<1> QED
  BY <1>2, <1>3, <1>4, <1>5, <1>6, <1>7, <1>8, <1>9, <1>10 DEF Next, InCall, Consumer

\* What may lose packets later may lose packets for ever.
LEMMA KeptSoFar ==
    ASSUME OrderInv, CalmInv, [Next]_vars, KeepsAll'
    PROVE  KeepsAll
<1>1. ~drop_pkts_on_overflow
  BY OptionsKept DEF KeepsAll
<1>2. \/ UNCHANGED err_send
      \/ err_send' # "none" /\ err_send = "none"
      \/ Unrecoverable \/ FailAttempt \/ Receive \/ Attempt
  BY DEF Next, InCall, Consumer, WriteHeader, WritePacket, WriteTrailer, Deinit, Send,
         SetOverflow, Join, DispatchMsg, CloseOutput, DropMsg, RetryAttempt, CheckOverflow,
         Trailer, vars, channel
<1>3. err_send = "none"
  <2>1. CASE Unrecoverable
    <3>1. ~Recoverable(err) /\ cpc = "recover" /\ err_send' \in {err, err_send}
      BY <2>1 DEF Unrecoverable, GiveUp
    <3>2. err # "none"
      BY <3>1 DEF CalmInv, Recoverable
    <3> QED
      BY <3>1, <3>2 DEF KeepsAll
  <2>2. CASE FailAttempt
    BY <2>2 DEF FailAttempt, GiveUp, CalmInv, KeepsAll
  <2>3. CASE Receive
    BY <2>3 DEF Receive, GiveUp, KeepsAll
  <2>4. CASE Attempt
    <3>1. PICK ret \in Errors \cup {"ok", "permanent"} : err_send' = err_send \/ err_send' = ret
      BY <2>4 DEF Attempt, GiveUp
    <3>2. ret # "none"
      BY OptionTypes DEF OrderInv, Types
    <3> QED
      BY <3>1, <3>2 DEF KeepsAll
  <2> QED
    BY <1>2, <2>1, <2>2, <2>3, <2>4 DEF KeepsAll
<1>4. upc # "closed"
  BY DEF KeepsAll, Next, InCall, Consumer, WriteHeader, WritePacket, WriteTrailer, Deinit, Send,
         SetOverflow, Join, DispatchMsg, Unrecoverable, CloseOutput, DropMsg, Attempt,
         FailAttempt, RetryAttempt, CheckOverflow, Receive, Trailer, vars, user
<1>5. cpc \notin {"giveUp", "spin"}
  <2>1. CASE FailAttempt
    BY <2>1 DEF FailAttempt, GiveUp, CalmInv, KeepsAll
  <2>2. CASE ~FailAttempt
    BY <2>2 DEF KeepsAll, Next, InCall, Consumer, WriteHeader, WritePacket, WriteTrailer, Deinit,
           Send, SetOverflow, Join, DispatchMsg, Unrecoverable, CloseOutput, DropMsg, Attempt,
           RetryAttempt, CheckOverflow, Receive, Trailer, vars, thread, OrderInv, Types
  <2> QED
    BY <2>1, <2>2
<1> QED
  BY <1>1, <1>3, <1>4, <1>5 DEF KeepsAll

\* A step that writes nothing and leaves every packet on its way there.
LEMMA MissingKept ==
    ASSUME NothingMissing, KeepsAll, UNCHANGED <<sent, written, last>>,
           PacketInHand => PacketInHand' /\ msg'.n = msg.n,
           PacketPending => PacketPending' /\ sending'.n = sending.n,
           UNCHANGED queue
    PROVE  NothingMissing'
BY DEF NothingMissing, OnTheWay

LEMMA MissingUser ==
    ASSUME OrderInv, CalmInv, NothingMissing, KeepsAll, KeepsAll',
           WriteHeader \/ WritePacket \/ WriteTrailer \/ Deinit \/ Send \/ SetOverflow \/ Join
    PROVE  NothingMissing'
<1>1. CASE WriteHeader
  BY <1>1, MissingKept DEF WriteHeader, PacketInHand, PacketPending, channel, muxer, OrderInv, Types
<1>2. CASE WritePacket
  <2>1. UNCHANGED <<queue, last, written, msg, cpc>> /\ ~PacketPending
    BY <1>2 DEF WritePacket, channel, thread, PacketPending
  <2>2. CASE sent' = sent + 1 /\ sending'.n = sent + 1 /\ sending'.type = "packet" /\ upc' = "send"
    <3>1. ASSUME NEW n \in (last + 1) .. (sent + 1) PROVE OnTheWay(n)'
      <4>1. CASE n = sent + 1
        BY <2>2, <4>1 DEF OnTheWay, PacketPending
      <4>2. CASE n # sent + 1
        <5>1. n \in (last + 1) .. sent
          BY <3>1, <4>2, Numbers
        <5>2. OnTheWay(n)
          BY <5>1 DEF NothingMissing
        <5> QED
          BY <2>1, <5>2 DEF OnTheWay, PacketInHand
      <4> QED
        BY <4>1, <4>2
    <3> QED
      BY <2>1, <2>2, <3>1 DEF NothingMissing
  <2>3. CASE UNCHANGED sent
    BY <2>1, <2>3, MissingKept DEF PacketInHand
  <2> QED
    BY <1>2, <2>2, <2>3 DEF WritePacket, Message
<1>3. CASE Send
  <2>1. /\ queue' = Append(queue, sending) /\ upc' = "open"
        /\ UNCHANGED <<sent, last, written, msg, cpc>>
    BY <1>3 DEF Send, KeepsAll, thread
  <2>2. /\ Len(queue') = Len(queue) + 1 /\ Len(queue) \in Nat
        /\ \A k \in 1..Len(queue) : k \in 1..Len(queue') /\ queue'[k] = queue[k]
        /\ Len(queue) + 1 \in 1..Len(queue') /\ queue'[Len(queue) + 1] = sending
    BY <2>1 DEF OrderInv, Types
  <2>3. ASSUME NEW n, OnTheWay(n) PROVE OnTheWay(n)'
    <3>1. CASE PacketInHand /\ msg.n = n
      BY <2>1, <3>1 DEF OnTheWay, PacketInHand
    <3>2. CASE \E k \in 1..Len(queue) : queue[k].type = "packet" /\ queue[k].n = n
      BY <2>2, <3>2 DEF OnTheWay
    <3>3. CASE PacketPending /\ sending.n = n
      BY <2>2, <3>3 DEF OnTheWay, PacketPending
    <3> QED
      BY <2>3, <3>1, <3>2, <3>3 DEF OnTheWay
  <2> QED
    BY <2>1, <2>3 DEF NothingMissing
<1>4. CASE WriteTrailer \/ Join
  BY <1>4, MissingKept
  DEF WriteTrailer, Join, PacketInHand, PacketPending, channel, thread, muxer, user
<1>5. CASE SetOverflow
  BY <1>5 DEF SetOverflow, CalmInv, KeepsAll
<1>6. CASE Deinit
  BY <1>6 DEF Deinit, KeepsAll
<1> QED
  BY <1>1, <1>2, <1>3, <1>4, <1>5, <1>6

\* The packet that is written is the next one: it is in hand, and all others are newer.
LEMMA MissingDispatch ==
    ASSUME OrderInv, CalmInv, NothingMissing, KeepsAll, KeepsAll', DispatchMsg \/ Attempt
    PROVE  NothingMissing'
<1>1. PICK ret \in Errors \cup {"ok", "permanent"} :
          /\ Dispatch(FALSE, ret)
          /\ ret = "ok" => cpc' = "flag"
          /\ ret # "ok" => cpc' \in {"recover", "failed"}
  <2>1. drop_until_keyframe = FALSE /\ DropsToKeyframe = FALSE
    BY OptionTypes DEF OrderInv, Types, TypeOK, DropsToKeyframe, CalmInv, KeepsAll
  <2>2. CASE DispatchMsg
    BY <2>1, <2>2 DEF DispatchMsg
  <2>3. CASE Attempt
    <3>1. PICK ret \in Errors \cup {"ok", "permanent"} :
              /\ Dispatch(DropsToKeyframe, ret)
              /\ ret = "ok" => cpc' = "flag"
              /\ ret # "ok" => cpc' \in {"failed", "giveUp"} \/ err_send' = ret
      BY <2>3 DEF Attempt, GiveUp, Recovered
    <3>2. ret # "none"
      BY OptionTypes DEF OrderInv, Types
    <3> QED
      BY <2>1, <3>1, <3>2 DEF KeepsAll
  <2> QED
    BY <2>2, <2>3
<1>2. /\ UNCHANGED <<sent, sending, queue, upc>>
      /\ PacketInHand <=> msg.type = "packet"
  BY DEF DispatchMsg, Attempt, user, channel, PacketInHand
<1>3. CASE ret = "ok" /\ msg.type = "packet"
  <2>1. written' = written + 1 /\ last' = msg.n /\ PacketInHand
    BY <1>1, <1>2, <1>3, DispatchWrites
  <2>2. /\ last < msg.n /\ msg.n <= sent /\ last \in Nat /\ msg.n \in Nat /\ sent \in Nat
    BY <2>1, Numbers DEF OrderInv, Ordered, Numbered
  <2>3. msg.n = last + 1
    <3>1. OnTheWay(last + 1)
      BY <2>2 DEF NothingMissing
    <3>2. ASSUME NEW k \in 1..Len(queue), queue[k].type = "packet", queue[k].n = last + 1
          PROVE  FALSE
      BY <2>1, <2>2, <3>2 DEF OrderInv, Ordered
    <3>3. ASSUME PacketPending, sending.n = last + 1
          PROVE  FALSE
      BY <2>1, <2>2, <3>3 DEF OrderInv, Ordered
    <3> QED
      BY <3>1, <3>2, <3>3 DEF OnTheWay
  <2>4. ASSUME NEW n \in (last' + 1) .. sent PROVE OnTheWay(n)'
    <3>1. n \in (last + 1) .. sent /\ n # msg.n
      BY <2>1, <2>2, <2>4
    <3>2. OnTheWay(n)
      BY <3>1 DEF NothingMissing
    <3> QED
      BY <1>2, <3>1, <3>2 DEF OnTheWay, PacketPending
  <2> QED
    BY <1>2, <2>1, <2>3, <2>4 DEF NothingMissing
<1>4. CASE ~(ret = "ok" /\ msg.type = "packet")
  <2>1. UNCHANGED <<written, last>> /\ msg'.n = msg.n /\ msg'.type = msg.type
    BY <1>1, <1>4, DispatchWrites
  <2>2. PacketInHand => PacketInHand'
    BY <1>1, <1>2, <1>4, <2>1 DEF PacketInHand
  <2> QED
    BY <1>2, <2>1, <2>2, MissingKept DEF PacketPending
<1> QED
  BY <1>3, <1>4

LEMMA MissingConsumer ==
    ASSUME OrderInv, CalmInv, NothingMissing, KeepsAll, KeepsAll',
           \/ Unrecoverable \/ CloseOutput \/ DropMsg \/ FailAttempt \/ RetryAttempt
           \/ CheckOverflow \/ Receive \/ Trailer
    PROVE  NothingMissing'
<1>1. CASE Unrecoverable
  <2>1. ~Recoverable(err) /\ cpc = "recover" /\ err_send' = err
    BY <1>1 DEF Unrecoverable, GiveUp, KeepsAll
  <2>2. err # "none"
    BY <2>1 DEF CalmInv, Recoverable
  <2> QED
    BY <2>1, <2>2 DEF KeepsAll
<1>2. CASE FailAttempt
  BY <1>2 DEF FailAttempt, KeepsAll
<1>3. CASE DropMsg
  BY <1>3 DEF DropMsg, KeepsAll
<1>4. CASE CloseOutput \/ RetryAttempt \/ Trailer
  <2>1. /\ UNCHANGED <<sent, sending, upc, queue, written, last, msg>>
        /\ PacketInHand => PacketInHand'
    BY <1>4 DEF CloseOutput, RetryAttempt, Trailer, PacketInHand, KeepsAll, user, channel
  <2> QED
    BY <2>1, MissingKept DEF PacketPending
<1>5. CASE CheckOverflow
  <2>1. UNCHANGED <<sent, sending, upc, queue, written, last>> /\ ~PacketInHand
    BY <1>5 DEF CheckOverflow, CalmInv, KeepsAll, PacketInHand, user
  <2> QED
    BY <2>1, MissingKept DEF PacketPending
<1>6. CASE Receive
  <2>1. /\ queue # <<>> /\ msg' = Head(queue) /\ queue' = Tail(queue)
        /\ cpc' \in {"dispatch", "recover"} /\ ~PacketInHand
        /\ UNCHANGED <<sent, sending, upc, written, last>>
    BY <1>6 DEF Receive, GiveUp, KeepsAll, PacketInHand, user, muxer
  <2>2. /\ msg' = queue[1] /\ Len(queue') = Len(queue) - 1 /\ Len(queue) \in Nat
        /\ \A k \in 1..Len(queue) : k # 1 => k - 1 \in 1..Len(queue') /\ queue'[k - 1] = queue[k]
    BY <2>1 DEF OrderInv, Types
  <2>3. ASSUME NEW n, OnTheWay(n) PROVE OnTheWay(n)'
    <3>1. CASE \E k \in 1..Len(queue) : queue[k].type = "packet" /\ queue[k].n = n
      <4>1. PICK k \in 1..Len(queue) : queue[k].type = "packet" /\ queue[k].n = n
        BY <3>1
      <4>2. CASE k = 1
        BY <2>1, <2>2, <4>1, <4>2 DEF OnTheWay, PacketInHand
      <4>3. CASE k # 1
        BY <2>2, <4>1, <4>3 DEF OnTheWay
      <4> QED
        BY <4>2, <4>3
    <3>2. CASE PacketPending /\ sending.n = n
      BY <2>1, <3>2 DEF OnTheWay, PacketPending
    <3> QED
      BY <2>1, <2>3, <3>1, <3>2 DEF OnTheWay
  <2> QED
    BY <2>1, <2>3 DEF NothingMissing
<1> QED
  BY <1>1, <1>2, <1>3, <1>4, <1>5, <1>6

\* Without drop_pkts_on_overflow the fifo muxer loses nothing as long as the output has not
\* failed for good (the senders have no error, and the consumer does not spin on an
\* AVERROR(EAGAIN) that it may not recover from): whatever failed and was tried again, the packets written are the
\* first ones sent, and each one after them is in hand, queued or being sent.
THEOREM NothingIsMissing == Spec => []NothingLost
<1>1. Init => NothingMissing
  <2> SUFFICES ASSUME Init PROVE NothingMissing
    OBVIOUS
  <2>1. written = 0 /\ last = 0 /\ sent = 0
    BY DEF Init
  <2> QED
    BY <2>1 DEF NothingMissing
<1>2. OrderInv /\ CalmInv /\ NothingMissing /\ [Next]_vars => NothingMissing'
  <2> SUFFICES ASSUME OrderInv, CalmInv, NothingMissing, [Next]_vars, KeepsAll'
               PROVE  NothingMissing'
    BY DEF NothingMissing
  <2>1. KeepsAll
    BY KeptSoFar
  <2>2. CASE WriteHeader \/ WritePacket \/ WriteTrailer \/ Deinit \/ Send \/ SetOverflow \/ Join
    BY <2>1, <2>2, MissingUser
  <2>3. CASE DispatchMsg \/ Attempt
    BY <2>1, <2>3, MissingDispatch
  <2>4. CASE \/ Unrecoverable \/ CloseOutput \/ DropMsg \/ FailAttempt \/ RetryAttempt
             \/ CheckOverflow \/ Receive \/ Trailer
    BY <2>1, <2>4, MissingConsumer
  <2>5. CASE UNCHANGED vars
    BY <2>1, <2>5, MissingKept
    DEF PacketInHand, PacketPending, vars, user, channel, thread, muxer
  <2> QED
    BY <2>2, <2>3, <2>4, <2>5 DEF Next, InCall, Consumer
<1>3. OrderInv /\ NothingMissing => NothingLost
  BY DEF OrderInv, NothingMissing, NothingLost
<1> QED
  BY <1>1, <1>2, <1>3, OrderInvInit, OrderInvNext, CalmInit, CalmNext, PTL DEF Spec

-----------------------------------------------------------------------------
(* Every packet is unreferenced                                            *)

\* The packet of the message after the last attempt: nobody frees it any more.
Leaked(n) ==
    /\ cpc \in {"trailer", "done"} /\ msg.n = n /\ err_send # "none"
    /\ max_recovery_attempts # 0 /\ recovery_nr >= max_recovery_attempts

\* Who frees the packet n: the consumer, the queue, or the user's thread.
Referenced(n) ==
    \/ /\ cpc \in {"dispatch", "recover", "attempt", "failed", "giveUp"}
       /\ msg.type = "packet" /\ msg.n = n
    \/ \E k \in 1..Len(queue) : queue[k].type = "packet" /\ queue[k].n = n
    \/ upc \in {"send", "overflow"} /\ sending.type = "packet" /\ sending.n = n

\* Every packet in a message is freed by someone or leaked; and when the muxer is
\* closed there is no consumer.
LeakInv ==
    /\ \A n \in live : Referenced(n) \/ Leaked(n)
    /\ upc \in {"init", "failed"} => cpc = "none" /\ live = {}
    /\ upc \in {"joined", "closed"} => cpc \in {"none", "done"}
    /\ upc = "closed" => queue = <<>>

LEMMA LeakInit == Init => LeakInv
BY DEF Init, LeakInv

\* The user's thread references one packet more, passes it on, or frees it.
LEMMA LeakUser ==
    ASSUME OrderInv, LeakInv,
           WriteHeader \/ WritePacket \/ WriteTrailer \/ Deinit \/ Send \/ SetOverflow \/ Join
    PROVE  LeakInv'
<1>1. CASE WriteHeader
  BY <1>1 DEF WriteHeader, LeakInv, channel, muxer
<1>2. CASE WritePacket
  <2>1. /\ upc = "open" /\ upc' = "send" /\ UNCHANGED <<options, queue, err_send, msg, cpc, recovery_nr>>
        /\ \/ live' = live \cup {sent + 1} /\ sending'.type = "packet" /\ sending'.n = sent + 1
           \/ live' = live
    BY <1>2 DEF WritePacket, Message, channel, thread
  <2>2. ASSUME NEW n \in live' PROVE Referenced(n)' \/ Leaked(n)'
    <3>1. CASE n \in live
      BY <2>1, <3>1 DEF LeakInv, Referenced, Leaked, max_recovery_attempts
    <3>2. CASE n \notin live
      BY <2>1, <2>2, <3>2 DEF Referenced
    <3> QED
      BY <3>1, <3>2
  <2> QED
    BY <2>1, <2>2 DEF LeakInv
<1>3. CASE WriteTrailer \/ Join
  <2>1. /\ UNCHANGED <<options, sending, queue, err_send, msg, cpc, recovery_nr, live>>
        /\ upc \in {"open", "join"} /\ upc' \in {"join", "joined"}
        /\ upc' = "joined" => cpc = "done"
    BY <1>3 DEF WriteTrailer, Join, channel, thread, muxer
  <2>2. ASSUME NEW n \in live PROVE Referenced(n)' \/ Leaked(n)'
    BY <2>1, <2>2 DEF LeakInv, Referenced, Leaked, max_recovery_attempts
  <2> QED
    BY <2>1, <2>2 DEF LeakInv
<1>4. CASE Deinit
  <2>1. /\ upc \in {"joined", "failed"} /\ upc' = "closed" /\ queue' = <<>>
        /\ live' = live \ Packets(queue)
        /\ UNCHANGED <<options, sending, err_send, msg, cpc, recovery_nr>>
    BY <1>4 DEF Deinit, thread
  <2>2. ASSUME NEW n \in live' PROVE Leaked(n)'
    <3>1. n \in live /\ n \notin Packets(queue) /\ n # 0
      BY <2>1 DEF OrderInv, Types, TypeOK
    <3>2. \A k \in 1..Len(queue) : queue[k].n # n
      BY <3>1 DEF Packets, OrderInv, Types
    <3> QED
      BY <2>1, <3>1, <3>2 DEF LeakInv, Referenced, Leaked, max_recovery_attempts
  <2> QED
    BY <2>1, <2>2 DEF LeakInv
<1>5. CASE Send
  <2>1. /\ upc = "send" /\ upc' \in {"open", "overflow"}
        /\ UNCHANGED <<options, err_send, msg, cpc, recovery_nr>>
        /\ \/ queue' = Append(queue, sending) /\ live' = live
           \/ upc' = "overflow" /\ UNCHANGED <<queue, live, sending>>
           \/ live' = live \ {sending.n} /\ queue' = queue
    BY <1>5 DEF Send, thread
  <2>2. CASE queue' = Append(queue, sending) /\ live' = live
    <3>1. /\ \A k \in 1..Len(queue) : k \in 1..Len(queue') /\ queue'[k] = queue[k]
          /\ Len(queue) + 1 \in 1..Len(queue') /\ queue'[Len(queue) + 1] = sending
      BY <2>2 DEF OrderInv, Types
    <3>2. ASSUME NEW n \in live PROVE Referenced(n)' \/ Leaked(n)'
      <4>1. CASE \E k \in 1..Len(queue) : queue[k].type = "packet" /\ queue[k].n = n
        BY <3>1, <4>1 DEF Referenced
      <4>2. CASE sending.type = "packet" /\ sending.n = n
        BY <3>1, <4>2 DEF Referenced
      <4> QED
        BY <2>1, <3>2, <4>1, <4>2 DEF LeakInv, Referenced, Leaked, max_recovery_attempts
    <3> QED
      BY <2>1, <2>2, <3>2 DEF LeakInv
  <2>3. CASE upc' = "overflow" /\ UNCHANGED <<queue, live, sending>>
    <3>1. ASSUME NEW n \in live PROVE Referenced(n)' \/ Leaked(n)'
      BY <2>1, <2>3, <3>1 DEF LeakInv, Referenced, Leaked, max_recovery_attempts
    <3> QED
      BY <2>1, <2>3, <3>1 DEF LeakInv
  <2>4. CASE live' = live \ {sending.n} /\ queue' = queue
    <3>1. ASSUME NEW n \in live' PROVE Referenced(n)' \/ Leaked(n)'
      BY <2>1, <2>4, <3>1 DEF LeakInv, Referenced, Leaked, max_recovery_attempts
    <3> QED
      BY <2>1, <2>4, <3>1 DEF LeakInv
  <2> QED
    BY <2>1, <2>2, <2>3, <2>4
<1>6. CASE SetOverflow
  <2>1. /\ upc = "overflow" /\ upc' = "open" /\ live' = live \ {sending.n}
        /\ UNCHANGED <<options, queue, err_send, msg, cpc, recovery_nr>>
    BY <1>6 DEF SetOverflow, channel, thread
  <2>2. ASSUME NEW n \in live' PROVE Referenced(n)' \/ Leaked(n)'
    BY <2>1, <2>2 DEF LeakInv, Referenced, Leaked, max_recovery_attempts
  <2> QED
    BY <2>1, <2>2 DEF LeakInv
<1> QED
  BY <1>1, <1>2, <1>3, <1>4, <1>5, <1>6

\* A packet that was dispatched without an error is freed.
LEMMA DispatchFrees ==
    ASSUME OrderInv, NEW dropping \in BOOLEAN, Dispatch(dropping, "ok"), msg.type = "packet"
    PROVE  msg.n \notin live'
<1>1. "ok" \notin Errors
  BY OptionTypes DEF OrderInv, Types
<1>2. WriteMsg(dropping, "ok")
  BY <1>1 DEF Dispatch, HeaderFails, Fails
<1> QED
  BY <1>1, <1>2 DEF WriteMsg, FreeMsg, Fails

LEMMA LeakDispatch ==
    ASSUME OrderInv, LeakInv, DispatchMsg \/ Attempt
    PROVE  LeakInv'
<1>1. /\ cpc \in {"dispatch", "attempt"} /\ UNCHANGED <<options, upc, sending, queue>>
      /\ upc \notin {"init", "failed", "joined", "closed"}
  BY DEF DispatchMsg, Attempt, user, channel, LeakInv
<1>2. PICK dropping \in BOOLEAN, ret \in Errors \cup {"ok", "permanent"} :
          /\ Dispatch(dropping, ret)
          /\ IF ret = "ok" THEN cpc' = "flag"
             ELSE \/ cpc' \in {"recover", "giveUp", "failed"}
                  \/ /\ cpc' = "trailer" /\ err_send' = ret
                     /\ recovery_nr' = recovery_nr + 1 /\ LastAttempt
  <2>1. CASE DispatchMsg
    <3>1. drop_until_keyframe \in BOOLEAN
      BY DEF OrderInv, Types, TypeOK
    <3> QED
      BY <2>1, <3>1 DEF DispatchMsg
  <2>2. CASE Attempt
    <3>1. DropsToKeyframe \in BOOLEAN
      BY OptionTypes DEF OrderInv, Types, TypeOK, DropsToKeyframe
    <3> QED
      BY <2>2, <3>1 DEF Attempt, GiveUp, Recovered
  <2> QED
    BY <2>1, <2>2
<1>3. msg'.n = msg.n /\ msg'.type = msg.type /\ live' \subseteq live
  BY <1>2, DispatchEffect
<1>4. ASSUME NEW n \in live', msg.type = "packet", msg.n = n
      PROVE  Referenced(n)' \/ Leaked(n)'
  <2>1. ret # "ok" /\ ret # "none"
    BY <1>2, <1>4, DispatchFrees, OptionTypes DEF OrderInv, Types
  <2>2. CASE cpc' \in {"recover", "giveUp", "failed"}
    BY <1>3, <1>4, <2>2 DEF Referenced
  <2>3. CASE /\ cpc' = "trailer" /\ err_send' = ret
             /\ recovery_nr' = recovery_nr + 1 /\ LastAttempt
    <3>1. max_recovery_attempts' = max_recovery_attempts
      BY <1>1 DEF max_recovery_attempts
    <3> QED
      BY <1>3, <1>4, <2>1, <2>3, <3>1 DEF Leaked, LastAttempt
  <2> QED
    BY <1>2, <2>1, <2>2, <2>3
<1>5. ASSUME NEW n \in live' PROVE Referenced(n)' \/ Leaked(n)'
  <2>1. Referenced(n)
    BY <1>1, <1>3, <1>5 DEF LeakInv, Leaked
  <2> QED
    BY <1>1, <1>4, <2>1 DEF Referenced
<1> QED
  BY <1>1, <1>5 DEF LeakInv

\* The consumer passes a message on or frees its packet.
LEMMA LeakConsumer ==
    ASSUME OrderInv, LeakInv,
           \/ Unrecoverable \/ CloseOutput \/ DropMsg \/ FailAttempt \/ RetryAttempt
           \/ CheckOverflow \/ Receive \/ Trailer
    PROVE  LeakInv'
<1>1. UNCHANGED <<options, upc, sending>> /\ upc \notin {"init", "failed", "joined", "closed"}
  BY DEF Unrecoverable, CloseOutput, DropMsg, FailAttempt, RetryAttempt, CheckOverflow,
         Receive, Trailer, user, LeakInv
<1>2. SUFFICES ASSUME NEW n \in live' PROVE Referenced(n)' \/ Leaked(n)'
  BY <1>1 DEF LeakInv
<1>3. CASE Unrecoverable \/ DropMsg \/ FailAttempt \/ (RetryAttempt /\ cpc' = "flag")
  <2>1. live' = live \ {msg.n} /\ queue' = queue /\ cpc \notin {"trailer", "done"}
    BY <1>3
    DEF Unrecoverable, DropMsg, FailAttempt, RetryAttempt, FreeMsg, channel
  <2>2. Referenced(n) /\ n # msg.n
    BY <2>1 DEF LeakInv, Leaked
  <2> QED
    BY <1>1, <2>1, <2>2 DEF Referenced
<1>4. CASE CloseOutput \/ (RetryAttempt /\ cpc' # "flag")
  <2>1. /\ UNCHANGED <<queue, msg, live>> /\ cpc \in {"recover", "failed"}
        /\ cpc' \in {"attempt", "recover"}
    BY <1>4 DEF CloseOutput, RetryAttempt, channel
  <2>2. Referenced(n)
    BY <2>1 DEF LeakInv, Leaked
  <2> QED
    BY <1>1, <2>1, <2>2 DEF Referenced
<1>5. CASE CheckOverflow
  <2>1. /\ cpc = "flag"
        /\ UNCHANGED <<queue, live>> \/ live' = live \ Packets(queue)
    BY <1>5 DEF CheckOverflow
  <2>2. Referenced(n) /\ n # 0
    <3>1. n \in live
      BY <2>1
    <3>2. n # 0
      BY <3>1 DEF OrderInv, Types, TypeOK
    <3> QED
      BY <2>1, <3>1, <3>2 DEF LeakInv, Leaked
  <2>3. CASE UNCHANGED <<queue, live>>
    BY <1>1, <2>1, <2>2, <2>3 DEF Referenced
  <2>4. CASE live' = live \ Packets(queue)
    <3>1. \A k \in 1..Len(queue) : queue[k].n # n
      BY <2>2, <2>4 DEF Packets, OrderInv, Types
    <3> QED
      BY <1>1, <2>1, <2>2, <3>1 DEF Referenced
  <2> QED
    BY <2>1, <2>3, <2>4
<1>6. CASE Receive
  <2>1. cpc = "recv" /\ live' = live
    BY <1>6 DEF Receive, muxer
  <2>2. Referenced(n)
    BY <2>1 DEF LeakInv, Leaked
  <2>3. CASE /\ queue # <<>> /\ msg' = Head(queue) /\ queue' = Tail(queue)
             /\ cpc' \in {"dispatch", "recover"}
    <3>1. /\ msg' = queue[1] /\ Len(queue') = Len(queue) - 1 /\ Len(queue) \in Nat
          /\ \A k \in 1..Len(queue) : k # 1 => k - 1 \in 1..Len(queue') /\ queue'[k - 1] = queue[k]
      BY <2>3 DEF OrderInv, Types
    <3>2. CASE \E k \in 1..Len(queue) : queue[k].type = "packet" /\ queue[k].n = n
      <4>1. PICK k \in 1..Len(queue) : queue[k].type = "packet" /\ queue[k].n = n
        BY <3>2
      <4>2. CASE k = 1
        BY <2>3, <3>1, <4>1, <4>2 DEF Referenced
      <4>3. CASE k # 1
        BY <3>1, <4>1, <4>3 DEF Referenced
      <4> QED
        BY <4>2, <4>3
    <3> QED
      BY <1>1, <2>1, <2>2, <3>2 DEF Referenced
  <2>4. CASE queue = <<>> /\ queue' = queue
    BY <1>1, <2>1, <2>2, <2>4 DEF Referenced, OrderInv, Types
  <2> QED
    BY <1>6, <2>3, <2>4 DEF Receive
<1>7. CASE Trailer
  <2>1. /\ cpc = "trailer" /\ cpc' = "done"
        /\ UNCHANGED <<options, queue, msg, live, err_send, recovery_nr>>
    BY <1>7 DEF Trailer, channel
  <2>2. max_recovery_attempts' = max_recovery_attempts
    BY <2>1 DEF max_recovery_attempts
  <2> QED
    BY <1>1, <2>1, <2>2 DEF LeakInv, Referenced, Leaked
<1> QED
  BY <1>3, <1>4, <1>5, <1>6, <1>7

\* When the muxer is closed every packet is unreferenced but that of the last attempt
\* of a recovery, whatever failed and whatever was queued.
THEOREM OnlyLastAttemptLeaks == Spec => []LeaksLastAttemptOnly
<1>1. OrderInv /\ LeakInv /\ [Next]_vars => LeakInv'
  <2> SUFFICES ASSUME OrderInv, LeakInv, [Next]_vars PROVE LeakInv'
    OBVIOUS
  <2>1. CASE UNCHANGED vars
    <3>1. UNCHANGED <<options, upc, sending, queue, cpc, msg, live, err_send, recovery_nr>>
      BY <2>1 DEF vars, user, channel, thread, muxer
    <3>2. max_recovery_attempts' = max_recovery_attempts
      BY <3>1 DEF max_recovery_attempts
    <3> QED
      BY <3>1, <3>2 DEF LeakInv, Referenced, Leaked
  <2> QED
    BY <2>1, LeakUser, LeakDispatch, LeakConsumer DEF Next, InCall, Consumer
<1>2. OrderInv /\ LeakInv => LeaksLastAttemptOnly
  <2> SUFFICES ASSUME OrderInv, LeakInv, upc = "closed" PROVE LeaksLastAttemptOnly
    BY DEF LeaksLastAttemptOnly
  <2>1. ASSUME NEW n \in live PROVE Leaked(n)
    BY <2>1 DEF LeakInv, Referenced, OrderInv, Types
  <2> QED
    BY <2>1 DEF LeaksLastAttemptOnly, Leaked
<1> QED
  BY <1>1, <1>2, OrderInvInit, OrderInvNext, LeakInit, PTL DEF Spec

-----------------------------------------------------------------------------
(***************************************************************************)
(* No call hangs: the consumer empties the queue, or tells the senders.    *)
(***************************************************************************)

\* The consumer has something to do.
ConsumerGoesOn ==
    \/ cpc \in {"dispatch", "recover", "failed", "giveUp", "flag", "trailer"}
    \/ cpc = "attempt" /\ (TRUE \in Waited \/ drop_pkts_on_overflow)
    \/ cpc = "recv" /\ (queue # <<>> \/ err_recv # "none")

\* A sender is not kept waiting by a consumer that waits itself or has ended, and
\* fifo_write_trailer joins one that ends; unless the consumer spins, which it does in one
\* case only.
NoCallHangs ==
    /\ upc = "send" =>
          ~Full \/ drop_pkts_on_overflow \/ err_send # "none" \/ ConsumerGoesOn \/ Spins
    /\ upc = "join" => cpc = "done" \/ ConsumerGoesOn \/ Spins

\* The consumer runs while the muxer is in use, and ends with an error for the senders.
EndedInv ==
    /\ upc \in {"open", "send", "overflow", "join"} => cpc # "none"
    /\ cpc \in {"trailer", "done"} => err_send # "none"
    /\ upc = "join" => err_recv # "none"
    /\ cpc = "spin" => Spins

LEMMA EndedConsumer ==
    ASSUME OrderInv, CalmInv, EndedInv, Consumer
    PROVE  EndedInv'
<1>1. UNCHANGED <<upc, err_recv>> /\ cpc # "none" /\ cpc' # "none"
  BY DEF Consumer, DispatchMsg, Unrecoverable, CloseOutput, DropMsg, Attempt, FailAttempt,
         RetryAttempt, CheckOverflow, Receive, Trailer, user, channel, GiveUp, Recovered
<1>2. CASE Unrecoverable
  <2>1. /\ ~Recoverable(err) /\ cpc = "recover" /\ UNCHANGED <<options, err>>
        /\ \/ cpc' = "trailer" /\ err_send' = err
           \/ cpc' = "flag"
           \/ cpc' = "spin" /\ err = "again" /\ ~drop_pkts_on_overflow
    BY <1>2 DEF Unrecoverable, GiveUp
  <2>2. err # "none"
    BY <2>1 DEF CalmInv, Recoverable
  <2>3. err = "again" => ~attempt_recovery
    BY <2>1 DEF Recoverable
  <2>4. cpc' = "spin" => Spins'
    BY <2>1, <2>3, Zenon DEF Spins, attempt_recovery, drop_pkts_on_overflow
  <2> QED
    BY <1>1, <2>1, <2>2, <2>4 DEF EndedInv
<1>3. CASE FailAttempt
  <2>1. cpc = "giveUp" /\ cpc' = "trailer" /\ err_send' = err
    BY <1>3 DEF FailAttempt, GiveUp
  <2> QED
    BY <1>1, <2>1 DEF EndedInv, CalmInv
<1>4. CASE Attempt
  <2>1. PICK ret \in Errors \cup {"ok", "permanent"} :
            \/ cpc' \in {"flag", "giveUp", "failed"}
            \/ cpc' = "trailer" /\ err_send' = ret
    BY <1>4 DEF Attempt, GiveUp, Recovered
  <2>2. ret # "none"
    BY OptionTypes DEF OrderInv, Types
  <2> QED
    BY <1>1, <2>1, <2>2 DEF EndedInv
<1>5. CASE Receive
  <2>1. \/ cpc' \in {"dispatch", "recover"}
        \/ cpc' = "trailer" /\ err_recv # "none" /\ err_send' = err_recv
    BY <1>5 DEF Receive, GiveUp
  <2> QED
    BY <1>1, <2>1 DEF EndedInv
<1>6. CASE Trailer
  <2>1. cpc = "trailer" /\ cpc' = "done" /\ err_send' = err_send
    BY <1>6 DEF Trailer, channel
  <2> QED
    BY <1>1, <2>1 DEF EndedInv
<1>7. CASE DispatchMsg \/ CloseOutput \/ DropMsg \/ RetryAttempt \/ CheckOverflow
  <2>1. cpc' \notin {"trailer", "done", "spin"}
    BY <1>7 DEF DispatchMsg, CloseOutput, DropMsg, RetryAttempt, CheckOverflow
  <2> QED
    BY <1>1, <2>1 DEF EndedInv
<1> QED
  BY <1>2, <1>3, <1>4, <1>5, <1>6, <1>7 DEF Consumer

\* No step of the user's thread ends the spinning.
LEMMA SpinsOn ==
    ASSUME UNCHANGED <<options, cpc, err>>
    PROVE  Spins' = Spins
BY Zenon DEF Spins, attempt_recovery, drop_pkts_on_overflow

LEMMA EndedNext == OrderInv /\ CalmInv /\ EndedInv /\ [Next]_vars => EndedInv'
<1> SUFFICES ASSUME OrderInv, CalmInv, EndedInv, [Next]_vars PROVE EndedInv'
  OBVIOUS
<1>1. CASE WriteHeader
  BY <1>1 DEF WriteHeader, EndedInv, OrderInv, Types, channel
<1>2. CASE WritePacket \/ Send \/ SetOverflow
  <2>1. /\ upc \in {"open", "send", "overflow"} /\ upc' \in {"open", "send", "overflow"}
        /\ UNCHANGED <<options, cpc, err, err_send, err_recv>>
    BY <1>2 DEF WritePacket, Send, SetOverflow, channel, thread
  <2> QED
    BY <2>1, SpinsOn DEF EndedInv
<1>3. CASE WriteTrailer
  <2>1. /\ upc = "open" /\ upc' = "join" /\ err_recv' = "eof"
        /\ UNCHANGED <<options, cpc, err, err_send>>
    BY <1>3 DEF WriteTrailer, EndOfInput, thread
  <2> QED
    BY <2>1, SpinsOn DEF EndedInv
<1>4. CASE Join \/ Deinit
  <2>1. upc' \in {"joined", "closed"} /\ UNCHANGED <<options, cpc, err, err_send>>
    BY <1>4 DEF Join, Deinit, channel, thread
  <2> QED
    BY <2>1, SpinsOn DEF EndedInv
<1>5. CASE UNCHANGED vars
  BY <1>5, SpinsOn DEF vars, user, channel, thread, EndedInv
<1> QED
  BY <1>1, <1>2, <1>3, <1>4, <1>5, EndedConsumer DEF Next, InCall

\* An attempt that has to wait for the time of the stream may drop its message: that
\* is why fifo_init demands drop_pkts_on_overflow with recovery_wait_streamtime.
LEMMA WaitingEnds ==
    ASSUME OrderInv
    PROVE  TRUE \in Waited \/ drop_pkts_on_overflow
<1>1. recovery_wait_streamtime => drop_pkts_on_overflow
  BY OptionsAssumption
  DEF OrderInv, Types, TypeOK, recovery_wait_streamtime, drop_pkts_on_overflow
<1> QED
  BY <1>1 DEF Waited

\* fifo_write_packet and fifo_write_trailer return: the consumer thread they wait for
\* is never waiting itself, whatever fails, and when it has ended the senders know.  The
\* one exception is fifo_thread_recover that tries for ever, after an AVERROR(EAGAIN) of
\* the actual muxer with neither recovery nor dropping.
THEOREM CallsNeverHang == Spec => []NoCallHangs
<1>1. Init => EndedInv
  BY DEF Init, EndedInv
<1>2. OrderInv /\ EndedInv => NoCallHangs
  <2> SUFFICES ASSUME OrderInv, EndedInv PROVE NoCallHangs
    OBVIOUS
  <2>1. cpc = "attempt" => ConsumerGoesOn
    BY WaitingEnds, Zenon DEF ConsumerGoesOn
  <2>2. Full => queue # <<>>
    BY OptionTypes DEF OrderInv, Types, Full
  <2>3. cpc \in {"none", "dispatch", "recover", "attempt", "failed", "giveUp", "flag", "recv",
                 "trailer", "done", "spin"}
    BY DEF OrderInv, Types, TypeOK
  <2>4. ASSUME upc = "send"
        PROVE  ~Full \/ drop_pkts_on_overflow \/ err_send # "none" \/ ConsumerGoesOn \/ Spins
    BY <2>1, <2>2, <2>3, <2>4 DEF EndedInv, ConsumerGoesOn
  <2>5. ASSUME upc = "join" PROVE cpc = "done" \/ ConsumerGoesOn \/ Spins
    BY <2>1, <2>3, <2>5 DEF EndedInv, ConsumerGoesOn
  <2> QED
    BY <2>4, <2>5 DEF NoCallHangs
<1> QED
  BY <1>1, <1>2, OrderInvInit, OrderInvNext, CalmInit, CalmNext, EndedNext, PTL DEF Spec
=============================================================================
