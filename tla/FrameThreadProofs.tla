-------------------------- MODULE FrameThreadProofs --------------------------
(***************************************************************************)
(* Proofs about FrameThread, for any number of slots, any bound of packets *)
(* and any kinds of codecs.                                                *)
(***************************************************************************)
EXTENDS FrameThread, FiniteSetTheorems, WellFoundedInduction, TLAPS

Setup(p) == state[p] \in {"SETTING_UP", "GET_BUFFER", "GET_FORMAT"}
InCall == upc \in {"submit", "prev", "packet", "service", "output"}
Outside == upc \in {"out", "free", "freed"}

\* TypeOK, variable by variable.
UserTypes ==
    /\ codec \in Codecs
    /\ prev_thread \in Slots \cup {None} /\ next_decoding \in 0..N
    /\ next_finished \in Slots /\ finished \in Slots
    /\ delaying \in BOOLEAN /\ empty \in BOOLEAN /\ draining \in BOOLEAN
    /\ upc \in {"out", "submit", "prev", "packet", "service", "output", "finish",
                "parkFlush", "parkFree", "free", "freed"}
    /\ accepted \in 0..MaxPkt /\ taken \in 0..MaxPkt
    /\ outcome \in {"none", "frame", "eof", "error"}
FlagTypes ==
    /\ hwaccel \in [Slots -> BOOLEAN] /\ hwaccel_serializing \in [Slots -> BOOLEAN]
    /\ async_serializing \in [Slots -> BOOLEAN] /\ die \in [Slots -> BOOLEAN]
    /\ progress \in [Slots -> BOOLEAN] /\ got_frame \in [Slots -> BOOLEAN]
    /\ async_lock \in BOOLEAN
SlotTypes ==
    /\ state \in [Slots -> {"INPUT_READY", "SETTING_UP", "GET_BUFFER", "GET_FORMAT",
                            "SETUP_FINISHED"}]
    /\ pkt \in [Slots -> 0..MaxPkt] /\ ctx \in [Slots -> Lost..MaxPkt]
    /\ result \in [Slots -> {"ok", "error"}]
    /\ hwaccel_mutex \in Slots \cup {None} /\ buffer_mutex \in Slots \cup {None}
ThreadTypes ==
    /\ wpc \in [Slots -> {"none", "wait", "lockHw", "format", "askFormat", "buffer",
                          "askBuffer", "handover", "finishSetup", "finishAsync",
                          "finishState", "decode", "report", "return", "unlockHw",
                          "unlockAsync", "ready", "loop"}]
    /\ after \in [Slots -> {"decode", "unlockHw"}]
    /\ asleep \in [Slots \cup {User} -> Slots \cup {None}]
Types == UserTypes /\ FlagTypes /\ SlotTypes /\ ThreadTypes

\* Where a worker is when its slot is in a state.
Phases ==
    \A p \in Slots :
        /\ wpc[p] \in {"none", "loop"} => state[p] = "INPUT_READY"
        /\ wpc[p] = "wait" => state[p] \in {"INPUT_READY", "SETTING_UP"}
        /\ wpc[p] \in {"lockHw", "format", "buffer", "handover", "finishSetup", "finishAsync",
                       "finishState"} => state[p] = "SETTING_UP"
        /\ wpc[p] = "askFormat" => Callbacks /\ state[p] \in {"SETTING_UP", "GET_FORMAT"}
        /\ wpc[p] = "askBuffer" => Callbacks /\ state[p] \in {"SETTING_UP", "GET_BUFFER"}
        /\ wpc[p] \in {"decode", "report", "return", "unlockHw", "unlockAsync", "ready"} =>
              state[p] = "SETUP_FINISHED"
        /\ state[p] = "INPUT_READY" => progress[p]
        /\ wpc[p] = "none" \/ die[p] => upc \in {"free", "parkFree", "freed"}
        /\ die[p] => state[p] = "INPUT_READY"

\* What the user's thread may rely on in a call.
Caller ==
    /\ upc # "output" => next_decoding \in Slots /\ finished = next_finished
    /\ upc \in {"submit", "prev", "packet"} => accepted < MaxPkt
    /\ upc \in {"prev", "packet"} =>
          wpc[next_decoding] = "wait" /\ state[next_decoding] = "INPUT_READY"
    /\ upc = "prev" => prev_thread # None
    /\ upc = "service" => Callbacks
    /\ InCall => draining = empty
    /\ outcome = "eof" => ~InCall /\ taken = accepted

\* async_lock and hwaccel_mutex have one holder, and who needs them has them.
Locks ==
    /\ async_lock <=> Outside \/ \E w \in Slots : async_serializing[w]
    /\ \A w \in Slots :
          /\ async_serializing[w] => ~Outside
          /\ \A v \in Slots : async_serializing[w] /\ async_serializing[v] => v = w
          /\ hwaccel_serializing[w] => hwaccel_mutex = w
          /\ hwaccel[w] /\ wpc[w] \in {"finishAsync", "finishState", "decode", "report", "return"}
                => hwaccel_serializing[w]
          /\ hwaccel[w] /\ ~AsyncSafe /\ wpc[w] \in {"finishState", "decode", "report", "return"}
                => async_serializing[w]

\* The slot after the last submission, and how far a slot lies behind it.
Wrap(h) == IF h >= N THEN 0 ELSE h
Head == Wrap(IF upc = "service" THEN next_decoding + 1 ELSE next_decoding)
Back(p) == IF p < Head THEN Head - 1 - p ELSE Head - 1 - p + N
Ahead(a, b) == IF b >= a THEN b - a ELSE b - a + N
Untaken == accepted - taken

\* The submissions that were not taken lie in the slots behind the head, in order.
Contents ==
    /\ taken <= accepted
    /\ \A p \in Slots :
          /\ Back(p) < Untaken => pkt[p] = accepted - Back(p)
          /\ Back(p) >= Untaken =>
                /\ pkt[p] <= taken /\ state[p] = "INPUT_READY"
                /\ ~got_frame[p] /\ result[p] = "ok"

\* The output loop stands at the oldest of them or, while it drains, before it.
Position ==
    /\ Untaken <= N
    /\ upc \in {"service", "output"} =>
          /\ Back(finished) >= Untaken - 1
          /\ ~empty => Untaken > 0 /\ Back(finished) = Untaken - 1
    /\ upc \notin {"service", "output"} =>
          /\ Untaken < N
          /\ Untaken > 0 => Back(finished) = Untaken - 1
          /\ Untaken = 0 /\ ~draining => finished = Head
    /\ upc = "output" =>
          \A q \in Slots : Ahead(next_finished, q) < Ahead(next_finished, finished) =>
                              Back(q) >= Untaken
    /\ delaying /\ ~draining =>
          /\ taken = 0 /\ finished = 0 /\ upc # "output"
          /\ accepted = IF upc = "service" THEN next_decoding + 1 ELSE next_decoding

\* The slot of the last submission.
Last == IF upc = "service" THEN next_decoding ELSE prev_thread

\* The context a slot holds while it is in its setup, after it, and when it has been the last.
ContextOf(p) ==
    /\ Setup(p) /\ wpc[p] \in {"wait", "lockHw", "format", "askFormat", "buffer", "askBuffer",
                              "handover"} => ctx[p] \in {Lost, pkt[p] - 1}
    /\ wpc[p] \in {"finishSetup", "finishAsync", "finishState", "decode", "report", "return",
                   "unlockHw", "unlockAsync", "ready"} => ctx[p] \in {Lost, pkt[p]}
    /\ p = Last /\ state[p] = "INPUT_READY" => ctx[p] \in {Lost, pkt[p]}

\* Only the last submission may be in its setup, and it holds the latest context.
Contexts ==
    /\ \A p \in Slots : Setup(p) => p = Last /\ upc # "packet" /\ (Callbacks => upc = "service")
    /\ Last # None => Back(Last) = 0 /\ pkt[Last] = accepted
    /\ Last = None => next_decoding = 0 /\ accepted = 0
    /\ HasUpdate =>
          /\ Last = None => ctx[0] \in {Lost, 0}
          /\ upc = "packet" => ctx[next_decoding] \in {Lost, accepted}
          /\ \A p \in Slots : ContextOf(p)

\* Why a thread sleeps.
Sleeping ==
    /\ asleep[User] # None => state[asleep[User]] = "SETTING_UP"
    /\ \A w \in Slots : asleep[w] # None =>
          \/ asleep[w] = w /\ wpc[w] \in {"askFormat", "askBuffer"}
          \/ /\ wpc[w] = "decode" /\ asleep[w] = Owner(w)
             /\ pkt[Owner(w)] = pkt[w] - 1 /\ ~progress[Owner(w)]

Inv ==
    /\ Types /\ Phases /\ Caller /\ Locks
    /\ Contents /\ Position /\ Contexts /\ Sleeping

-----------------------------------------------------------------------------
\* The two cases of an index modulo the size of the ring.
LEMMA Modulo ==
  ASSUME NEW a \in Nat, a < N + N
  PROVE  a % N = IF a < N THEN a ELSE a - N
BY NAssumption, SMT

\* The slot of the submission before is another one.
LEMMA OwnerSlot ==
  ASSUME NEW w \in Slots
  PROVE  Owner(w) \in Slots /\ Owner(w) # w
BY NAssumption, Modulo DEF Owner, Slots

\* Distances in the ring.
LEMMA BackRange ==
  ASSUME Types
  PROVE  /\ Head \in Slots
         /\ \A p \in Slots : Back(p) \in Slots /\ (Back(p) = N - 1 <=> p = Head)
         /\ \A p, q \in Slots : Back(p) = Back(q) => p = q
<1>1. next_decoding \in 0 .. N /\ N \in Nat /\ N > 1
  BY NAssumption DEF Types, UserTypes
<1>2. Head \in 0 .. N - 1
  BY <1>1 DEF Head, Wrap
<1> QED
  BY <1>1, <1>2 DEF Back, Slots

-----------------------------------------------------------------------------
\* A worker changes only its own slot, and not which submissions are where.
LEMMA WorkerFrame ==
  ASSUME Types, Phases, NEW w \in Slots, WorkerStep(w)
  PROVE  /\ UNCHANGED <<codec, fctx, userVars, history, pkt>>
         /\ state[w] = "INPUT_READY" => UNCHANGED <<state, got_frame, result, hwaccel, ctx>>
         /\ \A p \in Slots : p # w =>
               /\ state'[p] = state[p] /\ got_frame'[p] = got_frame[p] /\ result'[p] = result[p]
               /\ ctx'[p] = ctx[p] /\ wpc'[p] = wpc[p]
<1> USE DEF At, Step, Types, UserTypes, FlagTypes, SlotTypes, ThreadTypes, Phases
<1>1. CASE TakeInput(w)
  BY <1>1 DEF TakeInput, slotVars, locks
<1>2. CASE Die(w)
  BY <1>2 DEF Die, slotVars, locks
<1>3. CASE LockHw(w)
  BY <1>3 DEF LockHw, slotVars, locks
<1>4. CASE GetFormat(w)
  BY <1>4 DEF GetFormat, slotVars, locks
<1>5. CASE FormatAnswered(w)
  BY <1>5 DEF FormatAnswered, slotVars, locks
<1>6. CASE GetBuffer(w)
  BY <1>6 DEF GetBuffer, slotVars, locks
<1>7. CASE BufferAnswered(w)
  BY <1>7 DEF BufferAnswered, slotVars, locks
<1>8. CASE LeaveSetup(w)
  BY <1>8 DEF LeaveSetup, slotVars, locks, Advance
<1>9. CASE FinishSetupHw(w)
  BY <1>9 DEF FinishSetupHw, slotVars, locks
<1>10. CASE FinishSetupAsync(w)
  BY <1>10 DEF FinishSetupAsync, slotVars, locks
<1>11. CASE FinishSetupState(w)
  BY <1>11 DEF FinishSetupState, slotVars, locks
<1>12. CASE AwaitProgress(w)
  BY <1>12 DEF AwaitProgress, slotVars, locks
<1>13. CASE ReportProgress(w)
  BY <1>13 DEF ReportProgress, slotVars, locks
<1>14. CASE DecodeReturns(w)
  BY <1>14 DEF DecodeReturns, slotVars, locks
<1>15. CASE UnlockHw(w)
  BY <1>15 DEF UnlockHw, slotVars, locks
<1>16. CASE UnlockAsync(w)
  BY <1>16 DEF UnlockAsync, slotVars, locks
<1>17. CASE Ready(w)
  BY <1>17 DEF Ready, slotVars, locks
<1>18. CASE AwaitInput(w)
  BY <1>18 DEF AwaitInput, slotVars, locks
<1> QED
  BY <1>1, <1>2, <1>3, <1>4, <1>5, <1>6, <1>7, <1>8, <1>9, <1>10, <1>11, <1>12, <1>13, <1>14,
     <1>15, <1>16, <1>17, <1>18
     DEF WorkerStep

-----------------------------------------------------------------------------
\* What the longer steps of the user's thread do.
LEMMA SubmittedMeans ==
  ASSUME Types, NEW p \in Slots, Submitted(p)
  PROVE  /\ prev_thread' = p /\ next_decoding' = p + 1 /\ next_decoding' \in 0 .. N
         /\ delaying' \in BOOLEAN /\ (delaying' => delaying /\ p + 1 < N)
         /\ \/ upc' = "finish" /\ delaying' /\ ~empty
            \/ upc' = "output" /\ (~delaying' \/ empty)
<1>1. delaying' = (delaying /\ ~Filled(p + 1)) /\ delaying \in BOOLEAN
  BY DEF Submitted, Types, UserTypes
<1>2. p + 1 \in 0 .. N /\ N \in Nat
  BY NAssumption DEF Slots
<1>3. ~Filled(p + 1) => p + 1 < N
  BY <1>2 DEF Filled
<1> QED
  BY <1>1, <1>2, <1>3 DEF Submitted, Goto

\* Starting a worker fails or puts the packet into the next slot.
LEMMA StartWorkerMeans ==
  ASSUME Types, Caller, StartWorker
  PROVE  /\ upc = "packet" /\ next_decoding \in Slots
         /\ UNCHANGED <<codec, next_finished, locks, got_frame, result, hwaccel, hwaccel_serializing,
                         async_serializing, die, ctx, progress, wpc, after, asleep, empty,
                         finished, draining, taken>>
         /\ \/ /\ upc' = "finish" /\ outcome' = "error"
               /\ UNCHANGED <<fctx, state, pkt, accepted>>
            \/ /\ accepted' = accepted + 1 /\ accepted' \in 0 .. MaxPkt /\ outcome' = outcome
               /\ \A q \in Slots :
                     /\ pkt'[q] = IF q = next_decoding THEN accepted + 1 ELSE pkt[q]
                     /\ state'[q] = IF q = next_decoding THEN "SETTING_UP" ELSE state[q]
               /\ \/ Callbacks /\ upc' = "service" /\ UNCHANGED fctx
                  \/ ~Callbacks /\ Submitted(next_decoding)
<1>1. /\ upc = "packet" /\ next_decoding \in Slots /\ accepted \in Nat /\ accepted < MaxPkt
      /\ MaxPkt \in Nat
  BY MaxPktAssumption DEF StartWorker, Types, UserTypes, Caller
<1>2. UNCHANGED <<codec, next_finished, locks, got_frame, result, hwaccel, hwaccel_serializing,
                  async_serializing, die, ctx, progress, wpc, after, asleep, empty,
                  finished, draining, taken>>
  BY DEF StartWorker, fctx
<1>3. CASE Fail /\ UNCHANGED <<fctx, state, pkt, accepted>>
  BY <1>1, <1>2, <1>3 DEF Fail, Goto
<1>4. CASE /\ accepted' = accepted + 1
           /\ pkt' = [pkt EXCEPT ![next_decoding] = accepted + 1]
           /\ state' = [state EXCEPT ![next_decoding] = "SETTING_UP"]
           /\ IF Callbacks THEN Goto("service") /\ UNCHANGED fctx
              ELSE Submitted(next_decoding) /\ UNCHANGED next_finished
           /\ UNCHANGED outcome
  <2>1. \A q \in Slots :
          /\ pkt'[q] = IF q = next_decoding THEN accepted + 1 ELSE pkt[q]
          /\ state'[q] = IF q = next_decoding THEN "SETTING_UP" ELSE state[q]
    BY <1>1, <1>4 DEF Types, SlotTypes
  <2> QED
    BY <1>1, <1>2, <1>4, <2>1 DEF Goto
<1> QED
  BY <1>3, <1>4 DEF StartWorker

\* Servicing a worker ends, sleeps or answers.
LEMMA ServiceMeans ==
  ASSUME Types, Caller, Service
  PROVE  /\ upc = "service" /\ next_decoding \in Slots /\ asleep[User] = None
         /\ UNCHANGED <<codec, next_finished, locks, pkt, got_frame, result, hwaccel,
                         hwaccel_serializing, async_serializing, die, ctx, progress, wpc, after,
                         empty, finished, draining, history>>
         /\ \/ /\ state[next_decoding] \in {"SETUP_FINISHED", "INPUT_READY"}
               /\ Submitted(next_decoding) /\ UNCHANGED <<asleep, state>>
            \/ /\ state[next_decoding] = "SETTING_UP" /\ UNCHANGED <<upc, state, fctx>>
               /\ SleepOn(User, next_decoding)
            \/ /\ state[next_decoding] \in {"GET_BUFFER", "GET_FORMAT"}
               /\ UNCHANGED <<upc, fctx>>
               /\ \A q \in Slots : state'[q] = IF q = next_decoding THEN "SETTING_UP" ELSE state[q]
               /\ \/ asleep' = asleep
                  \/ \E t \in Slots \cup {User} : asleep' = [asleep EXCEPT ![t] = None]
<1>1. upc = "service" /\ next_decoding \in Slots /\ asleep[User] = None
  BY DEF Service, Awake, Caller
<1>2. UNCHANGED <<codec, next_finished, locks, pkt, got_frame, result, hwaccel,
                  hwaccel_serializing, async_serializing, die, ctx, progress, wpc, after,
                  empty, finished, draining, history>>
  BY DEF Service, fctx
<1>3. CASE /\ state[next_decoding] \in {"SETUP_FINISHED", "INPUT_READY"}
           /\ Submitted(next_decoding)
           /\ UNCHANGED <<asleep, state, next_finished>>
  BY <1>1, <1>2, <1>3
<1>4. CASE /\ state[next_decoding] = "SETTING_UP"
           /\ SleepOn(User, next_decoding)
           /\ UNCHANGED <<upc, state, fctx>>
  BY <1>1, <1>2, <1>4
<1>5. CASE /\ state[next_decoding] \in {"GET_BUFFER", "GET_FORMAT"}
           /\ state' = [state EXCEPT ![next_decoding] = "SETTING_UP"]
           /\ Answer(next_decoding)
           /\ UNCHANGED <<upc, fctx>>
  <2>1. \A q \in Slots : state'[q] = IF q = next_decoding THEN "SETTING_UP" ELSE state[q]
    BY <1>1, <1>5 DEF Types, SlotTypes
  <2>2. \/ asleep' = asleep
        \/ \E t \in Slots \cup {User} : asleep' = [asleep EXCEPT ![t] = None]
    BY <1>5 DEF Answer, Sleepers
  <2> QED
    BY <1>1, <1>2, <1>5, <2>1, <2>2
<1> QED
  BY <1>3, <1>4, <1>5 DEF Service

\* A round of the output loop empties a slot, then goes on or ends the call.
LEMMA OutputMeans ==
  ASSUME Types, Output
  PROVE  /\ upc = "output" /\ finished \in Slots /\ state[finished] = "INPUT_READY"
         /\ UNCHANGED <<codec, prev_thread, delaying, locks, state, pkt, hwaccel,
                         hwaccel_serializing, async_serializing, die, ctx, progress, wpc, after,
                         asleep, empty, draining, accepted>>
         /\ \A q \in Slots : /\ got_frame'[q] = IF q = finished THEN FALSE ELSE got_frame[q]
                             /\ result'[q] = IF q = finished THEN "ok" ELSE result[q]
         /\ taken' = IF pkt[finished] > taken THEN pkt[finished] ELSE taken
         /\ taken' \in 0 .. MaxPkt
         /\ finished' = (IF finished + 1 >= N THEN 0 ELSE finished + 1) /\ finished' \in Slots
         /\ \/ /\ empty /\ ~got_frame[finished] /\ result[finished] = "ok"
               /\ finished' # next_finished
               /\ UNCHANGED <<upc, outcome, next_decoding, next_finished>>
            \/ /\ ~empty \/ got_frame[finished] \/ result[finished] # "ok"
                  \/ finished' = next_finished
               /\ upc' = "finish" /\ next_finished' = finished'
               /\ next_decoding' = (IF next_decoding >= N THEN 0 ELSE next_decoding)
               /\ next_decoding' \in Slots
               /\ outcome' \in {"none", "frame", "eof", "error"}
               /\ outcome' = "eof" => empty /\ ~got_frame[finished] /\ result[finished] = "ok"
               /\ outcome' = "frame" => got_frame[finished]
<1>1. /\ upc = "output" /\ finished \in Slots /\ state[finished] = "INPUT_READY"
      /\ N \in Nat /\ N > 1 /\ next_decoding \in 0 .. N
  BY NAssumption DEF Output, Types, UserTypes
<1>2. UNCHANGED <<codec, prev_thread, delaying, locks, state, pkt, hwaccel,
                  hwaccel_serializing, async_serializing, die, ctx, progress, wpc, after,
                  asleep, empty, draining, accepted>>
  BY DEF Output
<1>3. /\ \A q \in Slots : /\ got_frame'[q] = IF q = finished THEN FALSE ELSE got_frame[q]
                          /\ result'[q] = IF q = finished THEN "ok" ELSE result[q]
      /\ taken' = IF pkt[finished] > taken THEN pkt[finished] ELSE taken
      /\ taken' \in 0 .. MaxPkt
  BY <1>1 DEF Output, Clear, Types, SlotTypes, FlagTypes, UserTypes
<1>4. /\ finished' = SlotAfter(finished)
      /\ SlotAfter(finished) = (IF finished + 1 >= N THEN 0 ELSE finished + 1)
      /\ SlotAfter(finished) \in Slots
  BY <1>1 DEF Output, SlotAfter, Slots
<1>5. CASE GoOn(finished, SlotAfter(finished))
  BY <1>1, <1>2, <1>3, <1>4, <1>5 DEF Output, GoOn
<1>6. CASE ~GoOn(finished, SlotAfter(finished))
  <2>1. /\ upc' = "finish" /\ next_finished' = finished'
        /\ next_decoding' = (IF next_decoding >= N THEN 0 ELSE next_decoding)
    BY <1>1, <1>4, <1>6 DEF Output, Goto
  <2>2. outcome' = IF result[finished] # "ok" THEN "error"
                             ELSE IF got_frame[finished] THEN "frame"
                             ELSE IF empty THEN "eof" ELSE "none"
    BY <1>6 DEF Output
  <2>3. next_decoding' \in Slots
    BY <1>1, <2>1 DEF Slots
  <2>4. ~empty \/ got_frame[finished] \/ result[finished] # "ok" \/ finished' = next_finished
    BY <1>4, <1>6 DEF GoOn
  <2>5. /\ outcome' \in {"none", "frame", "eof", "error"}
        /\ outcome' = "eof" => empty /\ ~got_frame[finished] /\ result[finished] = "ok"
        /\ outcome' = "frame" => got_frame[finished]
    BY <2>2
  <2> QED
    BY <1>1, <1>2, <1>3, <1>4, <2>1, <2>3, <2>4, <2>5
<1> QED
  BY <1>5, <1>6

-----------------------------------------------------------------------------
\* The groups together are the types.
LEMMA TypesAre == Types <=> TypeOK
BY DEF Types, UserTypes, FlagTypes, SlotTypes, ThreadTypes, TypeOK

\* Every step keeps the types of what the user's thread works on.
LEMMA UserTypesStep ==
  Types /\ Caller /\ [Next]_vars => UserTypes'
<1> SUFFICES ASSUME Types /\ Caller, [Next]_vars PROVE UserTypes'
  OBVIOUS
<1> USE DEF Types, UserTypes, FlagTypes, SlotTypes, ThreadTypes, Caller
<1>1. CASE UNCHANGED vars
  BY <1>1 DEF vars, fctx, locks, slotVars, userVars, history
<1>2. CASE Decode
  BY <1>2 DEF Decode, Goto, fctx, locks, slotVars, userVars, history
<1>3. CASE Submit
  BY <1>3 DEF Submit, Goto, fctx, locks, slotVars, userVars, history, Fail
<1>4. CASE UpdateFromPrev
  BY <1>4
     DEF UpdateFromPrev, Goto, fctx, locks, slotVars, userVars, history, PrevReady, Fail,
         SleepOn, Awake
<1>5. CASE StartWorker
  <2>1. UNCHANGED <<codec, next_finished, finished, empty, draining, taken>>
    BY <1>5, StartWorkerMeans
  <2>2. CASE upc' = "finish" /\ outcome' = "error" /\ UNCHANGED <<fctx, accepted>>
    BY <2>1, <2>2 DEF fctx
  <2>3. CASE /\ next_decoding \in Slots /\ accepted' \in 0 .. MaxPkt /\ outcome' = outcome
             /\ upc' = "service" /\ UNCHANGED fctx
    BY <2>1, <2>3 DEF fctx
  <2>4. CASE /\ next_decoding \in Slots /\ accepted' \in 0 .. MaxPkt /\ outcome' = outcome
             /\ Submitted(next_decoding)
    BY <2>1, <2>4, SubmittedMeans
  <2> QED
    BY <1>5, <2>2, <2>3, <2>4, StartWorkerMeans
<1>6. CASE Service
  <2>1. UNCHANGED <<codec, next_finished, finished, empty, draining, accepted, taken, outcome>>
    BY <1>6, ServiceMeans DEF history
  <2>2. CASE next_decoding \in Slots /\ Submitted(next_decoding)
    BY <2>1, <2>2, SubmittedMeans
  <2>3. CASE UNCHANGED <<upc, fctx>>
    BY <2>1, <2>3 DEF fctx
  <2> QED
    BY <1>6, <2>2, <2>3, ServiceMeans
<1>7. CASE Output
  <2>1. UNCHANGED <<codec, prev_thread, delaying, empty, draining, accepted>>
    BY <1>7, OutputMeans
  <2>2. taken' \in 0 .. MaxPkt /\ finished' \in Slots
    BY <1>7, OutputMeans
  <2>3. CASE UNCHANGED <<upc, outcome, next_decoding, next_finished>>
    BY <2>1, <2>2, <2>3
  <2>4. CASE /\ upc' = "finish" /\ next_finished' = finished' /\ next_decoding' \in Slots
             /\ outcome' \in {"none", "frame", "eof", "error"}
    <3>1. next_decoding' \in 0 .. N
      BY <2>4, NAssumption DEF Slots
    <3> QED
      BY <2>1, <2>2, <2>4, <3>1
  <2> QED
    BY <1>7, <2>3, <2>4, OutputMeans
<1>8. CASE Finish
  BY <1>8 DEF Finish, Goto, fctx, locks, slotVars, userVars, history, TakeAsync
<1>9. CASE Park
  BY <1>9 DEF Park, Goto, fctx, locks, slotVars, userVars, history
<1>10. CASE Flush
  <2>1. /\ codec' = codec /\ empty' = empty /\ 0 \in 0 .. N /\ 0 \in Slots /\ 0 \in 0 .. MaxPkt
    BY <1>10, NAssumption, MaxPktAssumption DEF Flush, Slots
  <2> QED
    BY <1>10, <2>1 DEF Flush, Goto
<1>11. CASE FreeStep
  BY <1>11 DEF FreeStep, Goto, fctx, locks, slotVars, userVars, history, Parked, Kill
<1>12. CASE Freed
  BY <1>12 DEF Freed, Goto, fctx, locks, slotVars, userVars, history, Parked
<1>13. ASSUME NEW w \in Slots, TakeInput(w) PROVE UserTypes'
  BY <1>13 DEF TakeInput, At, Step, fctx, locks, slotVars, userVars, history
<1>14. ASSUME NEW w \in Slots, Die(w) PROVE UserTypes'
  BY <1>14 DEF Die, At, Step, fctx, locks, slotVars, userVars, history
<1>15. ASSUME NEW w \in Slots, LockHw(w) PROVE UserTypes'
  BY <1>15 DEF LockHw, At, Step, fctx, locks, slotVars, userVars, history, TakeHw
<1>16. ASSUME NEW w \in Slots, GetFormat(w) PROVE UserTypes'
  BY <1>16 DEF GetFormat, At, Step, fctx, locks, slotVars, userVars, history, Broadcast
<1>17. ASSUME NEW w \in Slots, FormatAnswered(w) PROVE UserTypes'
  BY <1>17
     DEF FormatAnswered, At, Step, fctx, locks, slotVars, userVars, history, SleepOn, Awake
<1>18. ASSUME NEW w \in Slots, GetBuffer(w) PROVE UserTypes'
  BY <1>18 DEF GetBuffer, At, Step, fctx, locks, slotVars, userVars, history, Broadcast
<1>19. ASSUME NEW w \in Slots, BufferAnswered(w) PROVE UserTypes'
  BY <1>19
     DEF BufferAnswered, At, Step, fctx, locks, slotVars, userVars, history, SleepOn, Awake
<1>20. ASSUME NEW w \in Slots, LeaveSetup(w) PROVE UserTypes'
  BY <1>20 DEF LeaveSetup, At, Step, fctx, locks, slotVars, userVars, history, Advance
<1>21. ASSUME NEW w \in Slots, FinishSetupHw(w) PROVE UserTypes'
  BY <1>21 DEF FinishSetupHw, At, Step, fctx, locks, slotVars, userVars, history, TakeHw
<1>22. ASSUME NEW w \in Slots, FinishSetupAsync(w) PROVE UserTypes'
  BY <1>22 DEF FinishSetupAsync, At, Step, fctx, locks, slotVars, userVars, history, NeedsAsync
<1>23. ASSUME NEW w \in Slots, FinishSetupState(w) PROVE UserTypes'
  BY <1>23 DEF FinishSetupState, At, Step, fctx, locks, slotVars, userVars, history, Broadcast
<1>24. ASSUME NEW w \in Slots, AwaitProgress(w) PROVE UserTypes'
  BY <1>24 DEF AwaitProgress, At, Step, fctx, locks, slotVars, userVars, history, SleepOn, Awake
<1>25. ASSUME NEW w \in Slots, ReportProgress(w) PROVE UserTypes'
  BY <1>25 DEF ReportProgress, At, Step, fctx, locks, slotVars, userVars, history, Broadcast
<1>26. ASSUME NEW w \in Slots, DecodeReturns(w) PROVE UserTypes'
  BY <1>26 DEF DecodeReturns, At, Step, fctx, locks, slotVars, userVars, history
<1>27. ASSUME NEW w \in Slots, UnlockHw(w) PROVE UserTypes'
  BY <1>27 DEF UnlockHw, At, Step, fctx, locks, slotVars, userVars, history
<1>28. ASSUME NEW w \in Slots, UnlockAsync(w) PROVE UserTypes'
  BY <1>28 DEF UnlockAsync, At, Step, fctx, locks, slotVars, userVars, history
<1>29. ASSUME NEW w \in Slots, Ready(w) PROVE UserTypes'
  BY <1>29 DEF Ready, At, Step, fctx, locks, slotVars, userVars, history, Broadcast
<1>30. ASSUME NEW w \in Slots, AwaitInput(w) PROVE UserTypes'
  BY <1>30 DEF AwaitInput, At, Step, fctx, locks, slotVars, userVars, history
<1>31. ASSUME NEW t \in Slots \cup {User}, SpuriousWakeup(t) PROVE UserTypes'
  BY <1>31 DEF SpuriousWakeup, fctx, locks, slotVars, userVars, history
<1> QED
  BY <1>1, <1>2, <1>3, <1>4, <1>5, <1>6, <1>7, <1>8, <1>9, <1>10, <1>11, <1>12, <1>13, <1>14,
     <1>15, <1>16, <1>17, <1>18, <1>19, <1>20, <1>21, <1>22, <1>23, <1>24, <1>25, <1>26, <1>27,
     <1>28, <1>29, <1>30, <1>31
     DEF Next, CallStep, Closed, WorkerStep

\* Every step keeps the types of the flags.
LEMMA FlagTypesStep ==
  Types /\ Caller /\ [Next]_vars => FlagTypes'
<1> SUFFICES ASSUME Types /\ Caller, [Next]_vars PROVE FlagTypes'
  OBVIOUS
<1> USE DEF Types, UserTypes, FlagTypes, SlotTypes, ThreadTypes, Caller
<1>1. CASE UNCHANGED vars
  BY <1>1 DEF vars, fctx, locks, slotVars, userVars, history
<1>2. CASE Decode
  BY <1>2 DEF Decode, Goto, fctx, locks, slotVars, userVars, history
<1>3. CASE Submit
  BY <1>3 DEF Submit, Goto, fctx, locks, slotVars, userVars, history, Fail
<1>4. CASE UpdateFromPrev
  BY <1>4
     DEF UpdateFromPrev, Goto, fctx, locks, slotVars, userVars, history, PrevReady, Fail,
         SleepOn, Awake
<1>5. CASE StartWorker
  BY <1>5
     DEF StartWorker, Goto, fctx, locks, slotVars, userVars, history, Submitted, Filled,
         Fail
<1>6. CASE Service
  BY <1>6
     DEF Service, Goto, fctx, locks, slotVars, userVars, history, Submitted, Filled,
         Answer, Sleepers
<1>7. CASE Output
  BY <1>7 DEF Output, Goto, fctx, locks, slotVars, userVars, history, Clear, GoOn, SlotAfter
<1>8. CASE Finish
  BY <1>8 DEF Finish, Goto, fctx, locks, slotVars, userVars, history, TakeAsync
<1>9. CASE Park
  BY <1>9 DEF Park, Goto, fctx, locks, slotVars, userVars, history
<1>10. CASE Flush
  BY <1>10 DEF Flush, Goto, fctx, locks, slotVars, userVars, history, Parked, FlushContext
<1>11. CASE FreeStep
  BY <1>11 DEF FreeStep, Goto, fctx, locks, slotVars, userVars, history, Parked, Kill
<1>12. CASE Freed
  BY <1>12 DEF Freed, Goto, fctx, locks, slotVars, userVars, history, Parked
<1>13. ASSUME NEW w \in Slots, TakeInput(w) PROVE FlagTypes'
  BY <1>13 DEF TakeInput, At, Step, fctx, locks, slotVars, userVars, history
<1>14. ASSUME NEW w \in Slots, Die(w) PROVE FlagTypes'
  BY <1>14 DEF Die, At, Step, fctx, locks, slotVars, userVars, history
<1>15. ASSUME NEW w \in Slots, LockHw(w) PROVE FlagTypes'
  BY <1>15 DEF LockHw, At, Step, fctx, locks, slotVars, userVars, history, TakeHw
<1>16. ASSUME NEW w \in Slots, GetFormat(w) PROVE FlagTypes'
  BY <1>16 DEF GetFormat, At, Step, fctx, locks, slotVars, userVars, history, Broadcast
<1>17. ASSUME NEW w \in Slots, FormatAnswered(w) PROVE FlagTypes'
  BY <1>17
     DEF FormatAnswered, At, Step, fctx, locks, slotVars, userVars, history, SleepOn, Awake
<1>18. ASSUME NEW w \in Slots, GetBuffer(w) PROVE FlagTypes'
  BY <1>18 DEF GetBuffer, At, Step, fctx, locks, slotVars, userVars, history, Broadcast
<1>19. ASSUME NEW w \in Slots, BufferAnswered(w) PROVE FlagTypes'
  BY <1>19
     DEF BufferAnswered, At, Step, fctx, locks, slotVars, userVars, history, SleepOn, Awake
<1>20. ASSUME NEW w \in Slots, LeaveSetup(w) PROVE FlagTypes'
  BY <1>20 DEF LeaveSetup, At, Step, fctx, locks, slotVars, userVars, history, Advance
<1>21. ASSUME NEW w \in Slots, FinishSetupHw(w) PROVE FlagTypes'
  BY <1>21 DEF FinishSetupHw, At, Step, fctx, locks, slotVars, userVars, history, TakeHw
<1>22. ASSUME NEW w \in Slots, FinishSetupAsync(w) PROVE FlagTypes'
  BY <1>22 DEF FinishSetupAsync, At, Step, fctx, locks, slotVars, userVars, history, NeedsAsync
<1>23. ASSUME NEW w \in Slots, FinishSetupState(w) PROVE FlagTypes'
  BY <1>23 DEF FinishSetupState, At, Step, fctx, locks, slotVars, userVars, history, Broadcast
<1>24. ASSUME NEW w \in Slots, AwaitProgress(w) PROVE FlagTypes'
  BY <1>24 DEF AwaitProgress, At, Step, fctx, locks, slotVars, userVars, history, SleepOn, Awake
<1>25. ASSUME NEW w \in Slots, ReportProgress(w) PROVE FlagTypes'
  BY <1>25 DEF ReportProgress, At, Step, fctx, locks, slotVars, userVars, history, Broadcast
<1>26. ASSUME NEW w \in Slots, DecodeReturns(w) PROVE FlagTypes'
  BY <1>26 DEF DecodeReturns, At, Step, fctx, locks, slotVars, userVars, history
<1>27. ASSUME NEW w \in Slots, UnlockHw(w) PROVE FlagTypes'
  BY <1>27 DEF UnlockHw, At, Step, fctx, locks, slotVars, userVars, history
<1>28. ASSUME NEW w \in Slots, UnlockAsync(w) PROVE FlagTypes'
  BY <1>28 DEF UnlockAsync, At, Step, fctx, locks, slotVars, userVars, history
<1>29. ASSUME NEW w \in Slots, Ready(w) PROVE FlagTypes'
  BY <1>29 DEF Ready, At, Step, fctx, locks, slotVars, userVars, history, Broadcast
<1>30. ASSUME NEW w \in Slots, AwaitInput(w) PROVE FlagTypes'
  BY <1>30 DEF AwaitInput, At, Step, fctx, locks, slotVars, userVars, history
<1>31. ASSUME NEW t \in Slots \cup {User}, SpuriousWakeup(t) PROVE FlagTypes'
  BY <1>31 DEF SpuriousWakeup, fctx, locks, slotVars, userVars, history
<1> QED
  BY <1>1, <1>2, <1>3, <1>4, <1>5, <1>6, <1>7, <1>8, <1>9, <1>10, <1>11, <1>12, <1>13, <1>14,
     <1>15, <1>16, <1>17, <1>18, <1>19, <1>20, <1>21, <1>22, <1>23, <1>24, <1>25, <1>26, <1>27,
     <1>28, <1>29, <1>30, <1>31
     DEF Next, CallStep, Closed, WorkerStep

\* Every step keeps the types of what the slots hold.
LEMMA SlotTypesStep ==
  Types /\ Caller /\ [Next]_vars => SlotTypes'
<1> SUFFICES ASSUME Types /\ Caller, [Next]_vars PROVE SlotTypes'
  OBVIOUS
<1> USE DEF Types, UserTypes, FlagTypes, SlotTypes, ThreadTypes, Caller
<1>1. CASE UNCHANGED vars
  BY <1>1 DEF vars, fctx, locks, slotVars, userVars, history
<1>2. CASE Decode
  BY <1>2 DEF Decode, Goto, fctx, locks, slotVars, userVars, history
<1>3. CASE Submit
  BY <1>3 DEF Submit, Goto, fctx, locks, slotVars, userVars, history, Fail
<1>4. CASE UpdateFromPrev
  <2>1. UNCHANGED <<state, pkt, result, hwaccel_mutex, buffer_mutex>>
    BY <1>4 DEF UpdateFromPrev, locks
  <2>2. next_decoding \in Slots /\ prev_thread \in Slots /\ Stale \in Lost .. MaxPkt
    BY <1>4, MaxPktAssumption DEF UpdateFromPrev, Stale, Lost
  <2>3. \/ ctx' = ctx
        \/ ctx' = [ctx EXCEPT ![next_decoding] = ctx[prev_thread]]
        \/ ctx' = [ctx EXCEPT ![next_decoding] = Stale]
    BY <1>4 DEF UpdateFromPrev
  <2> QED
    BY <2>1, <2>2, <2>3
<1>5. CASE StartWorker
  <2>1. UNCHANGED <<ctx, result, hwaccel_mutex, buffer_mutex>>
    BY <1>5, StartWorkerMeans DEF locks
  <2>2. state' = [state EXCEPT ![next_decoding] = "SETTING_UP"] \/ state' = state
    BY <1>5 DEF StartWorker
  <2>3. pkt' = [pkt EXCEPT ![next_decoding] = accepted + 1] \/ pkt' = pkt
    BY <1>5 DEF StartWorker
  <2>4. next_decoding \in Slots /\ accepted + 1 \in 0 .. MaxPkt
    BY <1>5, MaxPktAssumption DEF StartWorker
  <2> QED
    BY <2>1, <2>2, <2>3, <2>4
<1>6. CASE Service
  BY <1>6
     DEF Service, Goto, fctx, locks, slotVars, userVars, history, Submitted, Filled,
         Answer, Sleepers
<1>7. CASE Output
  BY <1>7 DEF Output, Goto, fctx, locks, slotVars, userVars, history, Clear, GoOn, SlotAfter
<1>8. CASE Finish
  BY <1>8 DEF Finish, Goto, fctx, locks, slotVars, userVars, history, TakeAsync
<1>9. CASE Park
  BY <1>9 DEF Park, Goto, fctx, locks, slotVars, userVars, history
<1>10. CASE Flush
  <2>1. UNCHANGED <<state, hwaccel_mutex, buffer_mutex>> /\ result' = [p \in Slots |-> "ok"]
        /\ pkt' = [p \in Slots |-> 0]
    BY <1>10 DEF Flush
  <2>2. PICK current \in {0, Lost, Stale} : ctx' = [p \in Slots |-> IF p = 0 THEN current ELSE Stale]
    BY <1>10 DEF Flush
  <2>3. current \in Lost .. MaxPkt /\ Stale \in Lost .. MaxPkt /\ 0 \in 0 .. MaxPkt
    BY MaxPktAssumption DEF Stale, Lost
  <2> QED
    BY <2>1, <2>2, <2>3
<1>11. CASE FreeStep
  BY <1>11 DEF FreeStep, Goto, fctx, locks, slotVars, userVars, history, Parked, Kill
<1>12. CASE Freed
  BY <1>12 DEF Freed, Goto, fctx, locks, slotVars, userVars, history, Parked
<1>13. ASSUME NEW w \in Slots, TakeInput(w) PROVE SlotTypes'
  BY <1>13 DEF TakeInput, At, Step, fctx, locks, slotVars, userVars, history
<1>14. ASSUME NEW w \in Slots, Die(w) PROVE SlotTypes'
  BY <1>14 DEF Die, At, Step, fctx, locks, slotVars, userVars, history
<1>15. ASSUME NEW w \in Slots, LockHw(w) PROVE SlotTypes'
  BY <1>15 DEF LockHw, At, Step, fctx, locks, slotVars, userVars, history, TakeHw
<1>16. ASSUME NEW w \in Slots, GetFormat(w) PROVE SlotTypes'
  BY <1>16 DEF GetFormat, At, Step, fctx, locks, slotVars, userVars, history, Broadcast
<1>17. ASSUME NEW w \in Slots, FormatAnswered(w) PROVE SlotTypes'
  BY <1>17
     DEF FormatAnswered, At, Step, fctx, locks, slotVars, userVars, history, SleepOn, Awake
<1>18. ASSUME NEW w \in Slots, GetBuffer(w) PROVE SlotTypes'
  BY <1>18 DEF GetBuffer, At, Step, fctx, locks, slotVars, userVars, history, Broadcast
<1>19. ASSUME NEW w \in Slots, BufferAnswered(w) PROVE SlotTypes'
  BY <1>19
     DEF BufferAnswered, At, Step, fctx, locks, slotVars, userVars, history, SleepOn, Awake
<1>20. ASSUME NEW w \in Slots, LeaveSetup(w) PROVE SlotTypes'
  <2>1. UNCHANGED <<state, pkt, hwaccel_mutex, buffer_mutex>>
    BY <1>20 DEF LeaveSetup, locks
  <2>2. result' \in [Slots -> {"ok", "error"}]
    BY <1>20 DEF LeaveSetup
  <2>3. PICK c : ctx' = [ctx EXCEPT ![w] = c] /\ c \in {Lost, pkt[w], Stale}
    BY <1>20 DEF LeaveSetup, Advance
  <2>4. c \in Lost .. MaxPkt
    BY <2>3, MaxPktAssumption DEF Stale, Lost
  <2> QED
    BY <2>1, <2>2, <2>3, <2>4
<1>21. ASSUME NEW w \in Slots, FinishSetupHw(w) PROVE SlotTypes'
  BY <1>21 DEF FinishSetupHw, At, Step, fctx, locks, slotVars, userVars, history, TakeHw
<1>22. ASSUME NEW w \in Slots, FinishSetupAsync(w) PROVE SlotTypes'
  BY <1>22 DEF FinishSetupAsync, At, Step, fctx, locks, slotVars, userVars, history, NeedsAsync
<1>23. ASSUME NEW w \in Slots, FinishSetupState(w) PROVE SlotTypes'
  BY <1>23 DEF FinishSetupState, At, Step, fctx, locks, slotVars, userVars, history, Broadcast
<1>24. ASSUME NEW w \in Slots, AwaitProgress(w) PROVE SlotTypes'
  BY <1>24 DEF AwaitProgress, At, Step, fctx, locks, slotVars, userVars, history, SleepOn, Awake
<1>25. ASSUME NEW w \in Slots, ReportProgress(w) PROVE SlotTypes'
  BY <1>25 DEF ReportProgress, At, Step, fctx, locks, slotVars, userVars, history, Broadcast
<1>26. ASSUME NEW w \in Slots, DecodeReturns(w) PROVE SlotTypes'
  BY <1>26 DEF DecodeReturns, At, Step, fctx, locks, slotVars, userVars, history
<1>27. ASSUME NEW w \in Slots, UnlockHw(w) PROVE SlotTypes'
  BY <1>27 DEF UnlockHw, At, Step, fctx, locks, slotVars, userVars, history
<1>28. ASSUME NEW w \in Slots, UnlockAsync(w) PROVE SlotTypes'
  BY <1>28 DEF UnlockAsync, At, Step, fctx, locks, slotVars, userVars, history
<1>29. ASSUME NEW w \in Slots, Ready(w) PROVE SlotTypes'
  BY <1>29 DEF Ready, At, Step, fctx, locks, slotVars, userVars, history, Broadcast
<1>30. ASSUME NEW w \in Slots, AwaitInput(w) PROVE SlotTypes'
  BY <1>30 DEF AwaitInput, At, Step, fctx, locks, slotVars, userVars, history
<1>31. ASSUME NEW t \in Slots \cup {User}, SpuriousWakeup(t) PROVE SlotTypes'
  BY <1>31 DEF SpuriousWakeup, fctx, locks, slotVars, userVars, history
<1> QED
  BY <1>1, <1>2, <1>3, <1>4, <1>5, <1>6, <1>7, <1>8, <1>9, <1>10, <1>11, <1>12, <1>13, <1>14,
     <1>15, <1>16, <1>17, <1>18, <1>19, <1>20, <1>21, <1>22, <1>23, <1>24, <1>25, <1>26, <1>27,
     <1>28, <1>29, <1>30, <1>31
     DEF Next, CallStep, Closed, WorkerStep

\* Every step keeps the types of where the threads are.
LEMMA ThreadTypesStep ==
  Types /\ Caller /\ [Next]_vars => ThreadTypes'
<1> SUFFICES ASSUME Types /\ Caller, [Next]_vars PROVE ThreadTypes'
  OBVIOUS
<1> USE DEF Types, UserTypes, FlagTypes, SlotTypes, ThreadTypes, Caller
<1>1. CASE UNCHANGED vars
  BY <1>1 DEF vars, fctx, locks, slotVars, userVars, history
<1>2. CASE Decode
  BY <1>2 DEF Decode, Goto, fctx, locks, slotVars, userVars, history
<1>3. CASE Submit
  BY <1>3 DEF Submit, Goto, fctx, locks, slotVars, userVars, history, Fail
<1>4. CASE UpdateFromPrev
  BY <1>4
     DEF UpdateFromPrev, Goto, fctx, locks, slotVars, userVars, history, PrevReady, Fail,
         SleepOn, Awake
<1>5. CASE StartWorker
  BY <1>5
     DEF StartWorker, Goto, fctx, locks, slotVars, userVars, history, Submitted, Filled,
         Fail
<1>6. CASE Service
  <2>1. wpc' = wpc /\ after' = after /\ next_decoding \in Slots
    BY <1>6, ServiceMeans
  <2>2. \/ asleep' = asleep
        \/ \E t \in Slots \cup {User} : asleep' = [asleep EXCEPT ![t] = None]
        \/ SleepOn(User, next_decoding)
    BY <1>6, ServiceMeans
  <2>3. asleep' \in [Slots \cup {User} -> Slots \cup {None}]
    <3>1. asleep \in [Slots \cup {User} -> Slots \cup {None}]
      OBVIOUS
    <3> HIDE DEF Types, UserTypes, FlagTypes, SlotTypes, ThreadTypes, Caller
    <3> QED
      BY <2>1, <2>2, <3>1 DEF SleepOn
  <2> QED
    BY <2>1, <2>3
<1>7. CASE Output
  BY <1>7 DEF Output, Goto, fctx, locks, slotVars, userVars, history, Clear, GoOn, SlotAfter
<1>8. CASE Finish
  BY <1>8 DEF Finish, Goto, fctx, locks, slotVars, userVars, history, TakeAsync
<1>9. CASE Park
  BY <1>9 DEF Park, Goto, fctx, locks, slotVars, userVars, history
<1>10. CASE Flush
  BY <1>10 DEF Flush, Goto, fctx, locks, slotVars, userVars, history, Parked, FlushContext
<1>11. CASE FreeStep
  BY <1>11 DEF FreeStep, Goto, fctx, locks, slotVars, userVars, history, Parked, Kill
<1>12. CASE Freed
  BY <1>12 DEF Freed, Goto, fctx, locks, slotVars, userVars, history, Parked
<1>13. ASSUME NEW w \in Slots, TakeInput(w) PROVE ThreadTypes'
  BY <1>13 DEF TakeInput, At, Step, fctx, locks, slotVars, userVars, history
<1>14. ASSUME NEW w \in Slots, Die(w) PROVE ThreadTypes'
  BY <1>14 DEF Die, At, Step, fctx, locks, slotVars, userVars, history
<1>15. ASSUME NEW w \in Slots, LockHw(w) PROVE ThreadTypes'
  BY <1>15 DEF LockHw, At, Step, fctx, locks, slotVars, userVars, history, TakeHw
<1>16. ASSUME NEW w \in Slots, GetFormat(w) PROVE ThreadTypes'
  BY <1>16 DEF GetFormat, At, Step, fctx, locks, slotVars, userVars, history, Broadcast
<1>17. ASSUME NEW w \in Slots, FormatAnswered(w) PROVE ThreadTypes'
  BY <1>17
     DEF FormatAnswered, At, Step, fctx, locks, slotVars, userVars, history, SleepOn, Awake
<1>18. ASSUME NEW w \in Slots, GetBuffer(w) PROVE ThreadTypes'
  BY <1>18 DEF GetBuffer, At, Step, fctx, locks, slotVars, userVars, history, Broadcast
<1>19. ASSUME NEW w \in Slots, BufferAnswered(w) PROVE ThreadTypes'
  BY <1>19
     DEF BufferAnswered, At, Step, fctx, locks, slotVars, userVars, history, SleepOn, Awake
<1>20. ASSUME NEW w \in Slots, LeaveSetup(w) PROVE ThreadTypes'
  BY <1>20 DEF LeaveSetup, At, Step, fctx, locks, slotVars, userVars, history, Advance
<1>21. ASSUME NEW w \in Slots, FinishSetupHw(w) PROVE ThreadTypes'
  BY <1>21 DEF FinishSetupHw, At, Step, fctx, locks, slotVars, userVars, history, TakeHw
<1>22. ASSUME NEW w \in Slots, FinishSetupAsync(w) PROVE ThreadTypes'
  BY <1>22 DEF FinishSetupAsync, At, Step, fctx, locks, slotVars, userVars, history, NeedsAsync
<1>23. ASSUME NEW w \in Slots, FinishSetupState(w) PROVE ThreadTypes'
  BY <1>23 DEF FinishSetupState, At, Step, fctx, locks, slotVars, userVars, history, Broadcast
<1>24. ASSUME NEW w \in Slots, AwaitProgress(w) PROVE ThreadTypes'
  <2>1. after' = after /\ Owner(w) \in Slots
    BY <1>24, OwnerSlot DEF AwaitProgress
  <2>2. \/ wpc' = [wpc EXCEPT ![w] = "report"] /\ asleep' = asleep
        \/ wpc' = wpc /\ asleep' = [asleep EXCEPT ![w] = Owner(w)]
    BY <1>24 DEF AwaitProgress, Step, SleepOn
  <2> QED
    BY <2>1, <2>2
<1>25. ASSUME NEW w \in Slots, ReportProgress(w) PROVE ThreadTypes'
  BY <1>25 DEF ReportProgress, At, Step, fctx, locks, slotVars, userVars, history, Broadcast
<1>26. ASSUME NEW w \in Slots, DecodeReturns(w) PROVE ThreadTypes'
  BY <1>26 DEF DecodeReturns, At, Step, fctx, locks, slotVars, userVars, history
<1>27. ASSUME NEW w \in Slots, UnlockHw(w) PROVE ThreadTypes'
  BY <1>27 DEF UnlockHw, At, Step, fctx, locks, slotVars, userVars, history
<1>28. ASSUME NEW w \in Slots, UnlockAsync(w) PROVE ThreadTypes'
  BY <1>28 DEF UnlockAsync, At, Step, fctx, locks, slotVars, userVars, history
<1>29. ASSUME NEW w \in Slots, Ready(w) PROVE ThreadTypes'
  BY <1>29 DEF Ready, At, Step, fctx, locks, slotVars, userVars, history, Broadcast
<1>30. ASSUME NEW w \in Slots, AwaitInput(w) PROVE ThreadTypes'
  BY <1>30 DEF AwaitInput, At, Step, fctx, locks, slotVars, userVars, history
<1>31. ASSUME NEW t \in Slots \cup {User}, SpuriousWakeup(t) PROVE ThreadTypes'
  BY <1>31 DEF SpuriousWakeup, fctx, locks, slotVars, userVars, history
<1> QED
  BY <1>1, <1>2, <1>3, <1>4, <1>5, <1>6, <1>7, <1>8, <1>9, <1>10, <1>11, <1>12, <1>13, <1>14,
     <1>15, <1>16, <1>17, <1>18, <1>19, <1>20, <1>21, <1>22, <1>23, <1>24, <1>25, <1>26, <1>27,
     <1>28, <1>29, <1>30, <1>31
     DEF Next, CallStep, Closed, WorkerStep

-----------------------------------------------------------------------------
\* How the steps move the ring.
LEMMA SameHead ==
  ASSUME next_decoding' = next_decoding, upc' = "service" <=> upc = "service"
  PROVE  Head' = Head /\ \A p \in Slots : Back(p)' = Back(p)
BY DEF Head, Back

\* The end of a submission after its services moves nothing.
LEMMA SubmittedHead ==
  ASSUME Types, Caller, Service, Submitted(next_decoding)
  PROVE  Head' = Head /\ \A p \in Slots : Back(p)' = Back(p)
<1>1. upc = "service" /\ upc' # "service" /\ next_decoding' = next_decoding + 1
  BY ServiceMeans, SubmittedMeans
<1> QED
  BY <1>1 DEF Head, Back

\* A submission goes to the head, and all others fall back by one.
LEMMA StartHead ==
  ASSUME Types, Caller, StartWorker, accepted' = accepted + 1
  PROVE  /\ Head = next_decoding
         /\ Head' = (IF next_decoding + 1 >= N THEN 0 ELSE next_decoding + 1)
         /\ \A p \in Slots : Back(p)' = IF p = next_decoding THEN 0 ELSE Back(p) + 1
<1>1. /\ upc = "packet" /\ next_decoding \in 0 .. N - 1 /\ N \in Nat /\ N > 1 /\ accepted \in Nat
  BY StartWorkerMeans, NAssumption DEF Slots, Types, UserTypes
<1>2. Head = next_decoding
  BY <1>1 DEF Head, Wrap
<1>3. Head' = (IF next_decoding + 1 >= N THEN 0 ELSE next_decoding + 1)
  <2>1. CASE upc' = "service" /\ UNCHANGED fctx
    BY <1>1, <2>1 DEF Head, Wrap, fctx
  <2>2. CASE Submitted(next_decoding)
    <3>1. upc' # "service" /\ next_decoding' = next_decoding + 1
      BY <2>2, SubmittedMeans, StartWorkerMeans
    <3> QED
      BY <1>1, <3>1 DEF Head, Wrap
  <2>3. CASE UNCHANGED <<fctx, state, pkt, accepted>>
    BY <1>1, <2>3
  <2> QED
    BY <2>1, <2>2, <2>3, StartWorkerMeans
<1>4. \A p \in Slots : Back(p) = (IF p < Head THEN Head - 1 - p ELSE Head - 1 - p + N)
                    /\ Back(p)' = (IF p < Head' THEN Head' - 1 - p ELSE Head' - 1 - p + N)
  BY DEF Back
<1> QED
  BY <1>1, <1>2, <1>3, <1>4 DEF Slots

\* Output moves nothing in the ring.
LEMMA OutputHead ==
  ASSUME Types, Output
  PROVE  Head' = Head /\ \A p \in Slots : Back(p)' = Back(p)
<1>1. /\ upc = "output" /\ upc' # "service" /\ next_decoding \in 0 .. N /\ N \in Nat /\ N > 1
      /\ next_decoding' = next_decoding
            \/ next_decoding' = (IF next_decoding >= N THEN 0 ELSE next_decoding)
  BY OutputMeans, NAssumption DEF Types, UserTypes
<1>2. Head' = Head
  BY <1>1 DEF Head, Wrap
<1> QED
  BY <1>2 DEF Back

\* The slot of the last submission, and the slot after another.
LEMMA BackExists ==
  ASSUME Types
  PROVE  \E p \in Slots : Back(p) = 0
<1>1. Head \in 0 .. N - 1 /\ N \in Nat /\ N > 1
  BY BackRange, NAssumption DEF Slots
<1>2. CASE Head = 0
  <2>1. N - 1 \in Slots /\ Back(N - 1) = 0
    BY <1>1, <1>2 DEF Back, Slots
  <2> QED
    BY <2>1
<1>3. CASE Head # 0
  <2>1. Head - 1 \in Slots /\ Back(Head - 1) = 0
    BY <1>1, <1>3 DEF Back, Slots
  <2> QED
    BY <2>1
<1> QED
  BY <1>2, <1>3

\* The slot after another is one step nearer to the head.
LEMMA NextSlot ==
  ASSUME Types, NEW q \in Slots, NEW r \in Slots, r = IF q + 1 >= N THEN 0 ELSE q + 1
  PROVE  Back(r) = IF Back(q) = 0 THEN N - 1 ELSE Back(q) - 1
<1>1. Head \in 0 .. N - 1 /\ N \in Nat /\ N > 1 /\ q \in 0 .. N - 1 /\ r \in 0 .. N - 1
  BY BackRange, NAssumption DEF Slots
<1> QED
  BY <1>1 DEF Back

\* When the output loop has gone around, it has looked at every slot.
LEMMA WholeCircle ==
  ASSUME Types, Output, finished' = next_finished
  PROVE  \A q \in Slots : q # finished =>
            Ahead(next_finished, q) < Ahead(next_finished, finished)
<1>1. /\ finished' = (IF finished + 1 >= N THEN 0 ELSE finished + 1) /\ finished \in 0 .. N - 1
      /\ next_finished \in 0 .. N - 1 /\ N \in Nat /\ N > 1
  BY OutputMeans, NAssumption DEF Types, UserTypes, Slots
<1> QED
  BY <1>1 DEF Ahead, Slots

\* A round of the output loop takes the oldest submission, or finds none in its slot.
LEMMA OutputTakes ==
  ASSUME Types, Contents, Position, Output
  PROVE  /\ Back(finished) \in Slots /\ Untaken \in Nat /\ Back(finished) >= Untaken - 1
         /\ taken' = IF Back(finished) < Untaken THEN taken + 1 ELSE taken
         /\ taken' <= accepted
         /\ finished' = next_finished => taken' = accepted
<1>1. /\ accepted \in Nat /\ taken \in Nat /\ taken <= accepted /\ pkt[finished] \in Nat
      /\ finished \in Slots /\ Back(finished) \in Nat
      /\ taken' = (IF pkt[finished] > taken THEN pkt[finished] ELSE taken)
      /\ Back(finished) >= accepted - taken - 1 /\ Back(finished) \in Slots
  <2>1. /\ finished \in Slots /\ upc = "output"
        /\ taken' = (IF pkt[finished] > taken THEN pkt[finished] ELSE taken)
    BY OutputMeans
  <2>2. accepted \in Nat /\ taken \in Nat /\ pkt[finished] \in Nat
    BY <2>1, MaxPktAssumption DEF Types, UserTypes, SlotTypes
  <2>3. Back(finished) \in Slots /\ Back(finished) \in Nat
    BY <2>1, BackRange, NAssumption DEF Slots
  <2>4. taken <= accepted /\ Back(finished) >= accepted - taken - 1
    BY <2>1 DEF Contents, Position, Untaken
  <2> QED
    BY <2>1, <2>2, <2>3, <2>4
<1>2. /\ Back(finished) < accepted - taken => pkt[finished] = accepted - Back(finished)
      /\ Back(finished) >= accepted - taken => pkt[finished] <= taken
  BY <1>1 DEF Contents, Untaken
<1>3. /\ taken' = IF Back(finished) < accepted - taken THEN taken + 1 ELSE taken
      /\ taken' <= accepted
  BY <1>1, <1>2
<1>4. ASSUME finished' = next_finished PROVE taken' = accepted
  <2>1. PICK p \in Slots : Back(p) = 0
    BY BackExists
  <2>2. CASE p = finished
    BY <1>1, <1>3, <2>1, <2>2
  <2>3. CASE p # finished
    <3>1. upc = "output" /\ Ahead(next_finished, p) < Ahead(next_finished, finished)
      BY <1>4, <2>3, WholeCircle, OutputMeans
    <3>2. Back(p) >= accepted - taken
      BY <3>1 DEF Position, Untaken
    <3> QED
      BY <1>1, <1>3, <2>1, <3>2
  <2> QED
    BY <2>2, <2>3
<1> QED
  BY <1>1, <1>3, <1>4 DEF Untaken

\* Every step keeps the phases of the workers.
LEMMA PhasesStep ==
  Inv /\ [Next]_vars => Phases'
<1> SUFFICES ASSUME Inv, [Next]_vars PROVE Phases'
  OBVIOUS
<1> USE DEF Inv, Types, UserTypes, FlagTypes, SlotTypes, ThreadTypes, Phases, Caller,
            Callbacks, Contexts, Setup
<1>1. CASE UNCHANGED vars
  BY <1>1 DEF vars, fctx, locks, slotVars, userVars, history
<1>2. CASE Decode
  BY <1>2 DEF Decode, Goto, fctx, locks, slotVars, userVars, history
<1>3. CASE Submit
  BY <1>3 DEF Submit, Goto, fctx, locks, slotVars, userVars, history, Fail
<1>4. CASE UpdateFromPrev
  BY <1>4
     DEF UpdateFromPrev, Goto, fctx, locks, slotVars, userVars, history, PrevReady, Fail,
         SleepOn, Awake
<1>5. CASE StartWorker
  BY <1>5
     DEF StartWorker, Goto, fctx, locks, slotVars, userVars, history, Submitted, Filled,
         Fail
<1>6. CASE Service
  BY <1>6
     DEF Service, Goto, fctx, locks, slotVars, userVars, history, Submitted, Filled,
         Answer, Sleepers
<1>7. CASE Output
  BY <1>7 DEF Output, Goto, fctx, locks, slotVars, userVars, history, Clear, GoOn, SlotAfter
<1>8. CASE Finish
  BY <1>8 DEF Finish, Goto, fctx, locks, slotVars, userVars, history, TakeAsync
<1>9. CASE Park
  BY <1>9 DEF Park, Goto, fctx, locks, slotVars, userVars, history
<1>10. CASE Flush
  BY <1>10 DEF Flush, Goto, fctx, locks, slotVars, userVars, history, Parked, FlushContext
<1>11. CASE FreeStep
  BY <1>11 DEF FreeStep, Goto, fctx, locks, slotVars, userVars, history, Parked, Kill
<1>12. CASE Freed
  BY <1>12 DEF Freed, Goto, fctx, locks, slotVars, userVars, history, Parked
<1>13. ASSUME NEW w \in Slots, TakeInput(w) PROVE Phases'
  BY <1>13 DEF TakeInput, At, Step, fctx, locks, slotVars, userVars, history
<1>14. ASSUME NEW w \in Slots, Die(w) PROVE Phases'
  BY <1>14 DEF Die, At, Step, fctx, locks, slotVars, userVars, history
<1>15. ASSUME NEW w \in Slots, LockHw(w) PROVE Phases'
  BY <1>15 DEF LockHw, At, Step, fctx, locks, slotVars, userVars, history, TakeHw
<1>16. ASSUME NEW w \in Slots, GetFormat(w) PROVE Phases'
  BY <1>16 DEF GetFormat, At, Step, fctx, locks, slotVars, userVars, history, Broadcast
<1>17. ASSUME NEW w \in Slots, FormatAnswered(w) PROVE Phases'
  BY <1>17
     DEF FormatAnswered, At, Step, fctx, locks, slotVars, userVars, history, SleepOn, Awake
<1>18. ASSUME NEW w \in Slots, GetBuffer(w) PROVE Phases'
  BY <1>18 DEF GetBuffer, At, Step, fctx, locks, slotVars, userVars, history, Broadcast
<1>19. ASSUME NEW w \in Slots, BufferAnswered(w) PROVE Phases'
  BY <1>19
     DEF BufferAnswered, At, Step, fctx, locks, slotVars, userVars, history, SleepOn, Awake
<1>20. ASSUME NEW w \in Slots, LeaveSetup(w) PROVE Phases'
  BY <1>20 DEF LeaveSetup, At, Step, fctx, locks, slotVars, userVars, history, Advance
<1>21. ASSUME NEW w \in Slots, FinishSetupHw(w) PROVE Phases'
  BY <1>21 DEF FinishSetupHw, At, Step, fctx, locks, slotVars, userVars, history, TakeHw
<1>22. ASSUME NEW w \in Slots, FinishSetupAsync(w) PROVE Phases'
  BY <1>22 DEF FinishSetupAsync, At, Step, fctx, locks, slotVars, userVars, history, NeedsAsync
<1>23. ASSUME NEW w \in Slots, FinishSetupState(w) PROVE Phases'
  BY <1>23 DEF FinishSetupState, At, Step, fctx, locks, slotVars, userVars, history, Broadcast
<1>24. ASSUME NEW w \in Slots, AwaitProgress(w) PROVE Phases'
  BY <1>24 DEF AwaitProgress, At, Step, fctx, locks, slotVars, userVars, history, SleepOn, Awake
<1>25. ASSUME NEW w \in Slots, ReportProgress(w) PROVE Phases'
  BY <1>25 DEF ReportProgress, At, Step, fctx, locks, slotVars, userVars, history, Broadcast
<1>26. ASSUME NEW w \in Slots, DecodeReturns(w) PROVE Phases'
  BY <1>26 DEF DecodeReturns, At, Step, fctx, locks, slotVars, userVars, history
<1>27. ASSUME NEW w \in Slots, UnlockHw(w) PROVE Phases'
  BY <1>27 DEF UnlockHw, At, Step, fctx, locks, slotVars, userVars, history
<1>28. ASSUME NEW w \in Slots, UnlockAsync(w) PROVE Phases'
  BY <1>28 DEF UnlockAsync, At, Step, fctx, locks, slotVars, userVars, history
<1>29. ASSUME NEW w \in Slots, Ready(w) PROVE Phases'
  BY <1>29 DEF Ready, At, Step, fctx, locks, slotVars, userVars, history, Broadcast
<1>30. ASSUME NEW w \in Slots, AwaitInput(w) PROVE Phases'
  BY <1>30 DEF AwaitInput, At, Step, fctx, locks, slotVars, userVars, history
<1>31. ASSUME NEW t \in Slots \cup {User}, SpuriousWakeup(t) PROVE Phases'
  BY <1>31 DEF SpuriousWakeup, fctx, locks, slotVars, userVars, history
<1> QED
  BY <1>1, <1>2, <1>3, <1>4, <1>5, <1>6, <1>7, <1>8, <1>9, <1>10, <1>11, <1>12, <1>13, <1>14,
     <1>15, <1>16, <1>17, <1>18, <1>19, <1>20, <1>21, <1>22, <1>23, <1>24, <1>25, <1>26, <1>27,
     <1>28, <1>29, <1>30, <1>31
     DEF Next, CallStep, Closed, WorkerStep

\* Every step keeps what the user's thread relies on.
LEMMA CallerStep ==
  Inv /\ [Next]_vars => Caller'
<1> SUFFICES ASSUME Inv, [Next]_vars PROVE Caller'
  OBVIOUS
<1> USE DEF Inv, Types, UserTypes, FlagTypes, SlotTypes, ThreadTypes, Phases, Caller, InCall,
            Callbacks
<1>1. CASE UNCHANGED vars
  BY <1>1 DEF vars, fctx, locks, slotVars, userVars, history
<1>2. CASE Decode
  BY <1>2 DEF Decode, Goto, fctx, locks, slotVars, userVars, history
<1>3. CASE Submit
  <2>1. UNCHANGED <<next_decoding, finished, next_finished, accepted, wpc, state, prev_thread, codec,
                    draining, empty, taken>>
        /\ upc = "submit" /\ wpc[next_decoding] = "wait"
    BY <1>3 DEF Submit, fctx, slotVars
  <2>2. \/ upc' = "finish" /\ outcome' = "error"
        \/ upc' \in {"packet", "prev"} /\ (upc' = "prev" => prev_thread # None) /\ outcome' = outcome
    BY <1>3 DEF Submit, Fail, Goto
  <2>3. next_decoding \in Slots /\ Head = next_decoding
    BY <2>1, NAssumption DEF Head, Wrap, Slots
  <2>4. Back(next_decoding) = N - 1 /\ Untaken < N /\ Untaken \in Int
    BY <2>1, <2>3, BackRange DEF Position, Untaken
  <2>5. Back(next_decoding) >= Untaken
    BY <2>4, NAssumption
  <2>6. state[next_decoding] = "INPUT_READY"
    BY <2>3, <2>5 DEF Contents
  <2> QED
    BY <2>1, <2>2, <2>3, <2>6
<1>4. CASE UpdateFromPrev
  BY <1>4
     DEF UpdateFromPrev, Goto, fctx, locks, slotVars, userVars, history, PrevReady, Fail,
         SleepOn, Awake
<1>5. CASE StartWorker
  <2>1. /\ upc = "packet" /\ next_decoding \in Slots /\ draining = empty /\ outcome # "eof"
        /\ finished' = next_finished' /\ draining' = empty'
    BY <1>5, StartWorkerMeans
  <2>2. CASE upc' = "finish" /\ outcome' = "error" /\ UNCHANGED fctx
    BY <2>1, <2>2 DEF fctx
  <2>3. CASE Callbacks /\ upc' = "service" /\ UNCHANGED fctx /\ outcome' = outcome /\ codec' = codec
    BY <2>1, <2>3 DEF fctx
  <2>4. CASE Submitted(next_decoding) /\ outcome' = outcome
    <3>1. /\ next_decoding' = next_decoding + 1
          /\ (upc' = "finish" /\ next_decoding + 1 < N) \/ upc' = "output"
      BY <2>1, <2>4, SubmittedMeans
    <3>2. upc' = "finish" => next_decoding' \in Slots
      BY <2>1, <3>1, NAssumption DEF Slots
    <3> QED
      BY <2>1, <2>4, <3>1, <3>2
  <2> QED
    BY <1>5, <2>2, <2>3, <2>4, StartWorkerMeans
<1>6. CASE Service
  <2>1. /\ upc = "service" /\ next_decoding \in Slots /\ draining = empty /\ outcome # "eof"
        /\ finished' = next_finished' /\ draining' = empty' /\ outcome' = outcome /\ codec' = codec
    BY <1>6, ServiceMeans DEF history
  <2>2. CASE UNCHANGED <<upc, fctx>>
    BY <2>1, <2>2 DEF fctx
  <2>3. CASE Submitted(next_decoding)
    <3>1. /\ next_decoding' = next_decoding + 1
          /\ (upc' = "finish" /\ next_decoding + 1 < N) \/ upc' = "output"
      BY <2>1, <2>3, SubmittedMeans
    <3>2. upc' = "finish" => next_decoding' \in Slots
      BY <2>1, <3>1, NAssumption DEF Slots
    <3> QED
      BY <2>1, <2>3, <3>1, <3>2
  <2> QED
    BY <1>6, <2>2, <2>3, ServiceMeans
<1>7. CASE Output
  <2>1. /\ upc = "output" /\ draining = empty /\ outcome # "eof" /\ draining' = empty'
        /\ accepted' = accepted
    <3>1. Types
      OBVIOUS
    <3>2. upc = "output" /\ UNCHANGED <<accepted, empty, draining>>
      <4> HIDE DEF Inv, Types, UserTypes, FlagTypes, SlotTypes, ThreadTypes, Phases, Caller
      <4> QED
        BY <1>7, <3>1, OutputMeans
    <3> HIDE DEF Types, UserTypes, FlagTypes, SlotTypes, ThreadTypes, Phases
    <3> QED
      BY <3>2
  <2>2. CASE UNCHANGED <<upc, outcome, next_decoding, next_finished>>
    BY <2>1, <2>2
  <2>3. CASE /\ ~empty \/ got_frame[finished] \/ result[finished] # "ok"
                \/ finished' = next_finished
             /\ upc' = "finish" /\ next_finished' = finished' /\ next_decoding' \in Slots
             /\ outcome' = "eof" => empty /\ ~got_frame[finished] /\ result[finished] = "ok"
    <3>1. outcome' = "eof" => taken' = accepted
      BY <1>7, <2>3, OutputTakes
    <3> QED
      BY <2>1, <2>3, <3>1
  <2> QED
    BY <1>7, <2>2, <2>3, OutputMeans
<1>8. CASE Finish
  BY <1>8 DEF Finish, Goto, fctx, locks, slotVars, userVars, history, TakeAsync
<1>9. CASE Park
  BY <1>9 DEF Park, Goto, fctx, locks, slotVars, userVars, history
<1>10. CASE Flush
  <2>1. /\ next_decoding' = 0 /\ next_finished' = 0 /\ finished' = 0 /\ upc' = "out"
        /\ outcome' = "none" /\ 0 \in Slots
    BY <1>10, NAssumption DEF Flush, Goto, Slots
  <2> QED
    BY <2>1
<1>11. CASE FreeStep
  BY <1>11 DEF FreeStep, Goto, fctx, locks, slotVars, userVars, history, Parked, Kill
<1>12. CASE Freed
  BY <1>12 DEF Freed, Goto, fctx, locks, slotVars, userVars, history, Parked
<1>13. ASSUME NEW w \in Slots, TakeInput(w) PROVE Caller'
  BY <1>13 DEF TakeInput, At, Step, fctx, locks, slotVars, userVars, history
<1>14. ASSUME NEW w \in Slots, Die(w) PROVE Caller'
  BY <1>14 DEF Die, At, Step, fctx, locks, slotVars, userVars, history
<1>15. ASSUME NEW w \in Slots, LockHw(w) PROVE Caller'
  BY <1>15 DEF LockHw, At, Step, fctx, locks, slotVars, userVars, history, TakeHw
<1>16. ASSUME NEW w \in Slots, GetFormat(w) PROVE Caller'
  BY <1>16 DEF GetFormat, At, Step, fctx, locks, slotVars, userVars, history, Broadcast
<1>17. ASSUME NEW w \in Slots, FormatAnswered(w) PROVE Caller'
  BY <1>17
     DEF FormatAnswered, At, Step, fctx, locks, slotVars, userVars, history, SleepOn, Awake
<1>18. ASSUME NEW w \in Slots, GetBuffer(w) PROVE Caller'
  BY <1>18 DEF GetBuffer, At, Step, fctx, locks, slotVars, userVars, history, Broadcast
<1>19. ASSUME NEW w \in Slots, BufferAnswered(w) PROVE Caller'
  BY <1>19
     DEF BufferAnswered, At, Step, fctx, locks, slotVars, userVars, history, SleepOn, Awake
<1>20. ASSUME NEW w \in Slots, LeaveSetup(w) PROVE Caller'
  BY <1>20 DEF LeaveSetup, At, Step, fctx, locks, slotVars, userVars, history, Advance
<1>21. ASSUME NEW w \in Slots, FinishSetupHw(w) PROVE Caller'
  BY <1>21 DEF FinishSetupHw, At, Step, fctx, locks, slotVars, userVars, history, TakeHw
<1>22. ASSUME NEW w \in Slots, FinishSetupAsync(w) PROVE Caller'
  BY <1>22 DEF FinishSetupAsync, At, Step, fctx, locks, slotVars, userVars, history, NeedsAsync
<1>23. ASSUME NEW w \in Slots, FinishSetupState(w) PROVE Caller'
  BY <1>23 DEF FinishSetupState, At, Step, fctx, locks, slotVars, userVars, history, Broadcast
<1>24. ASSUME NEW w \in Slots, AwaitProgress(w) PROVE Caller'
  BY <1>24 DEF AwaitProgress, At, Step, fctx, locks, slotVars, userVars, history, SleepOn, Awake
<1>25. ASSUME NEW w \in Slots, ReportProgress(w) PROVE Caller'
  BY <1>25 DEF ReportProgress, At, Step, fctx, locks, slotVars, userVars, history, Broadcast
<1>26. ASSUME NEW w \in Slots, DecodeReturns(w) PROVE Caller'
  BY <1>26 DEF DecodeReturns, At, Step, fctx, locks, slotVars, userVars, history
<1>27. ASSUME NEW w \in Slots, UnlockHw(w) PROVE Caller'
  BY <1>27 DEF UnlockHw, At, Step, fctx, locks, slotVars, userVars, history
<1>28. ASSUME NEW w \in Slots, UnlockAsync(w) PROVE Caller'
  BY <1>28 DEF UnlockAsync, At, Step, fctx, locks, slotVars, userVars, history
<1>29. ASSUME NEW w \in Slots, Ready(w) PROVE Caller'
  BY <1>29 DEF Ready, At, Step, fctx, locks, slotVars, userVars, history, Broadcast
<1>30. ASSUME NEW w \in Slots, AwaitInput(w) PROVE Caller'
  BY <1>30 DEF AwaitInput, At, Step, fctx, locks, slotVars, userVars, history
<1>31. ASSUME NEW t \in Slots \cup {User}, SpuriousWakeup(t) PROVE Caller'
  BY <1>31 DEF SpuriousWakeup, fctx, locks, slotVars, userVars, history
<1> QED
  BY <1>1, <1>2, <1>3, <1>4, <1>5, <1>6, <1>7, <1>8, <1>9, <1>10, <1>11, <1>12, <1>13, <1>14,
     <1>15, <1>16, <1>17, <1>18, <1>19, <1>20, <1>21, <1>22, <1>23, <1>24, <1>25, <1>26, <1>27,
     <1>28, <1>29, <1>30, <1>31
     DEF Next, CallStep, Closed, WorkerStep

\* Every step keeps the holders of the locks.
LEMMA LocksStep ==
  Inv /\ [Next]_vars => Locks'
<1> SUFFICES ASSUME Inv, [Next]_vars PROVE Locks'
  OBVIOUS
<1> USE DEF Inv, Types, UserTypes, FlagTypes, SlotTypes, ThreadTypes, Phases, Caller, Locks,
            Outside, AsyncSafe
<1>1. CASE UNCHANGED vars
  BY <1>1 DEF vars, fctx, locks, slotVars, userVars, history
<1>2. CASE Decode
  BY <1>2 DEF Decode, Goto, fctx, locks, slotVars, userVars, history
<1>3. CASE Submit
  BY <1>3 DEF Submit, Goto, fctx, locks, slotVars, userVars, history, Fail
<1>4. CASE UpdateFromPrev
  BY <1>4
     DEF UpdateFromPrev, Goto, fctx, locks, slotVars, userVars, history, PrevReady, Fail,
         SleepOn, Awake
<1>5. CASE StartWorker
  BY <1>5
     DEF StartWorker, Goto, fctx, locks, slotVars, userVars, history, Submitted, Filled,
         Fail
<1>6. CASE Service
  BY <1>6
     DEF Service, Goto, fctx, locks, slotVars, userVars, history, Submitted, Filled,
         Answer, Sleepers
<1>7. CASE Output
  BY <1>7 DEF Output, Goto, fctx, locks, slotVars, userVars, history, Clear, GoOn, SlotAfter
<1>8. CASE Finish
  BY <1>8 DEF Finish, Goto, fctx, locks, slotVars, userVars, history, TakeAsync
<1>9. CASE Park
  BY <1>9 DEF Park, Goto, fctx, locks, slotVars, userVars, history
<1>10. CASE Flush
  BY <1>10 DEF Flush, Goto, fctx, locks, slotVars, userVars, history, Parked, FlushContext
<1>11. CASE FreeStep
  BY <1>11 DEF FreeStep, Goto, fctx, locks, slotVars, userVars, history, Parked, Kill
<1>12. CASE Freed
  BY <1>12 DEF Freed, Goto, fctx, locks, slotVars, userVars, history, Parked
<1>13. ASSUME NEW w \in Slots, TakeInput(w) PROVE Locks'
  BY <1>13 DEF TakeInput, At, Step, fctx, locks, slotVars, userVars, history
<1>14. ASSUME NEW w \in Slots, Die(w) PROVE Locks'
  BY <1>14 DEF Die, At, Step, fctx, locks, slotVars, userVars, history
<1>15. ASSUME NEW w \in Slots, LockHw(w) PROVE Locks'
  <2>1. None \notin Slots
    BY NAssumption DEF None, Slots
  <2> QED
    BY <1>15, <2>1 DEF LockHw, At, Step, fctx, locks, slotVars, userVars, history, TakeHw
<1>16. ASSUME NEW w \in Slots, GetFormat(w) PROVE Locks'
  BY <1>16 DEF GetFormat, At, Step, fctx, locks, slotVars, userVars, history, Broadcast
<1>17. ASSUME NEW w \in Slots, FormatAnswered(w) PROVE Locks'
  BY <1>17
     DEF FormatAnswered, At, Step, fctx, locks, slotVars, userVars, history, SleepOn, Awake
<1>18. ASSUME NEW w \in Slots, GetBuffer(w) PROVE Locks'
  BY <1>18 DEF GetBuffer, At, Step, fctx, locks, slotVars, userVars, history, Broadcast
<1>19. ASSUME NEW w \in Slots, BufferAnswered(w) PROVE Locks'
  BY <1>19
     DEF BufferAnswered, At, Step, fctx, locks, slotVars, userVars, history, SleepOn, Awake
<1>20. ASSUME NEW w \in Slots, LeaveSetup(w) PROVE Locks'
  BY <1>20 DEF LeaveSetup, At, Step, fctx, locks, slotVars, userVars, history, Advance
<1>21. ASSUME NEW w \in Slots, FinishSetupHw(w) PROVE Locks'
  <2>1. None \notin Slots
    BY NAssumption DEF None, Slots
  <2> QED
    BY <1>21, <2>1 DEF FinishSetupHw, At, Step, fctx, locks, slotVars, userVars, history, TakeHw
<1>22. ASSUME NEW w \in Slots, FinishSetupAsync(w) PROVE Locks'
  BY <1>22 DEF FinishSetupAsync, At, Step, fctx, locks, slotVars, userVars, history, NeedsAsync
<1>23. ASSUME NEW w \in Slots, FinishSetupState(w) PROVE Locks'
  BY <1>23 DEF FinishSetupState, At, Step, fctx, locks, slotVars, userVars, history, Broadcast
<1>24. ASSUME NEW w \in Slots, AwaitProgress(w) PROVE Locks'
  BY <1>24 DEF AwaitProgress, At, Step, fctx, locks, slotVars, userVars, history, SleepOn, Awake
<1>25. ASSUME NEW w \in Slots, ReportProgress(w) PROVE Locks'
  BY <1>25 DEF ReportProgress, At, Step, fctx, locks, slotVars, userVars, history, Broadcast
<1>26. ASSUME NEW w \in Slots, DecodeReturns(w) PROVE Locks'
  BY <1>26 DEF DecodeReturns, At, Step, fctx, locks, slotVars, userVars, history
<1>27. ASSUME NEW w \in Slots, UnlockHw(w) PROVE Locks'
  BY <1>27 DEF UnlockHw, At, Step, fctx, locks, slotVars, userVars, history
<1>28. ASSUME NEW w \in Slots, UnlockAsync(w) PROVE Locks'
  BY <1>28 DEF UnlockAsync, At, Step, fctx, locks, slotVars, userVars, history
<1>29. ASSUME NEW w \in Slots, Ready(w) PROVE Locks'
  BY <1>29 DEF Ready, At, Step, fctx, locks, slotVars, userVars, history, Broadcast
<1>30. ASSUME NEW w \in Slots, AwaitInput(w) PROVE Locks'
  BY <1>30 DEF AwaitInput, At, Step, fctx, locks, slotVars, userVars, history
<1>31. ASSUME NEW t \in Slots \cup {User}, SpuriousWakeup(t) PROVE Locks'
  BY <1>31 DEF SpuriousWakeup, fctx, locks, slotVars, userVars, history
<1> QED
  BY <1>1, <1>2, <1>3, <1>4, <1>5, <1>6, <1>7, <1>8, <1>9, <1>10, <1>11, <1>12, <1>13, <1>14,
     <1>15, <1>16, <1>17, <1>18, <1>19, <1>20, <1>21, <1>22, <1>23, <1>24, <1>25, <1>26, <1>27,
     <1>28, <1>29, <1>30, <1>31
     DEF Next, CallStep, Closed, WorkerStep

\* Every step keeps what lies in the ring.
LEMMA ContentsStep ==
  Inv /\ [Next]_vars => Contents'
<1> SUFFICES ASSUME Inv, [Next]_vars PROVE Contents'
  OBVIOUS
<1> USE DEF Inv
<1>1. CASE UNCHANGED vars
  <2>1. /\ UNCHANGED <<next_decoding, accepted, taken, pkt, state, got_frame, result>>
        /\ upc' = "service" <=> upc = "service"
    BY <1>1 DEF vars, fctx, slotVars, userVars, history
  <2>2. Untaken' = Untaken /\ \A p \in Slots : Back(p)' = Back(p)
    BY <2>1, SameHead DEF Untaken
  <2> QED
    BY <2>1, <2>2 DEF Contents
<1>2. CASE Decode
  <2>1. /\ UNCHANGED <<next_decoding, accepted, taken, pkt, state, got_frame, result>>
        /\ upc' = "service" <=> upc = "service"
    BY <1>2 DEF Decode, Goto, fctx, slotVars
  <2>2. Untaken' = Untaken /\ \A p \in Slots : Back(p)' = Back(p)
    BY <2>1, SameHead DEF Untaken
  <2> QED
    BY <2>1, <2>2 DEF Contents
<1>3. CASE Submit
  <2>1. /\ UNCHANGED <<next_decoding, accepted, taken, pkt, state, got_frame, result>>
        /\ upc' = "service" <=> upc = "service"
    BY <1>3 DEF Submit, Fail, Goto, fctx, slotVars
  <2>2. Untaken' = Untaken /\ \A p \in Slots : Back(p)' = Back(p)
    BY <2>1, SameHead DEF Untaken
  <2> QED
    BY <2>1, <2>2 DEF Contents
<1>4. CASE UpdateFromPrev
  <2>1. /\ UNCHANGED <<next_decoding, accepted, taken, pkt, state, got_frame, result>>
        /\ upc' = "service" <=> upc = "service"
    BY <1>4 DEF UpdateFromPrev, Fail, Goto, fctx
  <2>2. Untaken' = Untaken /\ \A p \in Slots : Back(p)' = Back(p)
    BY <2>1, SameHead DEF Untaken
  <2> QED
    BY <2>1, <2>2 DEF Contents
<1>5. CASE StartWorker
  <2>1. /\ UNCHANGED <<got_frame, result, taken>> /\ next_decoding \in Slots
        /\ accepted \in Nat /\ taken \in Nat /\ upc = "packet"
    BY <1>5, StartWorkerMeans, MaxPktAssumption DEF Types, UserTypes
  <2>2. CASE upc' = "finish" /\ UNCHANGED <<fctx, state, pkt, accepted>>
    <3>1. Untaken' = Untaken /\ \A p \in Slots : Back(p)' = Back(p)
      BY <2>1, <2>2, SameHead DEF Untaken, fctx
    <3> QED
      BY <2>1, <2>2, <3>1 DEF Contents
  <2>3. CASE /\ accepted' = accepted + 1
             /\ \A q \in Slots :
                   /\ pkt'[q] = IF q = next_decoding THEN accepted + 1 ELSE pkt[q]
                   /\ state'[q] = IF q = next_decoding THEN "SETTING_UP" ELSE state[q]
    <3>1. \A p \in Slots : Back(p)' = (IF p = next_decoding THEN 0 ELSE Back(p) + 1)
                          /\ Back(p) \in Int
      BY <1>5, <2>3, StartHead, BackRange, NAssumption DEF Slots
    <3>2. Untaken' = Untaken + 1 /\ Untaken \in Nat /\ taken' <= accepted'
      BY <2>1, <2>3 DEF Untaken, Contents
    <3>3. ASSUME NEW p \in Slots, p = next_decoding
          PROVE  Back(p)' < Untaken' /\ pkt'[p] = accepted' - Back(p)'
      BY <2>1, <2>3, <3>1, <3>2, <3>3
    <3>4. ASSUME NEW p \in Slots, p # next_decoding
          PROVE  /\ Back(p)' < Untaken' => pkt'[p] = accepted' - Back(p)'
                 /\ Back(p)' >= Untaken' =>
                       /\ pkt'[p] <= taken' /\ state'[p] = "INPUT_READY"
                       /\ ~got_frame'[p] /\ result'[p] = "ok"
      BY <2>1, <2>3, <3>1, <3>2, <3>4 DEF Contents
    <3>5. \A p \in Slots : Back(p)' \in Int /\ ~(Back(p)' < Untaken' /\ Back(p)' >= Untaken')
      BY <3>1, <3>2
    <3> QED
      BY <3>2, <3>3, <3>4, <3>5 DEF Contents
  <2> QED
    BY <1>5, <2>2, <2>3, StartWorkerMeans
<1>6. CASE Service
  <2>1. UNCHANGED <<pkt, got_frame, result, taken, accepted>> /\ next_decoding \in Slots
        /\ upc = "service"
    BY <1>6, ServiceMeans DEF history
  <2>2. Untaken' = Untaken /\ \A p \in Slots : Back(p)' = Back(p)
    <3>1. CASE Submitted(next_decoding)
      BY <1>6, <2>1, <3>1, SubmittedHead DEF Untaken
    <3>2. CASE UNCHANGED <<upc, fctx>>
      BY <2>1, <3>2, SameHead DEF Untaken, fctx
    <3> QED
      BY <1>6, <3>1, <3>2, ServiceMeans
  <2>3. \A p \in Slots : state[p] = "INPUT_READY" => state'[p] = "INPUT_READY"
    BY <1>6, ServiceMeans
  <2> QED
    BY <2>1, <2>2, <2>3 DEF Contents
<1>7. CASE Output
  <2> PICK f \in Slots : f = finished
    BY OutputMeans, <1>7
  <2>1. UNCHANGED <<pkt, state, accepted>> /\ state[f] = "INPUT_READY"
        /\ \A q \in Slots : /\ got_frame'[q] = IF q = f THEN FALSE ELSE got_frame[q]
                            /\ result'[q] = IF q = f THEN "ok" ELSE result[q]
    BY <1>7, OutputMeans
  <2>2. /\ \A p \in Slots : Back(p)' = Back(p) /\ Back(p) \in Int
        /\ \A p \in Slots : p # f => Back(p) # Back(f)
    BY <1>7, <2>1, OutputHead, BackRange, NAssumption DEF Slots
  <2>3. /\ Back(f) >= Untaken - 1 /\ taken' <= accepted' /\ Untaken \in Nat
        /\ taken' = IF Back(f) < Untaken THEN taken + 1 ELSE taken
        /\ accepted \in Nat /\ taken \in Nat /\ taken <= accepted /\ pkt[f] \in Int
    BY <1>7, <2>1, OutputTakes, MaxPktAssumption DEF Types, UserTypes, SlotTypes, Contents
  <2>4. Untaken' = IF Back(f) < Untaken THEN Untaken - 1 ELSE Untaken
    BY <2>1, <2>3 DEF Untaken
  <2>4a. ~got_frame'[f] /\ result'[f] = "ok" /\ state'[f] = "INPUT_READY"
    BY <2>1
  <2>5. /\ Back(f)' >= Untaken' /\ pkt'[f] <= taken'
        /\ state'[f] = "INPUT_READY" /\ ~got_frame'[f] /\ result'[f] = "ok"
    <3>1. Untaken = accepted - taken
      BY DEF Untaken
    <3>2. CASE Back(f) < Untaken
      <4>1. pkt[f] = accepted - Back(f) /\ Back(f) = Untaken - 1
        BY <2>1, <2>2, <2>3, <3>2 DEF Contents
      <4> QED
        BY <2>1, <2>2, <2>3, <2>4, <2>4a, <3>1, <3>2, <4>1
    <3>3. CASE ~(Back(f) < Untaken)
      <4>1. pkt[f] <= taken
        BY <2>1, <2>2, <2>3, <3>3 DEF Contents
      <4> QED
        BY <2>1, <2>2, <2>3, <2>4, <2>4a, <3>3, <4>1
    <3> QED
      BY <3>2, <3>3
  <2>6. ASSUME NEW p \in Slots, p # f
        PROVE  /\ Back(p)' < Untaken' => pkt'[p] = accepted' - Back(p)'
               /\ Back(p)' >= Untaken' =>
                     /\ pkt'[p] <= taken' /\ state'[p] = "INPUT_READY"
                     /\ ~got_frame'[p] /\ result'[p] = "ok"
    <3>1. /\ Back(p)' = Back(p) /\ Back(p) \in Int /\ Back(p) # Back(f)
          /\ Back(f) \in Int /\ pkt[p] \in Int
      BY <2>1, <2>2, <2>6, MaxPktAssumption DEF Types, SlotTypes
    <3>2. CASE Back(p) < Untaken'
      <4>1. Back(p) < Untaken
        BY <2>3, <2>4, <3>1, <3>2
      <4> QED
        BY <2>1, <3>1, <3>2, <4>1, <2>3, <2>4 DEF Contents
    <3>3. CASE ~(Back(p) < Untaken')
      <4>1. Back(p) >= Untaken /\ taken' >= taken
        BY <2>3, <2>4, <3>1, <3>3
      <4>2. /\ pkt[p] <= taken /\ state[p] = "INPUT_READY" /\ ~got_frame[p] /\ result[p] = "ok"
        BY <4>1 DEF Contents
      <4>3. state'[p] = "INPUT_READY" /\ ~got_frame'[p] /\ result'[p] = "ok"
        BY <2>1, <2>6, <4>2
      <4>4. pkt'[p] <= taken'
        BY <2>1, <2>3, <2>4, <3>1, <4>1, <4>2
      <4> QED
        BY <3>1, <3>3, <4>3, <4>4
    <3> QED
      BY <3>2, <3>3
  <2> QED
    <3>1. ~(Back(f)' < Untaken')
      BY <2>1, <2>2, <2>3, <2>4, <2>5
    <3> QED
      BY <2>3, <2>5, <2>6, <3>1 DEF Contents
<1>8. CASE Finish
  <2>1. /\ UNCHANGED <<next_decoding, accepted, taken, pkt, state, got_frame, result>>
        /\ upc' = "service" <=> upc = "service"
    BY <1>8 DEF Finish, Goto, fctx, slotVars, history
  <2>2. Untaken' = Untaken /\ \A p \in Slots : Back(p)' = Back(p)
    BY <2>1, SameHead DEF Untaken
  <2> QED
    BY <2>1, <2>2 DEF Contents
<1>9. CASE Park
  <2>1. /\ UNCHANGED <<next_decoding, accepted, taken, pkt, state, got_frame, result>>
        /\ upc' = "service" <=> upc = "service"
    BY <1>9 DEF Park, Goto, fctx, slotVars, history
  <2>2. Untaken' = Untaken /\ \A p \in Slots : Back(p)' = Back(p)
    BY <2>1, SameHead DEF Untaken
  <2> QED
    BY <2>1, <2>2 DEF Contents
<1>10. CASE Flush
  <2>1. /\ accepted' = 0 /\ taken' = 0 /\ next_decoding' = 0 /\ upc' = "out" /\ state' = state
        /\ \A p \in Slots : /\ pkt'[p] = 0 /\ state[p] = "INPUT_READY"
                            /\ ~got_frame'[p] /\ result'[p] = "ok"
    BY <1>10 DEF Flush, Goto, Parked
  <2>2. Head' = 0 /\ Untaken' = 0
    BY <2>1, NAssumption DEF Head, Wrap, Untaken
  <2>3. \A p \in Slots : Back(p)' \in Nat
    BY <2>2, NAssumption DEF Back, Slots
  <2>4. \A p \in Slots : Back(p)' >= Untaken' /\ ~(Back(p)' < Untaken')
    BY <2>2, <2>3
  <2> QED
    BY <2>1, <2>4 DEF Contents
<1>11. CASE FreeStep
  <2>1. /\ UNCHANGED <<next_decoding, accepted, taken, pkt, state, got_frame, result>>
        /\ upc' = "service" <=> upc = "service"
    BY <1>11 DEF FreeStep, Kill, fctx, userVars, history
  <2>2. Untaken' = Untaken /\ \A p \in Slots : Back(p)' = Back(p)
    BY <2>1, SameHead DEF Untaken
  <2> QED
    BY <2>1, <2>2 DEF Contents
<1>12. CASE Freed
  <2>1. /\ UNCHANGED <<next_decoding, accepted, taken, pkt, state, got_frame, result>>
        /\ upc' = "service" <=> upc = "service"
    BY <1>12 DEF Freed, Goto, fctx, slotVars, history
  <2>2. Untaken' = Untaken /\ \A p \in Slots : Back(p)' = Back(p)
    BY <2>1, SameHead DEF Untaken
  <2> QED
    BY <2>1, <2>2 DEF Contents
<1>13. ASSUME NEW w \in Slots, WorkerStep(w) PROVE Contents'
  <2>1. UNCHANGED <<fctx, upc, accepted, taken, pkt>>
    BY <1>13, WorkerFrame DEF userVars, history
  <2>2. Untaken' = Untaken /\ \A p \in Slots : Back(p)' = Back(p)
    BY <2>1, SameHead DEF Untaken, fctx
  <2>3. \A p \in Slots : state[p] = "INPUT_READY" =>
           state'[p] = state[p] /\ got_frame'[p] = got_frame[p] /\ result'[p] = result[p]
    BY <1>13, WorkerFrame
  <2> QED
    BY <2>1, <2>2, <2>3 DEF Contents
<1>14. ASSUME NEW t \in Slots \cup {User}, SpuriousWakeup(t) PROVE Contents'
  <2>1. /\ UNCHANGED <<next_decoding, accepted, taken, pkt, state, got_frame, result>>
        /\ upc' = "service" <=> upc = "service"
    BY <1>14 DEF SpuriousWakeup, fctx, slotVars, userVars, history
  <2>2. Untaken' = Untaken /\ \A p \in Slots : Back(p)' = Back(p)
    BY <2>1, SameHead DEF Untaken
  <2> QED
    BY <2>1, <2>2 DEF Contents
<1> QED
  BY <1>1, <1>2, <1>3, <1>4, <1>5, <1>6, <1>7, <1>8, <1>9, <1>10, <1>11, <1>12, <1>13, <1>14
     DEF Next, CallStep, Closed

-----------------------------------------------------------------------------
\* The slot the output loop comes to, as a value.
LEMMA FinishedBack ==
  ASSUME NEW f, f = finished'
  PROVE  Back(finished)' = Back(f)'
BY DEF Back

\* What changes nothing the position depends on.
LEMMA SamePosition ==
  ASSUME Types, Position, upc' = "service" <=> upc = "service", upc' = "output" <=> upc = "output",
         UNCHANGED <<next_decoding, finished, next_finished, accepted, taken, delaying, draining,
                     empty>>
  PROVE  Position'
<1>1. PICK f \in Slots : f = finished
  BY DEF Types, UserTypes
<1>2. Untaken' = Untaken /\ Head' = Head /\ \A p \in Slots : Back(p)' = Back(p)
  BY SameHead DEF Untaken
<1>3. Back(finished)' = Back(f)' /\ Back(f)' = Back(f) /\ Back(finished) = Back(f)
  BY <1>1, <1>2, FinishedBack
<1>4. \A q \in Slots : /\ Ahead(next_finished, q)' = Ahead(next_finished, q)
                       /\ Ahead(next_finished, finished)' = Ahead(next_finished, finished)
  BY DEF Ahead
<1> QED
  BY <1>2, <1>3, <1>4 DEF Position

\* Nothing lies before the slot the output loop starts at.
LEMMA AtStart ==
  ASSUME NEW f \in Slots, f = finished', f = next_finished'
  PROVE  \A q \in Slots : ~(Ahead(next_finished, q)' < Ahead(next_finished, finished)')
<1> SUFFICES ASSUME NEW q \in Slots
             PROVE  ~(Ahead(next_finished, q)' < Ahead(next_finished, finished)')
  OBVIOUS
<1>1. f \in Int /\ q \in Int /\ 0 <= f /\ f < N /\ 0 <= q /\ q < N /\ N \in Nat
  BY NAssumption DEF Slots
<1>2. Ahead(next_finished, q)' = (IF q >= f THEN q - f ELSE q - f + N)
  BY DEF Ahead
<1>3. Ahead(next_finished, finished)' = (IF f >= f THEN f - f ELSE f - f + N)
  BY DEF Ahead
<1> QED
  BY <1>1, <1>2, <1>3

\* Outside the output loop and the service of a worker, the rest of a call changes nothing.
LEMMA QuietPosition ==
  ASSUME Types, Position, upc' \notin {"service", "output"}, upc \notin {"service", "output"},
         UNCHANGED <<next_decoding, finished, next_finished, accepted, taken, delaying, draining>>
  PROVE  Position'
<1>1. PICK f \in Slots : f = finished
  BY DEF Types, UserTypes
<1>2. Untaken' = Untaken /\ Head' = Head /\ \A p \in Slots : Back(p)' = Back(p)
  BY SameHead DEF Untaken
<1>3. Back(finished)' = Back(f)' /\ Back(f)' = Back(f) /\ Back(finished) = Back(f)
  BY <1>1, <1>2, FinishedBack
<1> QED
  BY <1>2, <1>3 DEF Position

\* Every step keeps where the output loop stands.
LEMMA PositionStep ==
  Inv /\ [Next]_vars => Position'
<1> SUFFICES ASSUME Inv, [Next]_vars PROVE Position'
  OBVIOUS
<1> USE DEF Inv
<1>1. CASE UNCHANGED vars
  <2>1. /\ UNCHANGED <<next_decoding, finished, next_finished, accepted, taken, delaying, draining,
                       empty, upc>>
    BY <1>1 DEF vars, fctx, userVars, history
  <2> QED
    BY <2>1, SamePosition
<1>2. CASE Decode
  <2>1. /\ upc = "out" /\ UNCHANGED <<next_decoding, next_finished, accepted, taken, delaying>>
        /\ finished' = next_finished /\ finished = next_finished
        /\ empty' = draining' /\ (draining => draining')
        /\ upc' \in {"submit", "output"} /\ (upc' = "output" => empty')
    BY <1>2 DEF Decode, Goto, fctx, Caller
  <2>2. PICK f \in Slots : f = finished /\ f = finished' /\ f = next_finished'
    BY <2>1 DEF Types, UserTypes
  <2>3. Untaken' = Untaken /\ Head' = Head /\ \A p \in Slots : Back(p)' = Back(p)
    BY <2>1, SameHead DEF Untaken
  <2>4. Back(finished)' = Back(f) /\ Back(finished) = Back(f) /\ Back(f) \in Nat /\ Untaken \in Nat
    BY <2>2, <2>3, FinishedBack, BackRange, NAssumption, MaxPktAssumption
       DEF Types, UserTypes, Slots, Contents, Untaken
  <2>5. \A q \in Slots : ~(Ahead(next_finished, q)' < Ahead(next_finished, finished)')
    BY <2>2, AtStart
  <2>6. /\ Untaken < N /\ (Untaken > 0 => Back(f) = Untaken - 1)
        /\ (Untaken = 0 /\ ~draining => f = Head) /\ Untaken <= N
    BY <2>1, <2>2, <2>4 DEF Position
  <2>7. delaying' /\ ~draining' =>
          /\ taken' = 0 /\ finished' = 0 /\ upc' # "output" /\ accepted' = next_decoding'
    BY <2>1 DEF Position
  <2>8. Back(finished)' >= Untaken' - 1
    BY <2>3, <2>4, <2>6
  <2> QED
    BY <2>1, <2>2, <2>3, <2>4, <2>5, <2>6, <2>7, <2>8 DEF Position
<1>3. CASE Submit
  <2>1. /\ UNCHANGED <<next_decoding, finished, next_finished, accepted, taken, delaying, draining>>
        /\ upc' \notin {"service", "output"} /\ upc \notin {"service", "output"}
    BY <1>3 DEF Submit, Fail, Goto, fctx, slotVars
  <2> QED
    BY <2>1, QuietPosition
<1>4. CASE UpdateFromPrev
  <2>1. /\ UNCHANGED <<next_decoding, finished, next_finished, accepted, taken, delaying, draining>>
        /\ upc' \notin {"service", "output"} /\ upc \notin {"service", "output"}
    BY <1>4 DEF UpdateFromPrev, Fail, Goto, fctx
  <2> QED
    BY <2>1, QuietPosition
<1>5. CASE StartWorker
  <2>1. /\ UNCHANGED <<next_finished, finished, empty, draining, taken>> /\ upc = "packet"
        /\ next_decoding \in Slots /\ finished = next_finished /\ draining = empty
        /\ accepted \in Nat /\ taken \in Nat /\ N \in Nat /\ N > 1 /\ taken <= accepted
    BY <1>5, StartWorkerMeans, NAssumption, MaxPktAssumption
       DEF Caller, InCall, Types, UserTypes, Contents
  <2>2. PICK f \in Slots : f = finished /\ f = finished' /\ f = next_finished'
    BY <2>1 DEF Types, UserTypes
  <2>3. CASE upc' = "finish" /\ UNCHANGED <<fctx, accepted>>
    BY <2>1, <2>3, QuietPosition DEF fctx
  <2>4. CASE accepted' = accepted + 1
    <3>1. Back(f)' = (IF f = next_decoding THEN 0 ELSE Back(f) + 1) /\ next_decoding = Head
      BY <1>5, <2>2, <2>4, StartHead
    <3>2. /\ Back(f) \in Nat /\ (Back(f) = N - 1 <=> f = Head)
      BY <2>1, <2>2, BackRange DEF Slots
    <3>3. /\ Untaken' = Untaken + 1 /\ Untaken \in Nat /\ Untaken < N
          /\ (Untaken > 0 => Back(f) = Untaken - 1) /\ (Untaken = 0 /\ ~draining => f = Head)
      BY <2>1, <2>2, <2>4 DEF Untaken, Position
    <3>4. /\ Untaken' > 0 /\ Untaken' <= N /\ Back(f)' >= Untaken' - 1
          /\ ~empty => Back(f)' = Untaken' - 1
      BY <2>1, <3>1, <3>2, <3>3
    <3>5. Back(finished)' = Back(f)'
      BY <2>2, FinishedBack
    <3>6. \A q \in Slots : ~(Ahead(next_finished, q)' < Ahead(next_finished, finished)')
      BY <2>2, AtStart
    <3>7. delaying /\ ~draining => taken = 0 /\ finished = 0 /\ accepted = next_decoding
      BY <2>1 DEF Position
    <3>8. CASE upc' = "service" /\ UNCHANGED fctx
      <4>1. delaying' = delaying /\ next_decoding' = next_decoding /\ next_decoding \in Nat
        BY <2>1, <3>8 DEF fctx, Slots
      <4> QED
        BY <2>1, <2>4, <3>3, <3>4, <3>5, <3>7, <3>8, <4>1 DEF Position
    <3>9. CASE Submitted(next_decoding)
      <4>1. /\ next_decoding' = next_decoding + 1
            /\ delaying' => delaying /\ next_decoding + 1 < N
            /\ \/ upc' = "finish" /\ delaying' /\ ~empty
               \/ upc' = "output" /\ (~delaying' \/ empty)
        BY <2>1, <3>9, SubmittedMeans
      <4>2. upc' = "finish" => Untaken' < N
        BY <2>1, <2>4, <3>7, <4>1 DEF Untaken
      <4>3. delaying' /\ ~draining' => /\ taken' = 0 /\ finished' = 0 /\ upc' # "output"
                                     /\ accepted' = next_decoding'
        BY <2>1, <2>4, <3>7, <4>1
      <4> QED
        BY <2>1, <3>4, <3>5, <3>6, <4>1, <4>2, <4>3 DEF Position
    <3> QED
      BY <1>5, <2>1, <2>4, <3>8, <3>9, StartWorkerMeans
  <2> QED
    BY <1>5, <2>3, <2>4, StartWorkerMeans
<1>6. CASE Service
  <2>1. /\ UNCHANGED <<next_finished, finished, empty, draining, taken, accepted>> /\ upc = "service"
        /\ next_decoding \in Slots /\ finished = next_finished /\ draining = empty
        /\ accepted \in Nat /\ taken \in Nat /\ N \in Nat /\ N > 1 /\ taken <= accepted
    BY <1>6, ServiceMeans, NAssumption, MaxPktAssumption
       DEF Caller, InCall, Types, UserTypes, Contents, history
  <2>2. CASE UNCHANGED <<upc, fctx>>
    BY <2>1, <2>2, SamePosition DEF fctx
  <2>3. CASE Submitted(next_decoding)
    <3>1. PICK f \in Slots : f = finished /\ f = finished' /\ f = next_finished'
      BY <2>1 DEF Types, UserTypes
    <3>2. /\ next_decoding' = next_decoding + 1
          /\ delaying' => delaying /\ next_decoding + 1 < N
          /\ \/ upc' = "finish" /\ delaying' /\ ~empty
             \/ upc' = "output" /\ (~delaying' \/ empty)
      BY <2>1, <2>3, SubmittedMeans
    <3>3. Untaken' = Untaken /\ Back(finished)' = Back(f) /\ Back(f) = Back(finished)
      BY <1>6, <2>1, <2>3, <3>1, SubmittedHead, FinishedBack DEF Untaken
    <3>4. \A q \in Slots : ~(Ahead(next_finished, q)' < Ahead(next_finished, finished)')
      BY <3>1, AtStart
    <3>5. /\ Untaken <= N /\ Back(f) >= Untaken - 1
          /\ ~empty => Untaken > 0 /\ Back(f) = Untaken - 1
          /\ delaying /\ ~draining => taken = 0 /\ finished = 0 /\ accepted = next_decoding + 1
      BY <2>1, <3>3 DEF Position
    <3>6. upc' = "finish" => Untaken < N
      BY <2>1, <3>2, <3>5 DEF Untaken
    <3>7. delaying' /\ ~draining' => /\ taken' = 0 /\ finished' = 0 /\ upc' # "output"
                                   /\ accepted' = next_decoding'
      BY <2>1, <3>2, <3>5
    <3>8. ~empty => Untaken # 0
      BY <3>5
    <3> QED
      BY <2>1, <3>2, <3>3, <3>4, <3>5, <3>6, <3>7, <3>8 DEF Position
  <2> QED
    BY <1>6, <2>2, <2>3, ServiceMeans
<1>7. CASE Output
  <2>1. PICK f \in Slots, g \in Slots : f = finished /\ g = finished'
    BY <1>7, OutputMeans
  <2>2. /\ upc = "output" /\ g = (IF f + 1 >= N THEN 0 ELSE f + 1) /\ draining = empty
        /\ UNCHANGED <<delaying, empty, draining, accepted>> /\ N \in Nat /\ N > 1
        /\ accepted \in Nat /\ taken \in Nat /\ taken <= accepted /\ Untaken = accepted - taken
        /\ Untaken <= N /\ (~empty => Untaken > 0 /\ Back(f) = Untaken - 1)
        /\ ~(delaying /\ ~draining)
    <3>1. /\ upc = "output" /\ g = (IF f + 1 >= N THEN 0 ELSE f + 1)
          /\ UNCHANGED <<delaying, empty, draining, accepted>>
      BY <1>7, <2>1, OutputMeans
    <3>2. /\ N \in Nat /\ N > 1 /\ accepted \in Nat /\ taken \in Nat
      BY NAssumption, MaxPktAssumption DEF Types, UserTypes
    <3>3. draining = empty /\ taken <= accepted
      BY <3>1 DEF Caller, InCall, Contents
    <3>4. /\ Untaken <= N /\ (~empty => Untaken > 0 /\ Back(finished) = Untaken - 1)
          /\ ~(delaying /\ ~draining)
      BY <3>1 DEF Position
    <3>5. Untaken = accepted - taken
      BY DEF Untaken
    <3> QED
      BY <2>1, <3>1, <3>2, <3>3, <3>4, <3>5
  <2>3. /\ Back(f) \in Nat /\ Back(f) < N /\ Back(f) >= Untaken - 1 /\ Untaken \in Nat
        /\ Untaken' = (IF Back(f) < Untaken THEN Untaken - 1 ELSE Untaken) /\ Untaken' \in Nat
        /\ finished' = next_finished => Untaken' = 0
    <3>1. /\ Back(f) \in Slots /\ Untaken \in Nat /\ Back(f) >= Untaken - 1
          /\ taken' = IF Back(f) < Untaken THEN taken + 1 ELSE taken
          /\ taken' <= accepted
          /\ finished' = next_finished => taken' = accepted
      BY <1>7, <2>1, OutputTakes
    <3>2. Untaken' = accepted' - taken'
      BY DEF Untaken
    <3> QED
      BY <2>2, <3>1, <3>2 DEF Slots
  <2>4. /\ Back(g) = (IF Back(f) = 0 THEN N - 1 ELSE Back(f) - 1) /\ Back(finished)' = Back(g)
        /\ Head' = Head /\ (Back(g) = N - 1 <=> g = Head)
        /\ \A p \in Slots : Back(p)' = Back(p) /\ Back(p) \in Nat
    BY <1>7, <2>1, <2>2, NextSlot, FinishedBack, OutputHead, BackRange DEF Slots
  <2>5. CASE /\ empty /\ finished' # next_finished
             /\ UNCHANGED <<upc, outcome, next_decoding, next_finished>>
    <3>1. Back(g) >= Untaken' - 1
      BY <2>2, <2>3, <2>4
    <3>2. ASSUME NEW q \in Slots, Ahead(next_finished, q)' < Ahead(next_finished, finished)'
          PROVE  Back(q)' >= Untaken'
      <4>1. PICK n \in Slots : n = next_finished /\ n = next_finished'
        BY <2>5 DEF Types, UserTypes
      <4>2. Ahead(n, q) < Ahead(n, g)
        BY <2>1, <3>2, <4>1 DEF Ahead
      <4>3. q = f \/ Ahead(n, q) < Ahead(n, f)
        BY <2>1, <2>2, <2>5, <4>1, <4>2 DEF Ahead, Slots
      <4>4. CASE q = f
        BY <2>3, <2>4, <4>4
      <4>5. CASE Ahead(n, q) < Ahead(n, f)
        <5>1. Back(q) >= Untaken
          BY <2>1, <2>2, <4>1, <4>5 DEF Position
        <5> QED
          BY <2>3, <2>4, <5>1
      <4> QED
        BY <4>3, <4>4, <4>5
    <3>3. Untaken' <= N
      BY <2>2, <2>3
    <3> QED
      BY <2>2, <2>4, <2>5, <3>1, <3>2, <3>3 DEF Position
  <2>6. CASE /\ ~empty \/ got_frame[f] \/ result[f] # "ok" \/ finished' = next_finished
             /\ upc' = "finish"
    <3>1. Untaken' < N /\ Untaken' <= N
      BY <2>2, <2>3
    <3>2. got_frame[f] \/ result[f] # "ok" => ~(Back(f) >= Untaken)
      BY <2>1 DEF Contents
    <3>3. Untaken' > 0 => Back(f) < Untaken
      BY <2>2, <2>3, <2>6, <3>2
    <3>4. Untaken' > 0 => Back(g) = Untaken' - 1
      BY <2>2, <2>3, <2>4, <3>3
    <3>5. Untaken' = 0 /\ ~draining => g = Head
      BY <2>2, <2>3, <2>4
    <3> QED
      BY <2>1, <2>2, <2>4, <2>6, <3>1, <3>4, <3>5 DEF Position
  <2> QED
    BY <1>7, <2>1, <2>5, <2>6, OutputMeans
<1>8. CASE Finish
  <2>1. /\ UNCHANGED <<next_decoding, finished, next_finished, accepted, taken, delaying, draining>>
        /\ upc' \notin {"service", "output"} /\ upc \notin {"service", "output"}
    BY <1>8 DEF Finish, Goto, fctx, slotVars, history
  <2> QED
    BY <2>1, QuietPosition
<1>9. CASE Park
  <2>1. /\ UNCHANGED <<next_decoding, finished, next_finished, accepted, taken, delaying, draining>>
        /\ upc' \notin {"service", "output"} /\ upc \notin {"service", "output"}
    BY <1>9 DEF Park, Goto, fctx, slotVars, history
  <2> QED
    BY <2>1, QuietPosition
<1>10. CASE Flush
  <2>1. /\ accepted' = 0 /\ taken' = 0 /\ next_decoding' = 0 /\ upc' = "out" /\ finished' = 0
    BY <1>10 DEF Flush, Goto
  <2>2. Head' = 0 /\ Untaken' = 0 /\ N \in Nat /\ N > 1
    BY <2>1, NAssumption DEF Head, Wrap, Untaken
  <2> QED
    BY <2>1, <2>2 DEF Position
<1>11. CASE FreeStep
  <2>1. /\ UNCHANGED <<next_decoding, finished, next_finished, accepted, taken, delaying, draining,
                       empty, upc>>
    BY <1>11 DEF FreeStep, Kill, fctx, userVars, history
  <2> QED
    BY <2>1, SamePosition
<1>12. CASE Freed
  <2>1. /\ UNCHANGED <<next_decoding, finished, next_finished, accepted, taken, delaying, draining>>
        /\ upc' \notin {"service", "output"} /\ upc \notin {"service", "output"}
    BY <1>12 DEF Freed, Goto, fctx, slotVars, history
  <2> QED
    BY <2>1, QuietPosition
<1>13. ASSUME NEW w \in Slots, WorkerStep(w) PROVE Position'
  <2>1. UNCHANGED <<fctx, userVars, history>>
    BY <1>13, WorkerFrame
  <2> QED
    BY <2>1, SamePosition DEF fctx, userVars, history
<1>14. ASSUME NEW t \in Slots \cup {User}, SpuriousWakeup(t) PROVE Position'
  <2>1. /\ UNCHANGED <<next_decoding, finished, next_finished, accepted, taken, delaying, draining,
                       empty, upc>>
    BY <1>14 DEF SpuriousWakeup, fctx, userVars, history
  <2> QED
    BY <2>1, SamePosition
<1> QED
  BY <1>1, <1>2, <1>3, <1>4, <1>5, <1>6, <1>7, <1>8, <1>9, <1>10, <1>11, <1>12, <1>13, <1>14
     DEF Next, CallStep, Closed

-----------------------------------------------------------------------------
\* No worker enters its setup by itself.
LEMMA WorkerSetup ==
  ASSUME Types, Phases, NEW w \in Slots, WorkerStep(w)
  PROVE  Setup(w)' => Setup(w)
<1> USE DEF At, Step, Types, UserTypes, FlagTypes, SlotTypes, ThreadTypes, Phases, Setup
<1>1. CASE TakeInput(w)
  BY <1>1 DEF TakeInput, slotVars, locks
<1>2. CASE Die(w)
  BY <1>2 DEF Die, slotVars, locks
<1>3. CASE LockHw(w)
  BY <1>3 DEF LockHw, slotVars, locks
<1>4. CASE GetFormat(w)
  BY <1>4 DEF GetFormat, slotVars, locks
<1>5. CASE FormatAnswered(w)
  BY <1>5 DEF FormatAnswered, slotVars, locks
<1>6. CASE GetBuffer(w)
  BY <1>6 DEF GetBuffer, slotVars, locks
<1>7. CASE BufferAnswered(w)
  BY <1>7 DEF BufferAnswered, slotVars, locks
<1>8. CASE LeaveSetup(w)
  BY <1>8 DEF LeaveSetup, slotVars, locks, Advance
<1>9. CASE FinishSetupHw(w)
  BY <1>9 DEF FinishSetupHw, slotVars, locks
<1>10. CASE FinishSetupAsync(w)
  BY <1>10 DEF FinishSetupAsync, slotVars, locks
<1>11. CASE FinishSetupState(w)
  BY <1>11 DEF FinishSetupState, slotVars, locks
<1>12. CASE AwaitProgress(w)
  BY <1>12 DEF AwaitProgress, slotVars, locks
<1>13. CASE ReportProgress(w)
  BY <1>13 DEF ReportProgress, slotVars, locks
<1>14. CASE DecodeReturns(w)
  BY <1>14 DEF DecodeReturns, slotVars, locks
<1>15. CASE UnlockHw(w)
  BY <1>15 DEF UnlockHw, slotVars, locks
<1>16. CASE UnlockAsync(w)
  BY <1>16 DEF UnlockAsync, slotVars, locks
<1>17. CASE Ready(w)
  BY <1>17 DEF Ready, slotVars, locks
<1>18. CASE AwaitInput(w)
  BY <1>18 DEF AwaitInput, slotVars, locks
<1> QED
  BY <1>1, <1>2, <1>3, <1>4, <1>5, <1>6, <1>7, <1>8, <1>9, <1>10, <1>11, <1>12, <1>13, <1>14,
     <1>15, <1>16, <1>17, <1>18 DEF WorkerStep

\* Once it has finished its setup a worker leaves its context alone.
LEMMA WorkerKeepsContext ==
  ASSUME Types, Phases, NEW w \in Slots, WorkerStep(w), state[w] # "SETTING_UP"
  PROVE  ctx'[w] = ctx[w]
<1> USE DEF At, Step, Types, UserTypes, FlagTypes, SlotTypes, ThreadTypes, Phases
<1>1. CASE TakeInput(w)
  BY <1>1 DEF TakeInput, slotVars, locks
<1>2. CASE Die(w)
  BY <1>2 DEF Die, slotVars, locks
<1>3. CASE LockHw(w)
  BY <1>3 DEF LockHw, slotVars, locks
<1>4. CASE GetFormat(w)
  BY <1>4 DEF GetFormat, slotVars, locks
<1>5. CASE FormatAnswered(w)
  BY <1>5 DEF FormatAnswered, slotVars, locks
<1>6. CASE GetBuffer(w)
  BY <1>6 DEF GetBuffer, slotVars, locks
<1>7. CASE BufferAnswered(w)
  BY <1>7 DEF BufferAnswered, slotVars, locks
<1>8. CASE LeaveSetup(w)
  BY <1>8 DEF LeaveSetup, slotVars, locks, Advance
<1>9. CASE FinishSetupHw(w)
  BY <1>9 DEF FinishSetupHw, slotVars, locks
<1>10. CASE FinishSetupAsync(w)
  BY <1>10 DEF FinishSetupAsync, slotVars, locks
<1>11. CASE FinishSetupState(w)
  BY <1>11 DEF FinishSetupState, slotVars, locks
<1>12. CASE AwaitProgress(w)
  BY <1>12 DEF AwaitProgress, slotVars, locks
<1>13. CASE ReportProgress(w)
  BY <1>13 DEF ReportProgress, slotVars, locks
<1>14. CASE DecodeReturns(w)
  BY <1>14 DEF DecodeReturns, slotVars, locks
<1>15. CASE UnlockHw(w)
  BY <1>15 DEF UnlockHw, slotVars, locks
<1>16. CASE UnlockAsync(w)
  BY <1>16 DEF UnlockAsync, slotVars, locks
<1>17. CASE Ready(w)
  BY <1>17 DEF Ready, slotVars, locks
<1>18. CASE AwaitInput(w)
  BY <1>18 DEF AwaitInput, slotVars, locks
<1> QED
  BY <1>1, <1>2, <1>3, <1>4, <1>5, <1>6, <1>7, <1>8, <1>9, <1>10, <1>11, <1>12, <1>13, <1>14,
     <1>15, <1>16, <1>17, <1>18 DEF WorkerStep

\* A worker keeps what its context is.
LEMMA WorkerContext ==
  ASSUME Types, Phases, HasUpdate, NEW w \in Slots, ContextOf(w), Last' = Last, WorkerStep(w)
  PROVE  ContextOf(w)'
<1> USE DEF At, Step, Types, UserTypes, FlagTypes, SlotTypes, ThreadTypes, Phases, ContextOf,
            Setup
<1>1. CASE TakeInput(w)
  BY <1>1 DEF TakeInput, slotVars, locks
<1>2. CASE Die(w)
  BY <1>2 DEF Die, slotVars, locks
<1>3. CASE LockHw(w)
  BY <1>3 DEF LockHw, slotVars, locks
<1>4. CASE GetFormat(w)
  BY <1>4 DEF GetFormat, slotVars, locks
<1>5. CASE FormatAnswered(w)
  BY <1>5 DEF FormatAnswered, slotVars, locks
<1>6. CASE GetBuffer(w)
  BY <1>6 DEF GetBuffer, slotVars, locks
<1>7. CASE BufferAnswered(w)
  BY <1>7 DEF BufferAnswered, slotVars, locks
<1>8. CASE LeaveSetup(w)
  BY <1>8 DEF LeaveSetup, slotVars, locks, Advance
<1>9. CASE FinishSetupHw(w)
  BY <1>9 DEF FinishSetupHw, slotVars, locks
<1>10. CASE FinishSetupAsync(w)
  BY <1>10 DEF FinishSetupAsync, slotVars, locks
<1>11. CASE FinishSetupState(w)
  BY <1>11 DEF FinishSetupState, slotVars, locks
<1>12. CASE AwaitProgress(w)
  BY <1>12 DEF AwaitProgress, slotVars, locks
<1>13. CASE ReportProgress(w)
  BY <1>13 DEF ReportProgress, slotVars, locks
<1>14. CASE DecodeReturns(w)
  BY <1>14 DEF DecodeReturns, slotVars, locks
<1>15. CASE UnlockHw(w)
  BY <1>15 DEF UnlockHw, slotVars, locks
<1>16. CASE UnlockAsync(w)
  BY <1>16 DEF UnlockAsync, slotVars, locks
<1>17. CASE Ready(w)
  BY <1>17 DEF Ready, slotVars, locks
<1>18. CASE AwaitInput(w)
  BY <1>18 DEF AwaitInput, slotVars, locks
<1> QED
  BY <1>1, <1>2, <1>3, <1>4, <1>5, <1>6, <1>7, <1>8, <1>9, <1>10, <1>11, <1>12, <1>13, <1>14,
     <1>15, <1>16, <1>17, <1>18 DEF WorkerStep

\* What changes nothing the contexts depend on.
LEMMA SameContexts ==
  ASSUME Types, Contexts,
         UNCHANGED <<codec, prev_thread, next_decoding, accepted, state, pkt, ctx, wpc, upc>>
  PROVE  Contexts'
<1>1. Last' = Last /\ HasUpdate' = HasUpdate /\ Callbacks' = Callbacks
      /\ \A p \in Slots : Setup(p)' = Setup(p)
  BY DEF Last, HasUpdate, Callbacks, Setup
<1>2. Back(Last)' = Back(Last)
  BY <1>1 DEF Back, Head
<1>3. HasUpdate => \A p \in Slots : ContextOf(p)'
  BY <1>1 DEF Contexts, ContextOf
<1> QED
  BY <1>1, <1>2, <1>3 DEF Contexts

\* Where the user's thread neither serves a worker nor holds a packet for one.
LEMMA QuietContexts ==
  ASSUME Types, Contexts, upc \notin {"service", "packet"}, upc' \notin {"service", "packet"},
         UNCHANGED <<codec, prev_thread, next_decoding, accepted, state, pkt, ctx, wpc>>
  PROVE  Contexts'
<1>1. Last' = Last /\ HasUpdate' = HasUpdate /\ Callbacks' = Callbacks
      /\ \A p \in Slots : Setup(p)' = Setup(p)
  BY DEF Last, HasUpdate, Callbacks, Setup
<1>2. Back(Last)' = Back(Last)
  BY <1>1 DEF Back, Head
<1>3. HasUpdate => \A p \in Slots : ContextOf(p)'
  BY <1>1 DEF Contexts, ContextOf
<1> QED
  BY <1>1, <1>2, <1>3 DEF Contexts

\* Every step keeps the contexts.
LEMMA ContextsStep ==
  Inv /\ [Next]_vars => Contexts'
<1> SUFFICES ASSUME Inv, [Next]_vars PROVE Contexts'
  OBVIOUS
<1> USE DEF Inv
<1>1. CASE UNCHANGED vars
  <2>1. UNCHANGED <<codec, prev_thread, next_decoding, accepted, state, pkt, ctx, wpc, upc>>
    BY <1>1 DEF vars, fctx, slotVars, userVars, history
  <2> QED
    BY <2>1, SameContexts
<1>2. CASE Decode
  <2>1. /\ UNCHANGED <<codec, prev_thread, next_decoding, accepted, state, pkt, ctx, wpc>>
        /\ upc \notin {"service", "packet"} /\ upc' \notin {"service", "packet"}
    BY <1>2 DEF Decode, Goto, fctx, slotVars
  <2> QED
    BY <2>1, QuietContexts
<1>3. CASE Submit
  <2>1. /\ UNCHANGED <<codec, prev_thread, next_decoding, accepted, state, pkt, ctx, wpc>>
        /\ upc = "submit" /\ upc' # "service" /\ (upc' = "packet" => prev_thread = None)
    BY <1>3 DEF Submit, Fail, Goto, fctx, slotVars
  <2>2. CASE upc' # "packet"
    BY <2>1, <2>2, QuietContexts
  <2>3. CASE upc' = "packet"
    <3>1. Last = None /\ Last' = None /\ HasUpdate' = HasUpdate
      BY <2>1, <2>3 DEF Last, HasUpdate
    <3>2. None \notin Slots
      BY NAssumption DEF None, Slots
    <3>3. next_decoding = 0 /\ accepted = 0 /\ (HasUpdate => ctx[0] \in {Lost, 0})
      BY <3>1 DEF Contexts
    <3>4. \A p \in Slots : ~Setup(p) /\ Setup(p)' = Setup(p)
      BY <2>1, <3>1, <3>2 DEF Contexts, Setup
    <3>5. HasUpdate => \A p \in Slots : ContextOf(p)'
      BY <2>1, <3>1, <3>2, <3>4 DEF Contexts, ContextOf, Setup
    <3> QED
      BY <2>1, <2>3, <3>1, <3>3, <3>4, <3>5 DEF Contexts
  <2> QED
    BY <2>2, <2>3
<1>4. CASE UpdateFromPrev
  <2>1. /\ UNCHANGED <<codec, fctx, state, pkt, accepted, wpc>> /\ upc = "prev"
        /\ next_decoding \in Slots /\ prev_thread \in Slots
        /\ wpc[next_decoding] = "wait" /\ state[next_decoding] = "INPUT_READY"
    BY <1>4 DEF UpdateFromPrev, Caller, Types, UserTypes
  <2>2. CASE UNCHANGED <<ctx, upc>>
    BY <2>1, <2>2, SameContexts DEF fctx
  <2>3. CASE /\ state[prev_thread] # "SETTING_UP" /\ upc' \in {"packet", "finish"}
             /\ \/ /\ ctx' = [ctx EXCEPT ![next_decoding] = ctx[prev_thread]]
                \/ upc' = "finish" /\ ctx' = [ctx EXCEPT ![next_decoding] = Stale]
    <3>1. /\ Last = prev_thread /\ Last' = prev_thread /\ Last # None /\ HasUpdate' = HasUpdate
          /\ \A p \in Slots : Setup(p)' = Setup(p) /\ Back(p)' = Back(p)
      BY <2>1, <2>3, SameHead DEF Last, fctx, HasUpdate, Setup, Caller
    <3>2. \A p \in Slots : ~Setup(p)
      BY <2>1, <2>3, <3>1 DEF Contexts, Setup, Phases, Types, SlotTypes, ThreadTypes
    <3>3. next_decoding # prev_thread
      <4>1. Head = next_decoding
        BY <2>1, NAssumption DEF Head, Wrap, Slots
      <4>2. Back(next_decoding) = N - 1 /\ Back(prev_thread) = 0
        BY <2>1, <3>1, <4>1, BackRange DEF Contexts
      <4> QED
        BY <4>2, NAssumption
    <3>4. HasUpdate => ctx[prev_thread] \in {Lost, accepted}
      <4> SUFFICES ASSUME HasUpdate PROVE ctx[prev_thread] \in {Lost, accepted}
        OBVIOUS
      <4>1. ContextOf(prev_thread) /\ pkt[prev_thread] = accepted
        BY <2>1, <3>1 DEF Contexts
      <4>2. CASE state[prev_thread] = "INPUT_READY"
        BY <3>1, <4>1, <4>2 DEF ContextOf
      <4>3. CASE state[prev_thread] = "SETUP_FINISHED"
        <5>1. wpc[prev_thread] \in {"decode", "report", "return", "unlockHw", "unlockAsync", "ready"}
          BY <2>1, <4>3 DEF Phases, Types, ThreadTypes
        <5> QED
          BY <4>1, <5>1 DEF ContextOf
      <4> QED
        BY <2>1, <3>2, <4>2, <4>3 DEF Setup, Types, SlotTypes
    <3>5. \A p \in Slots : p # next_decoding => ctx'[p] = ctx[p]
      BY <2>1, <2>3 DEF Types, SlotTypes
    <3>6. HasUpdate /\ upc' = "packet" => ctx'[next_decoding] \in {Lost, accepted}
      BY <2>1, <2>3, <3>4 DEF Types, SlotTypes
    <3>7. HasUpdate => \A p \in Slots : ContextOf(p)'
      BY <2>1, <3>1, <3>2, <3>3, <3>5 DEF Contexts, ContextOf
    <3>8. /\ \A p \in Slots : ~Setup(p)'
          /\ Back(Last)' = 0 /\ pkt'[Last'] = accepted' /\ next_decoding' = next_decoding
      <4>1. Back(Last)' = Back(prev_thread)
        BY <2>1, <2>3, <3>1 DEF Back, Head, fctx
      <4> QED
        BY <2>1, <3>1, <3>2, <4>1 DEF Contexts, fctx
    <3> QED
      BY <2>1, <3>1, <3>6, <3>7, <3>8 DEF Contexts
  <2> QED
    BY <1>4, <2>2, <2>3 DEF UpdateFromPrev, PrevReady, Goto, Fail
<1>5. CASE StartWorker
  <2>1. /\ UNCHANGED <<codec, ctx, wpc>> /\ upc = "packet" /\ next_decoding \in Slots
        /\ accepted \in Nat /\ None \notin Slots
        /\ wpc[next_decoding] = "wait"
    BY <1>5, StartWorkerMeans, MaxPktAssumption, NAssumption
       DEF Types, UserTypes, None, Slots, Caller
  <2>2. CASE upc' = "finish" /\ UNCHANGED <<fctx, state, pkt, accepted>>
    <3>1. Last' = Last /\ HasUpdate' = HasUpdate /\ \A p \in Slots : Setup(p)' = Setup(p)
      BY <2>1, <2>2 DEF Last, HasUpdate, Setup, fctx
    <3>2. Last # None => Back(Last)' = Back(Last)
      BY <2>1, <2>2, <3>1 DEF Back, Head, fctx
    <3>3. HasUpdate => \A p \in Slots : ContextOf(p)'
      BY <2>1, <2>2, <3>1 DEF Contexts, ContextOf
    <3> QED
      BY <2>1, <2>2, <3>1, <3>2, <3>3 DEF Contexts, fctx
  <2>3. CASE /\ accepted' = accepted + 1
             /\ \A q \in Slots :
                   /\ pkt'[q] = IF q = next_decoding THEN accepted + 1 ELSE pkt[q]
                   /\ state'[q] = IF q = next_decoding THEN "SETTING_UP" ELSE state[q]
             /\ \/ Callbacks /\ upc' = "service" /\ UNCHANGED fctx
                \/ ~Callbacks /\ Submitted(next_decoding)
    <3>1. Last' = next_decoding /\ upc' # "packet" /\ (Callbacks' => upc' = "service")
      BY <2>1, <2>3, SubmittedMeans DEF Last, Callbacks, fctx
    <3>2. \A p \in Slots : ~Setup(p) /\ (Setup(p)' => p = next_decoding)
      BY <2>1, <2>3 DEF Contexts, Setup
    <3>3. Back(Last)' = 0 /\ pkt'[Last'] = accepted'
      <4> PICK d \in Slots : d = next_decoding
        BY <2>1
      <4>1. Back(d)' = 0
        BY <1>5, <2>3, StartHead
      <4>2. Back(Last)' = Back(d)'
        BY <3>1 DEF Back
      <4> QED
        BY <2>1, <2>3, <3>1, <4>1, <4>2
    <3>4. ASSUME HasUpdate', NEW p \in Slots PROVE ContextOf(p)'
      <4>1. HasUpdate /\ ctx'[p] = ctx[p] /\ wpc'[p] = wpc[p]
        BY <2>1, <3>4 DEF HasUpdate
      <4>2. CASE p = next_decoding
        <5>1. ctx'[p] \in {Lost, accepted} /\ pkt'[p] - 1 = accepted
          BY <2>1, <2>3, <4>1, <4>2 DEF Contexts
        <5>2. state'[p] = "SETTING_UP" /\ wpc'[p] = "wait"
          BY <2>1, <2>3, <4>1, <4>2
        <5> QED
          BY <5>1, <5>2 DEF ContextOf
      <4>3. CASE p # next_decoding
        <5>1. pkt'[p] = pkt[p] /\ state'[p] = state[p] /\ p # Last' /\ ~Setup(p)'
          BY <2>3, <3>1, <3>2, <4>3
        <5> QED
          BY <4>1, <5>1 DEF Contexts, ContextOf
      <4> QED
        BY <4>2, <4>3
    <3> QED
      BY <2>1, <3>1, <3>2, <3>3, <3>4 DEF Contexts
  <2> QED
    BY <1>5, <2>2, <2>3, StartWorkerMeans
<1>6. CASE Service
  <2>1. /\ UNCHANGED <<codec, ctx, wpc, pkt, accepted>> /\ upc = "service" /\ next_decoding \in Slots
        /\ Last = next_decoding /\ None \notin Slots /\ HasUpdate' = HasUpdate
    BY <1>6, ServiceMeans, NAssumption DEF None, Slots, Last, HasUpdate, history
  <2>2. CASE /\ state[next_decoding] \in {"SETUP_FINISHED", "INPUT_READY"}
             /\ Submitted(next_decoding) /\ state' = state
    <3>1. Last' = Last /\ upc' \in {"finish", "output"}
      BY <2>1, <2>2, SubmittedMeans DEF Last
    <3>2. \A p \in Slots : ~Setup(p) /\ Setup(p)' = Setup(p)
      BY <2>1, <2>2 DEF Contexts, Setup
    <3>3. Back(Last)' = Back(Last)
      <4>1. PICK d \in Slots : d = Last /\ d = Last'
        BY <2>1, <3>1
      <4>2. Back(d)' = Back(d) /\ Back(Last)' = Back(d)'
        BY <1>6, <2>2, <4>1, SubmittedHead DEF Back
      <4> QED
        BY <4>1, <4>2
    <3>4. HasUpdate => \A p \in Slots : ContextOf(p)'
      BY <2>1, <2>2, <3>1, <3>2 DEF Contexts, ContextOf
    <3> QED
      BY <2>1, <3>1, <3>2, <3>3, <3>4 DEF Contexts
  <2>3. CASE UNCHANGED <<upc, state, fctx>>
    BY <2>1, <2>3, SameContexts DEF fctx
  <2>4. CASE /\ state[next_decoding] \in {"GET_BUFFER", "GET_FORMAT"}
             /\ UNCHANGED <<upc, fctx>>
             /\ \A q \in Slots : state'[q] = IF q = next_decoding THEN "SETTING_UP" ELSE state[q]
    <3>1. Last' = Last /\ Callbacks' = Callbacks /\ next_decoding' = next_decoding
      BY <2>1, <2>4 DEF Last, fctx, Callbacks
    <3>2. \A p \in Slots : Setup(p)' => Setup(p)
      BY <2>1, <2>4 DEF Setup
    <3>3. Back(Last)' = Back(Last)
      BY <2>4, <3>1 DEF Back, Head, fctx
    <3>4. HasUpdate => \A p \in Slots : ContextOf(p)'
      BY <2>1, <2>4, <3>1, <3>2 DEF Contexts, ContextOf
    <3> QED
      BY <2>1, <2>4, <3>1, <3>2, <3>3, <3>4 DEF Contexts
  <2> QED
    BY <1>6, <2>2, <2>3, <2>4, ServiceMeans
<1>7. CASE Output
  <2>1. /\ UNCHANGED <<codec, prev_thread, accepted, state, pkt, ctx, wpc>>
        /\ upc = "output" /\ upc' \in {"output", "finish"}
        /\ next_decoding = 0 => next_decoding' = 0
    BY <1>7, OutputMeans, NAssumption
  <2>2. Last' = Last /\ HasUpdate' = HasUpdate /\ Callbacks' = Callbacks
        /\ \A p \in Slots : Setup(p)' = Setup(p)
    BY <2>1 DEF Last, HasUpdate, Callbacks, Setup
  <2>3. Back(Last)' = Back(Last)
    BY <1>7, <2>2, OutputHead DEF Back
  <2>4. HasUpdate => \A p \in Slots : ContextOf(p)'
    BY <2>1, <2>2 DEF Contexts, ContextOf
  <2> QED
    BY <2>1, <2>2, <2>3, <2>4 DEF Contexts
<1>8. CASE Finish
  <2>1. /\ UNCHANGED <<codec, prev_thread, next_decoding, accepted, state, pkt, ctx, wpc>>
        /\ upc \notin {"service", "packet"} /\ upc' \notin {"service", "packet"}
    BY <1>8 DEF Finish, Goto, fctx, slotVars, history
  <2> QED
    BY <2>1, QuietContexts
<1>9. CASE Park
  <2>1. /\ UNCHANGED <<codec, prev_thread, next_decoding, accepted, state, pkt, ctx, wpc>>
        /\ upc \notin {"service", "packet"} /\ upc' \notin {"service", "packet"}
    BY <1>9 DEF Park, Goto, fctx, slotVars, history
  <2> QED
    BY <2>1, QuietContexts
<1>10. CASE Flush
  <2>1. /\ UNCHANGED <<codec, state, wpc>> /\ prev_thread' = None /\ next_decoding' = 0
        /\ accepted' = 0 /\ upc' = "out" /\ upc = "parkFlush"
        /\ \A p \in Slots : state[p] = "INPUT_READY"
    BY <1>10 DEF Flush, Goto, Parked
  <2>2. PICK current : /\ ctx' = [p \in Slots |-> IF p = 0 THEN current ELSE Stale]
                       /\ current \in {IF FlushContext = accepted THEN 0
                                         ELSE IF FlushContext = Lost THEN Lost ELSE Stale, Lost}
    BY <1>10 DEF Flush
  <2>3. Last' = None /\ Last = prev_thread /\ HasUpdate' = HasUpdate /\ 0 \in Slots /\ None \notin Slots
    BY <2>1, NAssumption DEF Last, HasUpdate, None, Slots
  <2>4. \A p \in Slots : ~Setup(p)' /\ wpc'[p] \in {"none", "loop", "wait"}
    BY <2>1 DEF Setup, Phases, Types, ThreadTypes
  <2>5. HasUpdate => FlushContext \in {Lost, accepted}
    <3>1. CASE prev_thread = None
      BY <2>3, <3>1 DEF FlushContext, Contexts
    <3>2. CASE prev_thread # None
      <4>1. prev_thread \in Slots
        BY <3>2 DEF Types, UserTypes
      <4> QED
        BY <2>1, <2>3, <3>2, <4>1 DEF FlushContext, Contexts, ContextOf
    <3> QED
      BY <3>1, <3>2
  <2>6. HasUpdate => ctx'[0] \in {Lost, 0}
    BY <2>2, <2>3, <2>5
  <2>7. \A p \in Slots : ContextOf(p)'
    BY <2>3, <2>4 DEF ContextOf
  <2> QED
    BY <2>1, <2>3, <2>4, <2>6, <2>7 DEF Contexts
<1>11. CASE FreeStep
  <2>1. UNCHANGED <<codec, prev_thread, next_decoding, accepted, state, pkt, ctx, wpc, upc>>
    BY <1>11 DEF FreeStep, Kill, fctx, userVars, history
  <2> QED
    BY <2>1, SameContexts
<1>12. CASE Freed
  <2>1. /\ UNCHANGED <<codec, prev_thread, next_decoding, accepted, state, pkt, ctx, wpc>>
        /\ upc \notin {"service", "packet"} /\ upc' \notin {"service", "packet"}
    BY <1>12 DEF Freed, Goto, fctx, slotVars, history
  <2> QED
    BY <2>1, QuietContexts
<1>13. ASSUME NEW w \in Slots, WorkerStep(w) PROVE Contexts'
  <2>1. UNCHANGED <<codec, fctx, upc, accepted, pkt>>
    BY <1>13, WorkerFrame DEF userVars, history
  <2>2. /\ Last' = Last /\ HasUpdate' = HasUpdate /\ Callbacks' = Callbacks
        /\ next_decoding' = next_decoding
    BY <2>1 DEF Last, HasUpdate, Callbacks, fctx
  <2>3. Back(Last)' = Back(Last)
    BY <2>1, <2>2 DEF Back, Head, fctx
  <2>4. ASSUME NEW p \in Slots PROVE Setup(p)' => Setup(p)
    <3>1. CASE p = w
      BY <1>13, <3>1, WorkerSetup
    <3>2. CASE p # w
      BY <1>13, <3>2, WorkerFrame DEF Setup
    <3> QED
      BY <3>1, <3>2
  <2>5. ASSUME HasUpdate, NEW p \in Slots PROVE ContextOf(p)'
    <3>1. ContextOf(p)
      BY <2>5 DEF Contexts
    <3>2. CASE p = w
      BY <1>13, <2>2, <2>5, <3>1, <3>2, WorkerContext
    <3>3. CASE p # w
      <4>1. /\ state'[p] = state[p] /\ ctx'[p] = ctx[p] /\ wpc'[p] = wpc[p] /\ pkt'[p] = pkt[p]
        BY <1>13, <2>1, <3>3, WorkerFrame
      <4> QED
        BY <2>2, <3>1, <4>1 DEF ContextOf, Setup
    <3> QED
      BY <3>2, <3>3
  <2>6. /\ HasUpdate /\ Last = None => ctx'[0] = ctx[0]
        /\ upc = "packet" => ctx'[next_decoding] = ctx[next_decoding]
    <3>1. upc = "packet" => state[next_decoding] = "INPUT_READY" /\ next_decoding \in Slots
      BY DEF Caller
    <3>2. 0 \in Slots /\ None \notin Slots
      BY NAssumption DEF Slots, None
    <3>3. Last = None => state[0] = "INPUT_READY" \/ state[0] = "SETUP_FINISHED"
      BY <3>2 DEF Contexts, Setup, Types, SlotTypes
    <3> QED
      BY <1>13, <3>1, <3>2, <3>3, WorkerFrame, WorkerKeepsContext
  <2> QED
    BY <2>1, <2>2, <2>3, <2>4, <2>5, <2>6 DEF Contexts
<1>14. ASSUME NEW t \in Slots \cup {User}, SpuriousWakeup(t) PROVE Contexts'
  <2>1. UNCHANGED <<codec, prev_thread, next_decoding, accepted, state, pkt, ctx, wpc, upc>>
    BY <1>14 DEF SpuriousWakeup, fctx, slotVars, userVars, history
  <2> QED
    BY <2>1, SameContexts
<1> QED
  BY <1>1, <1>2, <1>3, <1>4, <1>5, <1>6, <1>7, <1>8, <1>9, <1>10, <1>11, <1>12, <1>13, <1>14
     DEF Next, CallStep, Closed

-----------------------------------------------------------------------------
\* Every step keeps why the threads sleep.
LEMMA SleepingStep ==
  Inv /\ [Next]_vars => Sleeping'
<1> SUFFICES ASSUME Inv, [Next]_vars PROVE Sleeping'
  OBVIOUS
<1> USE DEF Inv, Types, UserTypes, FlagTypes, SlotTypes, ThreadTypes, Phases, Caller, Sleeping
<1>1. CASE UNCHANGED vars
  BY <1>1 DEF vars, fctx, locks, slotVars, userVars, history
<1>2. CASE Decode
  BY <1>2 DEF Decode, Goto, fctx, locks, slotVars, userVars, history
<1>3. CASE Submit
  BY <1>3 DEF Submit, Goto, fctx, locks, slotVars, userVars, history, Fail
<1>4. CASE UpdateFromPrev
  <2>1. UNCHANGED <<state, pkt, progress, wpc>> /\ User \notin Slots
    BY <1>4, NAssumption DEF UpdateFromPrev, User, Slots
  <2>2. \/ asleep' = asleep
        \/ asleep' = [asleep EXCEPT ![User] = prev_thread] /\ state[prev_thread] = "SETTING_UP"
    BY <1>4 DEF UpdateFromPrev, PrevReady, SleepOn
  <2> QED
    BY <2>1, <2>2
<1>5. CASE StartWorker
  BY <1>5
     DEF StartWorker, Goto, fctx, locks, slotVars, userVars, history, Submitted, Filled,
         Fail
<1>6. CASE Service
  <2>1. UNCHANGED <<pkt, progress, wpc>> /\ next_decoding \in Slots /\ User \notin Slots
    <3>1. User \notin Slots
      BY NAssumption DEF User, Slots
    <3> HIDE DEF Types, UserTypes, FlagTypes, SlotTypes, ThreadTypes, Phases, Caller, Sleeping
    <3>2. Types /\ Caller
      BY DEF Inv
    <3> HIDE DEF Inv
    <3> QED
      BY <1>6, <3>1, <3>2, ServiceMeans
  <2>2. \/ UNCHANGED <<asleep, state>>
        \/ /\ asleep' = [asleep EXCEPT ![User] = next_decoding]
           /\ state[next_decoding] = "SETTING_UP" /\ state' = state
        \/ /\ \A q \in Slots : state'[q] = IF q = next_decoding THEN "SETTING_UP" ELSE state[q]
           /\ \/ asleep' = asleep
              \/ \E t \in Slots \cup {User} : asleep' = [asleep EXCEPT ![t] = None]
    BY <1>6, ServiceMeans DEF SleepOn
  <2>3. asleep'[User] # None => state'[asleep'[User]] = "SETTING_UP"
    <3>1. asleep[User] # None => asleep[User] \in Slots /\ state[asleep[User]] = "SETTING_UP"
      BY DEF Sleeping, Types, ThreadTypes
    <3>2. \A q \in Slots : state[q] = "SETTING_UP" => state'[q] = "SETTING_UP"
      BY <2>2
    <3>3. \/ asleep'[User] \in {asleep[User], None}
          \/ asleep'[User] = next_decoding /\ state[next_decoding] = "SETTING_UP"
      BY <2>2
    <3> HIDE DEF Types, UserTypes, FlagTypes, SlotTypes, ThreadTypes, Phases, Caller, Sleeping
    <3> QED
      <4>1. CASE asleep'[User] = asleep[User]
        <5> SUFFICES ASSUME asleep[User] # None PROVE state'[asleep[User]] = "SETTING_UP"
          BY <4>1
        <5> QED
          BY <3>1, <3>2
      <4>2. CASE asleep'[User] = None
        BY <4>2
      <4>3. CASE asleep'[User] = next_decoding /\ state[next_decoding] = "SETTING_UP"
        <5>1. state'[next_decoding] = "SETTING_UP"
          BY <2>1, <3>2, <4>3
        <5> QED
          BY <4>3, <5>1
      <4> QED
        BY <3>3, <4>1, <4>2, <4>3
  <2>4. \A v \in Slots : asleep'[v] # None => asleep'[v] = asleep[v]
    BY <2>1, <2>2
  <2> QED
    BY <2>1, <2>3, <2>4
<1>7. CASE Output
  BY <1>7 DEF Output, Goto, fctx, locks, slotVars, userVars, history, Clear, GoOn, SlotAfter
<1>8. CASE Finish
  BY <1>8 DEF Finish, Goto, fctx, locks, slotVars, userVars, history, TakeAsync
<1>9. CASE Park
  BY <1>9 DEF Park, Goto, fctx, locks, slotVars, userVars, history
<1>10. CASE Flush
  BY <1>10 DEF Flush, Goto, fctx, locks, slotVars, userVars, history, Parked, FlushContext
<1>11. CASE FreeStep
  BY <1>11 DEF FreeStep, Goto, fctx, locks, slotVars, userVars, history, Parked, Kill
<1>12. CASE Freed
  BY <1>12 DEF Freed, Goto, fctx, locks, slotVars, userVars, history, Parked
<1>13. ASSUME NEW w \in Slots, TakeInput(w) PROVE Sleeping'
  BY <1>13 DEF TakeInput, At, Step, fctx, locks, slotVars, userVars, history
<1>14. ASSUME NEW w \in Slots, Die(w) PROVE Sleeping'
  BY <1>14 DEF Die, At, Step, fctx, locks, slotVars, userVars, history
<1>15. ASSUME NEW w \in Slots, LockHw(w) PROVE Sleeping'
  BY <1>15 DEF LockHw, At, Step, fctx, locks, slotVars, userVars, history, TakeHw
<1>16. ASSUME NEW w \in Slots, GetFormat(w) PROVE Sleeping'
  BY <1>16 DEF GetFormat, At, Step, fctx, locks, slotVars, userVars, history, Broadcast
<1>17. ASSUME NEW w \in Slots, FormatAnswered(w) PROVE Sleeping'
  <2>0. wpc[w] = "askFormat" /\ (wpc' = wpc \/ \E l : wpc' = [wpc EXCEPT ![w] = l])
    BY <1>17 DEF FormatAnswered, At, Step
  <2>1. /\ User \notin Slots /\ wpc[w] = "askFormat" /\ UNCHANGED <<state, pkt, progress>>
        /\ \/ asleep' = asleep
           \/ asleep' = [asleep EXCEPT ![w] = w] /\ wpc' = wpc
        /\ asleep[w] = None /\ \A v \in Slots : v # w => wpc'[v] = wpc[v]
    BY <1>17, <2>0, NAssumption DEF FormatAnswered, Step, SleepOn, Awake, User, Slots, slotVars
  <2>2. \A v \in Slots \cup {User} : v # w => asleep'[v] = asleep[v]
    BY <2>1
  <2>3. asleep'[w] # None => asleep'[w] = w /\ wpc'[w] = "askFormat"
    BY <2>1
  <2> QED
    BY <2>1, <2>2, <2>3
<1>18. ASSUME NEW w \in Slots, GetBuffer(w) PROVE Sleeping'
  BY <1>18 DEF GetBuffer, At, Step, fctx, locks, slotVars, userVars, history, Broadcast
<1>19. ASSUME NEW w \in Slots, BufferAnswered(w) PROVE Sleeping'
  <2>0. wpc[w] = "askBuffer" /\ (wpc' = wpc \/ \E l : wpc' = [wpc EXCEPT ![w] = l])
    BY <1>19 DEF BufferAnswered, At, Step
  <2>1. /\ User \notin Slots /\ wpc[w] = "askBuffer" /\ UNCHANGED <<state, pkt, progress>>
        /\ \/ asleep' = asleep
           \/ asleep' = [asleep EXCEPT ![w] = w] /\ wpc' = wpc
        /\ asleep[w] = None /\ \A v \in Slots : v # w => wpc'[v] = wpc[v]
    BY <1>19, <2>0, NAssumption DEF BufferAnswered, Step, SleepOn, Awake, User, Slots, slotVars
  <2>2. \A v \in Slots \cup {User} : v # w => asleep'[v] = asleep[v]
    BY <2>1
  <2>3. asleep'[w] # None => asleep'[w] = w /\ wpc'[w] = "askBuffer"
    BY <2>1
  <2> QED
    BY <2>1, <2>2, <2>3
<1>20. ASSUME NEW w \in Slots, LeaveSetup(w) PROVE Sleeping'
  BY <1>20 DEF LeaveSetup, At, Step, fctx, locks, slotVars, userVars, history, Advance
<1>21. ASSUME NEW w \in Slots, FinishSetupHw(w) PROVE Sleeping'
  BY <1>21 DEF FinishSetupHw, At, Step, fctx, locks, slotVars, userVars, history, TakeHw
<1>22. ASSUME NEW w \in Slots, FinishSetupAsync(w) PROVE Sleeping'
  BY <1>22 DEF FinishSetupAsync, At, Step, fctx, locks, slotVars, userVars, history, NeedsAsync
<1>23. ASSUME NEW w \in Slots, FinishSetupState(w) PROVE Sleeping'
  BY <1>23 DEF FinishSetupState, At, Step, fctx, locks, slotVars, userVars, history, Broadcast
<1>24. ASSUME NEW w \in Slots, AwaitProgress(w) PROVE Sleeping'
  <2>1. /\ User \notin Slots /\ wpc[w] = "decode" /\ UNCHANGED <<state, pkt, progress>>
        /\ \/ asleep' = asleep
           \/ /\ asleep' = [asleep EXCEPT ![w] = Owner(w)] /\ wpc' = wpc
              /\ pkt[Owner(w)] = pkt[w] - 1 /\ ~progress[Owner(w)]
        /\ asleep[w] = None /\ \A v \in Slots : v # w => wpc'[v] = wpc[v]
    <3>1. User \notin Slots
      BY NAssumption DEF User, Slots
    <3>2. wpc \in [Slots -> {"none", "wait", "lockHw", "format", "askFormat", "buffer",
                             "askBuffer", "handover", "finishSetup", "finishAsync",
                             "finishState", "decode", "report", "return", "unlockHw",
                             "unlockAsync", "ready", "loop"}]
      OBVIOUS
    <3> HIDE DEF Inv, Types, UserTypes, FlagTypes, SlotTypes, ThreadTypes, Phases, Caller,
                 Sleeping
    <3> QED
      BY <1>24, <3>1, <3>2 DEF AwaitProgress, RefDone, At, Step, SleepOn, Awake, slotVars
  <2>2. \A v \in Slots \cup {User} : v # w => asleep'[v] = asleep[v]
    BY <2>1
  <2>3. asleep'[w] # None => /\ wpc'[w] = "decode" /\ asleep'[w] = Owner(w)
                           /\ pkt[Owner(w)] = pkt[w] - 1 /\ ~progress[Owner(w)]
    BY <2>1
  <2> QED
    BY <2>1, <2>2, <2>3
<1>25. ASSUME NEW w \in Slots, ReportProgress(w) PROVE Sleeping'
  BY <1>25 DEF ReportProgress, At, Step, fctx, locks, slotVars, userVars, history, Broadcast
<1>26. ASSUME NEW w \in Slots, DecodeReturns(w) PROVE Sleeping'
  BY <1>26 DEF DecodeReturns, At, Step, fctx, locks, slotVars, userVars, history
<1>27. ASSUME NEW w \in Slots, UnlockHw(w) PROVE Sleeping'
  BY <1>27 DEF UnlockHw, At, Step, fctx, locks, slotVars, userVars, history
<1>28. ASSUME NEW w \in Slots, UnlockAsync(w) PROVE Sleeping'
  BY <1>28 DEF UnlockAsync, At, Step, fctx, locks, slotVars, userVars, history
<1>29. ASSUME NEW w \in Slots, Ready(w) PROVE Sleeping'
  BY <1>29 DEF Ready, At, Step, fctx, locks, slotVars, userVars, history, Broadcast
<1>30. ASSUME NEW w \in Slots, AwaitInput(w) PROVE Sleeping'
  BY <1>30 DEF AwaitInput, At, Step, fctx, locks, slotVars, userVars, history
<1>31. ASSUME NEW t \in Slots \cup {User}, SpuriousWakeup(t) PROVE Sleeping'
  BY <1>31 DEF SpuriousWakeup, fctx, locks, slotVars, userVars, history
<1> QED
  BY <1>1, <1>2, <1>3, <1>4, <1>5, <1>6, <1>7, <1>8, <1>9, <1>10, <1>11, <1>12, <1>13, <1>14,
     <1>15, <1>16, <1>17, <1>18, <1>19, <1>20, <1>21, <1>22, <1>23, <1>24, <1>25, <1>26, <1>27,
     <1>28, <1>29, <1>30, <1>31
     DEF Next, CallStep, Closed, WorkerStep

-----------------------------------------------------------------------------
\* The invariant holds at first, with all threads created or not.
LEMMA InitInv ==
  Init => Inv
<1> SUFFICES ASSUME codec \in Codecs, NEW created \in 0 .. N, Start(created) PROVE Inv
  BY DEF Init
<1>1. /\ N \in Nat /\ N > 1 /\ MaxPkt \in Nat /\ MaxPkt > 0 /\ 0 \in Slots /\ 0 \in 0 .. N
      /\ 0 \in 0 .. MaxPkt /\ 0 \in Lost .. MaxPkt /\ None \notin Slots
  BY NAssumption, MaxPktAssumption DEF Slots, None, Lost
<1>2. UserTypes /\ FlagTypes /\ SlotTypes /\ ThreadTypes
  <2>1. UserTypes
    BY <1>1 DEF Start, UserTypes
  <2>2. FlagTypes
    BY DEF Start, FlagTypes
  <2>3. SlotTypes
    BY <1>1 DEF Start, SlotTypes
  <2>4. ThreadTypes
    BY DEF Start, ThreadTypes
  <2> QED
    BY <2>1, <2>2, <2>3, <2>4
<1>3. /\ upc \in {"out", "free"} /\ (upc = "out" => \A p \in Slots : wpc[p] = "wait")
      /\ \A p \in Slots : wpc[p] \in {"none", "wait"} /\ state[p] = "INPUT_READY"
  BY DEF Start, Slots
<1>4. Phases
  BY <1>3 DEF Start, Phases
<1>5. Caller
  BY <1>1, <1>3 DEF Start, Caller, InCall
<1>6. Locks
  BY <1>3 DEF Start, Locks, Outside
<1>7. Head = 0 /\ Untaken = 0
  BY <1>1, <1>3 DEF Start, Head, Wrap, Untaken
<1>8. \A p \in Slots : Back(p) \in Nat
  BY <1>2, BackRange DEF Types, Slots
<1>9. Contents
  BY <1>7, <1>8 DEF Start, Contents
<1>10. Position
  BY <1>1, <1>3, <1>7 DEF Start, Position
<1>11. Contexts
  <2>1. Last = None
    BY <1>3 DEF Start, Last
  <2>2. \A p \in Slots : ContextOf(p)
    BY <1>1, <1>3, <2>1 DEF ContextOf, Setup
  <2> QED
    BY <1>1, <1>3, <2>1, <2>2 DEF Start, Contexts, Setup
<1>12. Sleeping
  BY DEF Start, Sleeping
<1> QED
  BY <1>2, <1>4, <1>5, <1>6, <1>9, <1>10, <1>11, <1>12 DEF Inv, Types

\* The invariant holds in every state.
LEMMA Invariance ==
  Spec => []Inv
<1>1. Inv /\ [Next]_vars => Inv'
  BY UserTypesStep, FlagTypesStep, SlotTypesStep, ThreadTypesStep, PhasesStep, CallerStep,
     LocksStep, ContentsStep, PositionStep, ContextsStep, SleepingStep
     DEF Inv, Types
<1> QED
  BY InitInv, <1>1, PTL DEF Spec

-----------------------------------------------------------------------------
\* The variables keep their types, and with them the indices of the ring.
THEOREM TypeCorrect ==
  Spec => []TypeOK
<1>1. Inv => TypeOK
  BY TypesAre DEF Inv
<1> QED
  BY Invariance, <1>1, PTL

\* A set of which any two members are equal has one member at most.
LEMMA OneAtMost ==
  ASSUME NEW S, NEW x \in S, \A y \in S : y = x
  PROVE  Cardinality(S) = 1
<1>1. S = {x}
  OBVIOUS
<1> QED
  BY <1>1, FS_Singleton

\* async_lock has one holder at a time: av_assert0(fctx->async_lock) holds.
THEOREM AsyncLockHasOneOwner ==
  Spec => []AsyncLockOwned
<1>1. ASSUME Inv PROVE AsyncLockOwned
  <2> DEFINE S == {w \in Slots : async_serializing[w]}
  <2>1. /\ async_lock <=> Outside \/ S # {}
        /\ S # {} => ~Outside
        /\ \A v, w \in S : v = w
    BY <1>1 DEF Inv, Locks
  <2>2. CASE S = {}
    <3>1. Cardinality(S) = 0
      BY <2>2, FS_EmptySet
    <3> QED
      BY <2>1, <2>2, <3>1 DEF AsyncLockOwned, Outside
  <2>3. CASE S # {}
    <3>1. Cardinality(S) = 1
      BY <2>1, <2>3, OneAtMost
    <3> QED
      BY <2>1, <2>3, <3>1 DEF AsyncLockOwned, Outside
  <2> QED
    BY <2>2, <2>3
<1> QED
  BY Invariance, <1>1, PTL

\* Decoding with a hwaccel is serialized, also against the user's code.
THEOREM HwaccelsTakeTurns ==
  Spec => []HwaccelSerialized
<1>1. ASSUME Inv PROVE HwaccelSerialized
  <2>1. \A w \in InHw : /\ w \in Slots /\ hwaccel_mutex = w
                        /\ ~AsyncSafe => ~Outside
    BY <1>1 DEF Inv, Locks, InHw
  <2>2. CASE InHw = {}
    <3>1. Cardinality(InHw) = 0
      BY <2>2, FS_EmptySet
    <3> QED
      BY <2>2, <3>1 DEF HwaccelSerialized
  <2>3. CASE InHw # {}
    <3>1. Cardinality(InHw) = 1
      BY <2>1, <2>3, OneAtMost
    <3>2. ~AsyncSafe => upc # "out"
      BY <2>1, <2>3 DEF Outside
    <3> QED
      BY <3>1, <3>2 DEF HwaccelSerialized
  <2> QED
    BY <2>2, <2>3
<1> QED
  BY Invariance, <1>1, PTL

\* The end of the stream is reported only when no thread holds anything.
THEOREM EndOfStreamIsTrue ==
  Spec => []EofMeansEmpty
<1>1. ASSUME Inv PROVE EofMeansEmpty
  <2>1. SUFFICES ASSUME outcome = "eof"
                 PROVE  /\ taken = accepted
                        /\ \A p \in Slots : state[p] = "INPUT_READY" /\ ~got_frame[p]
    BY DEF EofMeansEmpty
  <2>2. taken = accepted /\ accepted \in Nat
    BY <1>1, <2>1, MaxPktAssumption DEF Inv, Caller, Types, UserTypes
  <2>3. Untaken = 0
    BY <2>2 DEF Untaken
  <2>4. \A p \in Slots : Back(p) >= Untaken
    BY <1>1, <2>3, BackRange, NAssumption DEF Inv, Slots
  <2> QED
    BY <1>1, <2>2, <2>4 DEF Inv, Contents
<1> QED
  BY Invariance, <1>1, PTL

\* The ring holds what the user has not taken, in order, and the slot of the next
\* packet is free.
THEOREM RingHoldsTheRest ==
  Spec => []RingInOrder
<1>1. ASSUME Inv PROVE RingInOrder
  <2>1. /\ N \in Nat /\ N > 1 /\ accepted \in Nat /\ taken \in Nat /\ taken <= accepted
        /\ Head \in Slots /\ Untaken = accepted - taken /\ finished \in Slots
        /\ \A p \in Slots : pkt[p] \in Int /\ Back(p) \in Int /\ 0 <= Back(p) /\ Back(p) < N
    <3>1. /\ N \in Nat /\ N > 1 /\ accepted \in Nat /\ taken \in Nat /\ taken <= accepted
          /\ Untaken = accepted - taken /\ finished \in Slots
      BY <1>1, NAssumption, MaxPktAssumption DEF Inv, Types, UserTypes, Contents, Untaken
    <3>2. Head \in Slots /\ \A p \in Slots : Back(p) \in Slots
      BY <1>1, BackRange DEF Inv
    <3>3. \A p \in Slots : pkt[p] \in Int
      BY <1>1, MaxPktAssumption DEF Inv, Types, SlotTypes
    <3> QED
      BY <3>1, <3>2, <3>3 DEF Slots
  <2>2. (IF upc = "output" THEN finished ELSE next_finished) = finished
    BY <1>1 DEF Inv, Caller
  <2>3. /\ Untaken <= N
        /\ Untaken > 0 => Back(finished) >= Untaken - 1
    BY <1>1, <2>1 DEF Inv, Position
  <2>4. ASSUME NEW p \in Slots, Back(p) <= Back(finished)
        PROVE  Distance(p) = Back(finished) - Back(p)
    <3>1. p + N - finished \in Nat /\ p + N - finished < N + N
      BY <2>1 DEF Slots
    <3>2. Distance(p) = IF p + N - finished < N THEN p + N - finished ELSE p + N - finished - N
      <4>1. PICK a \in Nat : a = p + N - finished
        BY <3>1
      <4>2. Distance(p) = a % N
        BY <2>2, <4>1 DEF Distance
      <4>3. a < N + N
        BY <3>1, <4>1
      <4>4. a % N = IF a < N THEN a ELSE a - N
        BY <4>3, Modulo, Zenon
      <4> QED
        <5>1. Distance(p) = IF a < N THEN a ELSE a - N
          BY <4>2, <4>4, Zenon
        <5> QED
          BY <2>1, <3>1, <4>1, <5>1 DEF Slots
    <3> QED
      BY <2>1, <2>4, <3>2 DEF Back, Slots
  <2>5. ASSUME NEW k \in taken + 1 .. accepted
        PROVE  \E p \in Slots : /\ pkt[p] = k
                                /\ \A q \in Slots : pkt[q] > k => Distance(q) > Distance(p)
    <3> DEFINE b == accepted - k
    <3>1. b \in Int /\ 0 <= b /\ b < Untaken /\ b < N
      BY <2>1, <2>3
    <3>2. PICK p \in Slots : Back(p) = b
      <4>1. CASE b < Head
        <5>1. Head - 1 - b \in Slots /\ Back(Head - 1 - b) = b
          BY <2>1, <3>1, <4>1 DEF Back, Slots
        <5> QED
          BY <5>1
      <4>2. CASE ~(b < Head)
        <5>1. Head - 1 - b + N \in Slots /\ Back(Head - 1 - b + N) = b
          BY <2>1, <3>1, <4>2 DEF Back, Slots
        <5> QED
          BY <5>1
      <4> QED
        BY <4>1, <4>2
    <3>3. pkt[p] = k
      BY <1>1, <2>1, <3>1, <3>2 DEF Inv, Contents
    <3>4. ASSUME NEW q \in Slots, pkt[q] > k PROVE Distance(q) > Distance(p)
      <4>1. Back(q) < Untaken
        BY <1>1, <2>1, <3>4 DEF Inv, Contents
      <4>2. pkt[q] = accepted - Back(q)
        BY <1>1, <4>1 DEF Inv, Contents
      <4>3. Back(q) < Back(p) /\ Back(p) <= Back(finished) /\ Back(finished) \in Int
        BY <2>1, <2>3, <3>1, <3>2, <3>4, <4>2
      <4>4. Back(q) <= Back(finished)
        BY <2>1, <4>3
      <4>5. /\ Distance(q) = Back(finished) - Back(q)
            /\ Distance(p) = Back(finished) - Back(p)
        BY <2>4, <4>3, <4>4
      <4> QED
        BY <2>1, <4>3, <4>5
    <3> QED
      BY <3>3, <3>4
  <2>6. ASSUME upc \in {"submit", "prev", "packet"}
        PROVE  next_decoding \in Slots /\ pkt[next_decoding] <= taken
    <3>1. next_decoding \in Slots /\ Head = next_decoding
      BY <1>1, <2>1, <2>6 DEF Inv, Caller, Head, Wrap, Slots
    <3>2. Back(next_decoding) = N - 1 /\ Untaken < N
      BY <1>1, <2>6, <3>1, BackRange DEF Inv, Position
    <3>3. Back(next_decoding) >= Untaken
      BY <2>1, <3>2
    <3> QED
      BY <1>1, <3>1, <3>3 DEF Inv, Contents
  <2> QED
    BY <2>5, <2>6 DEF RingInOrder
<1> QED
  BY Invariance, <1>1, PTL

\* A frame is returned for a submission after all those taken before.
THEOREM FramesLeaveInOrder ==
  Spec => FramesInOrder
<1>1. Inv /\ [Next]_vars =>
        [(upc = "output" /\ upc' = "finish" /\ outcome' = "frame") => taken' > taken]_vars
  <2> SUFFICES ASSUME Inv, [Next]_vars, upc = "output", upc' = "finish", outcome' = "frame"
               PROVE  taken' > taken
    OBVIOUS
  <2>1. Output
    <3>1. \A w \in Slots : ~WorkerStep(w)
      BY WorkerFrame DEF Inv, userVars
    <3>2. \A t \in Slots \cup {User} : ~SpuriousWakeup(t)
      BY DEF SpuriousWakeup, userVars
    <3>3. ~UNCHANGED vars
      BY DEF vars, userVars
    <3> QED
      BY <3>1, <3>2, <3>3
         DEF Next, CallStep, Closed, Decode, Park, Submit, UpdateFromPrev, StartWorker, Service,
             Finish, Flush, FreeStep, Freed
  <2>2. finished \in Slots /\ got_frame[finished]
    BY <2>1, OutputMeans DEF Inv
  <2>3. /\ Back(finished) \in Int /\ Untaken \in Int /\ taken \in Int
        /\ taken' = IF Back(finished) < Untaken THEN taken + 1 ELSE taken
    BY <2>1, OutputTakes, NAssumption, MaxPktAssumption DEF Inv, Slots, Types, UserTypes
  <2>4. ~(Back(finished) >= Untaken)
    BY <2>2 DEF Inv, Contents
  <2> QED
    BY <2>3, <2>4
<1> QED
  BY Invariance, <1>1, PTL DEF Spec, FramesInOrder

\* Every packet is decoded with the context its predecessor left.
THEOREM ContextsAreHandedOn ==
  Spec => []ContextChain
<1>1. ASSUME Inv PROVE ContextChain
  <2> SUFFICES ASSUME HasUpdate, NEW p \in Slots,
                      wpc[p] \in {"format", "askFormat", "buffer", "askBuffer", "handover",
                                  "decode", "report", "return"}
               PROVE  ctx[p] \in {Lost, pkt[p] - (IF state[p] = "SETUP_FINISHED" THEN 0 ELSE 1)}
    BY DEF ContextChain
  <2>1. ContextOf(p) /\ pkt[p] \in Int
    BY <1>1, MaxPktAssumption DEF Inv, Contexts, Types, SlotTypes
  <2>2. CASE wpc[p] \in {"decode", "report", "return"}
    BY <1>1, <2>1, <2>2 DEF Inv, Phases, ContextOf
  <2>3. CASE wpc[p] \in {"format", "askFormat", "buffer", "askBuffer", "handover"}
    <3>1. state[p] \in {"SETTING_UP", "GET_FORMAT", "GET_BUFFER"}
      BY <1>1, <2>3 DEF Inv, Phases
    <3> QED
      BY <2>1, <2>3, <3>1 DEF ContextOf, Setup
  <2> QED
    BY <2>2, <2>3
<1> QED
  BY Invariance, <1>1, PTL

\* pthread_cond_signal on progress_cond reaches the worker it is meant for: when
\* the user's thread answers a callback, nobody else sleeps there.
AnswerReachesWorker ==
    (upc = "service" /\ state[next_decoding] \in {"GET_BUFFER", "GET_FORMAT"}) =>
        Sleepers(next_decoding) \subseteq {next_decoding}

LEMMA AnswerReaches ==
  Inv => AnswerReachesWorker
<1>1. ASSUME Inv PROVE AnswerReachesWorker
  <2> SUFFICES ASSUME upc = "service", state[next_decoding] \in {"GET_BUFFER", "GET_FORMAT"},
                      NEW t \in Slots \cup {User}, asleep[t] = next_decoding
               PROVE  t = next_decoding
    BY DEF AnswerReachesWorker, Sleepers
  <2>1. /\ next_decoding \in Slots /\ None \notin Slots
        /\ Last = next_decoding /\ pkt[next_decoding] = accepted
    <3>1. next_decoding \in Slots /\ None \notin Slots /\ Last = next_decoding
      BY <1>1, NAssumption DEF Inv, Caller, None, Slots, Last
    <3> QED
      BY <1>1, <3>1 DEF Inv, Contexts
  <2>2. t # User
    BY <1>1, <2>1 DEF Inv, Sleeping
  <2>3. t \in Slots /\ asleep[t] # None
    BY <2>1, <2>2
  <2>4. CASE asleep[t] = t
    BY <2>4
  <2>5. CASE asleep[t] = Owner(t) /\ pkt[Owner(t)] = pkt[t] - 1
    <3>1. /\ accepted \in Nat /\ taken \in Nat /\ taken <= accepted
          /\ Back(t) \in Nat /\ pkt[t] = accepted + 1
      <4>1. accepted \in Nat /\ taken \in Nat /\ taken <= accepted /\ pkt[t] \in Nat
        BY <1>1, <2>3, MaxPktAssumption DEF Inv, Types, UserTypes, SlotTypes, Contents
      <4>2. Back(t) \in Nat
        BY <1>1, <2>3, BackRange, NAssumption DEF Inv, Slots
      <4>3. Owner(t) = next_decoding
        BY <2>5
      <4>4. pkt[t] - 1 = accepted
        BY <2>1, <2>5, <4>3
      <4> QED
        BY <4>1, <4>2, <4>4
    <3>2. CASE Back(t) < Untaken
      <4>1. pkt[t] = accepted - Back(t)
        BY <1>1, <2>3, <3>2 DEF Inv, Contents
      <4> QED
        BY <3>1, <4>1
    <3>3. CASE ~(Back(t) < Untaken)
      <4>1. Untaken \in Int
        BY <3>1 DEF Untaken
      <4>2. pkt[t] <= taken
        BY <1>1, <2>3, <3>1, <3>3, <4>1 DEF Inv, Contents
      <4> QED
        BY <3>1, <4>2
    <3> QED
      BY <3>2, <3>3
  <2> QED
    BY <1>1, <2>3, <2>4, <2>5 DEF Inv, Sleeping
<1> QED
  BY <1>1

\* The single wakeup that answers a callback cannot go to another thread.
THEOREM AnswersReachTheWorker ==
  Spec => []AnswerReachesWorker
BY Invariance, AnswerReaches, PTL

-----------------------------------------------------------------------------
(***************************************************************************)
(* No call hangs.  Who waits for a lock waits for somebody further on in   *)
(* its decoding (Holders), and who decodes waits for an older packet only. *)
(***************************************************************************)

\* Who holds a lock is where it will release it.
Holders ==
    /\ hwaccel_mutex # None => hwaccel_serializing[hwaccel_mutex]
    /\ buffer_mutex # None =>
          \/ wpc[buffer_mutex] = "askBuffer"
          \/ wpc[buffer_mutex] \in {"finishSetup", "finishAsync", "finishState"} /\ ~HasUpdate
    /\ \A w \in Slots :
          /\ hwaccel_serializing[w] =>
                wpc[w] \notin {"none", "wait", "lockHw", "unlockAsync", "ready", "loop"}
          /\ async_serializing[w] =>
                wpc[w] \in {"finishState", "decode", "report", "return", "unlockHw", "unlockAsync"}

\* Where a thread that sleeps is.
Resting ==
    /\ asleep[User] # None => \/ upc = "prev" /\ asleep[User] = prev_thread
                              \/ upc = "service" /\ asleep[User] = next_decoding
    /\ \A w \in Slots : asleep[w] # None =>
          \/ wpc[w] \in {"askFormat", "askBuffer"} /\ state[w] # "SETTING_UP"
          \/ wpc[w] = "decode" /\ HasUpdate /\ pkt[w] # 1

\* Every step keeps the holders of the locks where they are to be.
LEMMA HoldersStep ==
  Inv /\ Holders /\ [Next]_vars => Holders'
<1> SUFFICES ASSUME Inv, Holders, [Next]_vars PROVE Holders'
  OBVIOUS
<1>0. None \notin Slots
  BY NAssumption DEF None, Slots
<1> USE <1>0 DEF Inv, Types, UserTypes, FlagTypes, SlotTypes, ThreadTypes, Phases, Locks, Holders, HasUpdate
<1>1. CASE UNCHANGED vars
  BY <1>1 DEF vars, fctx, locks, slotVars, userVars, history
<1>2. CASE Decode
  BY <1>2 DEF Decode, Goto, fctx, locks, slotVars, userVars, history
<1>3. CASE Submit
  BY <1>3 DEF Submit, Goto, fctx, locks, slotVars, userVars, history, Fail
<1>4. CASE UpdateFromPrev
  BY <1>4
     DEF UpdateFromPrev, Goto, fctx, locks, slotVars, userVars, history, PrevReady, Fail,
         SleepOn, Awake
<1>5. CASE StartWorker
  BY <1>5
     DEF StartWorker, Goto, fctx, locks, slotVars, userVars, history, Submitted, Filled,
         Fail
<1>6. CASE Service
  BY <1>6
     DEF Service, Goto, fctx, locks, slotVars, userVars, history, Submitted, Filled,
         Answer, Sleepers
<1>7. CASE Output
  BY <1>7 DEF Output, Goto, fctx, locks, slotVars, userVars, history, Clear, GoOn, SlotAfter
<1>8. CASE Finish
  BY <1>8 DEF Finish, Goto, fctx, locks, slotVars, userVars, history, TakeAsync
<1>9. CASE Park
  BY <1>9 DEF Park, Goto, fctx, locks, slotVars, userVars, history
<1>10. CASE Flush
  BY <1>10 DEF Flush, Goto, fctx, locks, slotVars, userVars, history, Parked, FlushContext
<1>11. CASE FreeStep
  BY <1>11 DEF FreeStep, Goto, fctx, locks, slotVars, userVars, history, Parked, Kill
<1>12. CASE Freed
  BY <1>12 DEF Freed, Goto, fctx, locks, slotVars, userVars, history, Parked
<1>13. ASSUME NEW w \in Slots, TakeInput(w) PROVE Holders'
  BY <1>13 DEF TakeInput, At, Step, fctx, locks, slotVars, userVars, history
<1>14. ASSUME NEW w \in Slots, Die(w) PROVE Holders'
  BY <1>14 DEF Die, At, Step, fctx, locks, slotVars, userVars, history
<1>15. ASSUME NEW w \in Slots, LockHw(w) PROVE Holders'
  BY <1>15 DEF LockHw, At, Step, fctx, locks, slotVars, userVars, history, TakeHw
<1>16. ASSUME NEW w \in Slots, GetFormat(w) PROVE Holders'
  BY <1>16 DEF GetFormat, At, Step, fctx, locks, slotVars, userVars, history, Broadcast
<1>17. ASSUME NEW w \in Slots, FormatAnswered(w) PROVE Holders'
  BY <1>17
     DEF FormatAnswered, At, Step, fctx, locks, slotVars, userVars, history, SleepOn, Awake
<1>18. ASSUME NEW w \in Slots, GetBuffer(w) PROVE Holders'
  BY <1>18 DEF GetBuffer, At, Step, fctx, locks, slotVars, userVars, history, Broadcast
<1>19. ASSUME NEW w \in Slots, BufferAnswered(w) PROVE Holders'
  BY <1>19
     DEF BufferAnswered, At, Step, fctx, locks, slotVars, userVars, history, SleepOn, Awake
<1>20. ASSUME NEW w \in Slots, LeaveSetup(w) PROVE Holders'
  BY <1>20 DEF LeaveSetup, At, Step, fctx, locks, slotVars, userVars, history, Advance
<1>21. ASSUME NEW w \in Slots, FinishSetupHw(w) PROVE Holders'
  BY <1>21 DEF FinishSetupHw, At, Step, fctx, locks, slotVars, userVars, history, TakeHw
<1>22. ASSUME NEW w \in Slots, FinishSetupAsync(w) PROVE Holders'
  BY <1>22 DEF FinishSetupAsync, At, Step, fctx, locks, slotVars, userVars, history, NeedsAsync
<1>23. ASSUME NEW w \in Slots, FinishSetupState(w) PROVE Holders'
  BY <1>23 DEF FinishSetupState, At, Step, fctx, locks, slotVars, userVars, history, Broadcast
<1>24. ASSUME NEW w \in Slots, AwaitProgress(w) PROVE Holders'
  BY <1>24 DEF AwaitProgress, At, Step, fctx, locks, slotVars, userVars, history, SleepOn, Awake
<1>25. ASSUME NEW w \in Slots, ReportProgress(w) PROVE Holders'
  BY <1>25 DEF ReportProgress, At, Step, fctx, locks, slotVars, userVars, history, Broadcast
<1>26. ASSUME NEW w \in Slots, DecodeReturns(w) PROVE Holders'
  BY <1>26 DEF DecodeReturns, At, Step, fctx, locks, slotVars, userVars, history
<1>27. ASSUME NEW w \in Slots, UnlockHw(w) PROVE Holders'
  BY <1>27 DEF UnlockHw, At, Step, fctx, locks, slotVars, userVars, history
<1>28. ASSUME NEW w \in Slots, UnlockAsync(w) PROVE Holders'
  BY <1>28 DEF UnlockAsync, At, Step, fctx, locks, slotVars, userVars, history
<1>29. ASSUME NEW w \in Slots, Ready(w) PROVE Holders'
  BY <1>29 DEF Ready, At, Step, fctx, locks, slotVars, userVars, history, Broadcast
<1>30. ASSUME NEW w \in Slots, AwaitInput(w) PROVE Holders'
  BY <1>30 DEF AwaitInput, At, Step, fctx, locks, slotVars, userVars, history
<1>31. ASSUME NEW t \in Slots \cup {User}, SpuriousWakeup(t) PROVE Holders'
  BY <1>31 DEF SpuriousWakeup, fctx, locks, slotVars, userVars, history
<1> QED
  BY <1>1, <1>2, <1>3, <1>4, <1>5, <1>6, <1>7, <1>8, <1>9, <1>10, <1>11, <1>12, <1>13, <1>14,
     <1>15, <1>16, <1>17, <1>18, <1>19, <1>20, <1>21, <1>22, <1>23, <1>24, <1>25, <1>26, <1>27,
     <1>28, <1>29, <1>30, <1>31
     DEF Next, CallStep, Closed, WorkerStep

\* Every step keeps the sleepers where nothing has come yet.
LEMMA RestingStep ==
  Inv /\ Resting /\ [Next]_vars => Resting'
<1> SUFFICES ASSUME Inv, Resting, [Next]_vars PROVE Resting'
  OBVIOUS
<1>0. None \notin Slots /\ User \notin Slots
  BY NAssumption DEF None, User, Slots
<1> USE <1>0 DEF Inv, Types, UserTypes, FlagTypes, SlotTypes, ThreadTypes, Phases, Caller, Sleeping,
                 Resting, HasUpdate
<1>1. CASE UNCHANGED vars
  BY <1>1 DEF vars, fctx, locks, slotVars, userVars, history
<1>2. CASE Decode
  BY <1>2 DEF Decode, Goto, fctx, locks, slotVars, userVars, history
<1>3. CASE Submit
  BY <1>3 DEF Submit, Goto, fctx, locks, slotVars, userVars, history, Fail
<1>4. CASE UpdateFromPrev
  BY <1>4
     DEF UpdateFromPrev, Goto, fctx, locks, slotVars, userVars, history, PrevReady, Fail,
         SleepOn, Awake
<1>5. CASE StartWorker
  BY <1>5
     DEF StartWorker, Goto, fctx, locks, slotVars, userVars, history, Submitted, Filled,
         Fail
<1>6. CASE Service
  <2>1. UNCHANGED <<pkt, wpc, codec>> /\ next_decoding \in Slots /\ upc = "service" /\ asleep[User] = None
    BY <1>6, ServiceMeans
  <2>2. \A w \in Slots : wpc[w] \in {"askFormat", "askBuffer"} => w = next_decoding
    BY <2>1 DEF Contexts, Setup, Last
  <2>3. CASE /\ state[next_decoding] \in {"SETUP_FINISHED", "INPUT_READY"}
             /\ UNCHANGED <<asleep, state>>
    BY <2>1, <2>3
  <2>4. CASE /\ state[next_decoding] = "SETTING_UP" /\ UNCHANGED <<upc, state, fctx>>
             /\ SleepOn(User, next_decoding)
    BY <2>1, <2>4 DEF SleepOn, fctx
  <2>5. CASE /\ state[next_decoding] \in {"GET_BUFFER", "GET_FORMAT"}
             /\ state' = [state EXCEPT ![next_decoding] = "SETTING_UP"]
             /\ Answer(next_decoding)
             /\ UNCHANGED <<upc, fctx>>
    <3>1. wpc[next_decoding] \in {"askFormat", "askBuffer"}
      BY <2>1, <2>5
    <3>2. asleep[next_decoding] \in {None, next_decoding}
      BY <2>1, <3>1
    <3>3. Sleepers(next_decoding) \subseteq {next_decoding}
      BY <2>1, <2>5, AnswerReaches DEF AnswerReachesWorker
    <3>4. \/ asleep' = asleep /\ asleep[next_decoding] = None
          \/ asleep' = [asleep EXCEPT ![next_decoding] = None]
      <4>1. CASE Sleepers(next_decoding) = {}
        <5>1. asleep[next_decoding] = None
          BY <2>1, <3>2, <4>1 DEF Sleepers
        <5> QED
          BY <2>5, <4>1, <5>1 DEF Answer
      <4>2. CASE Sleepers(next_decoding) # {}
        BY <2>5, <3>3, <4>2 DEF Answer
      <4> QED
        BY <4>1, <4>2
    <3>5. /\ asleep'[next_decoding] = None /\ asleep'[User] = None
          /\ \A w \in Slots : asleep'[w] \in {asleep[w], None}
      <4>1. asleep \in [Slots \cup {User} -> Slots \cup {None}]
        OBVIOUS
      <4> HIDE DEF Inv, Types, UserTypes, FlagTypes, SlotTypes, ThreadTypes, Phases, Caller,
                   Sleeping, Resting
      <4>2. \A t \in Slots \cup {User} : asleep'[t] = IF t = next_decoding THEN None ELSE asleep[t]
        BY <3>4, <4>1
      <4> QED
        BY <2>1, <4>2
    <3>6. \A w \in Slots : w # next_decoding => state'[w] = state[w]
      BY <2>5
    <3> QED
      BY <2>1, <2>2, <3>1, <3>5, <3>6
  <2> QED
    BY <1>6, <2>3, <2>4, <2>5 DEF Service
<1>7. CASE Output
  BY <1>7 DEF Output, Goto, fctx, locks, slotVars, userVars, history, Clear, GoOn, SlotAfter
<1>8. CASE Finish
  BY <1>8 DEF Finish, Goto, fctx, locks, slotVars, userVars, history, TakeAsync
<1>9. CASE Park
  BY <1>9 DEF Park, Goto, fctx, locks, slotVars, userVars, history
<1>10. CASE Flush
  BY <1>10 DEF Flush, Goto, fctx, locks, slotVars, userVars, history, Parked, FlushContext
<1>11. CASE FreeStep
  BY <1>11 DEF FreeStep, Goto, fctx, locks, slotVars, userVars, history, Parked, Kill
<1>12. CASE Freed
  BY <1>12 DEF Freed, Goto, fctx, locks, slotVars, userVars, history, Parked
<1>13. ASSUME NEW w \in Slots, TakeInput(w) PROVE Resting'
  BY <1>13 DEF TakeInput, At, Step, fctx, locks, slotVars, userVars, history
<1>14. ASSUME NEW w \in Slots, Die(w) PROVE Resting'
  BY <1>14 DEF Die, At, Step, fctx, locks, slotVars, userVars, history
<1>15. ASSUME NEW w \in Slots, LockHw(w) PROVE Resting'
  BY <1>15 DEF LockHw, At, Step, fctx, locks, slotVars, userVars, history, TakeHw
<1>16. ASSUME NEW w \in Slots, GetFormat(w) PROVE Resting'
  BY <1>16 DEF GetFormat, At, Step, fctx, locks, slotVars, userVars, history, Broadcast
<1>17. ASSUME NEW w \in Slots, FormatAnswered(w) PROVE Resting'
  BY <1>17
     DEF FormatAnswered, At, Step, fctx, locks, slotVars, userVars, history, SleepOn, Awake
<1>18. ASSUME NEW w \in Slots, GetBuffer(w) PROVE Resting'
  BY <1>18 DEF GetBuffer, At, Step, fctx, locks, slotVars, userVars, history, Broadcast
<1>19. ASSUME NEW w \in Slots, BufferAnswered(w) PROVE Resting'
  BY <1>19
     DEF BufferAnswered, At, Step, fctx, locks, slotVars, userVars, history, SleepOn, Awake
<1>20. ASSUME NEW w \in Slots, LeaveSetup(w) PROVE Resting'
  BY <1>20 DEF LeaveSetup, At, Step, fctx, locks, slotVars, userVars, history, Advance
<1>21. ASSUME NEW w \in Slots, FinishSetupHw(w) PROVE Resting'
  BY <1>21 DEF FinishSetupHw, At, Step, fctx, locks, slotVars, userVars, history, TakeHw
<1>22. ASSUME NEW w \in Slots, FinishSetupAsync(w) PROVE Resting'
  BY <1>22 DEF FinishSetupAsync, At, Step, fctx, locks, slotVars, userVars, history, NeedsAsync
<1>23. ASSUME NEW w \in Slots, FinishSetupState(w) PROVE Resting'
  BY <1>23 DEF FinishSetupState, At, Step, fctx, locks, slotVars, userVars, history, Broadcast
<1>24. ASSUME NEW w \in Slots, AwaitProgress(w) PROVE Resting'
  BY <1>24 DEF AwaitProgress, At, Step, fctx, locks, slotVars, userVars, history, SleepOn, Awake
<1>25. ASSUME NEW w \in Slots, ReportProgress(w) PROVE Resting'
  BY <1>25 DEF ReportProgress, At, Step, fctx, locks, slotVars, userVars, history, Broadcast
<1>26. ASSUME NEW w \in Slots, DecodeReturns(w) PROVE Resting'
  BY <1>26 DEF DecodeReturns, At, Step, fctx, locks, slotVars, userVars, history
<1>27. ASSUME NEW w \in Slots, UnlockHw(w) PROVE Resting'
  BY <1>27 DEF UnlockHw, At, Step, fctx, locks, slotVars, userVars, history
<1>28. ASSUME NEW w \in Slots, UnlockAsync(w) PROVE Resting'
  BY <1>28 DEF UnlockAsync, At, Step, fctx, locks, slotVars, userVars, history
<1>29. ASSUME NEW w \in Slots, Ready(w) PROVE Resting'
  BY <1>29 DEF Ready, At, Step, fctx, locks, slotVars, userVars, history, Broadcast
<1>30. ASSUME NEW w \in Slots, AwaitInput(w) PROVE Resting'
  BY <1>30 DEF AwaitInput, At, Step, fctx, locks, slotVars, userVars, history
<1>31. ASSUME NEW t \in Slots \cup {User}, SpuriousWakeup(t) PROVE Resting'
  BY <1>31 DEF SpuriousWakeup, fctx, locks, slotVars, userVars, history
<1> QED
  BY <1>1, <1>2, <1>3, <1>4, <1>5, <1>6, <1>7, <1>8, <1>9, <1>10, <1>11, <1>12, <1>13, <1>14,
     <1>15, <1>16, <1>17, <1>18, <1>19, <1>20, <1>21, <1>22, <1>23, <1>24, <1>25, <1>26, <1>27,
     <1>28, <1>29, <1>30, <1>31
     DEF Next, CallStep, Closed, WorkerStep

LEMMA HoldersInit ==
  Init => Holders /\ Resting
<1>1. None \notin Slots /\ User \notin Slots
  BY NAssumption DEF None, User, Slots
<1> QED
  BY <1>1 DEF Init, Start, Holders, Resting

LEMMA HoldersInvariance ==
  Spec => [](Holders /\ Resting)
<1>1. Inv /\ Holders /\ Resting /\ [Next]_vars => (Holders /\ Resting)'
  BY HoldersStep, RestingStep
<1> QED
  BY HoldersInit, Invariance, <1>1, PTL DEF Spec

\* A nonempty set of natural numbers has a least element.
LEMMA LeastElement ==
  ASSUME NEW S \in SUBSET Nat, NEW x \in S
  PROVE  \E y \in S : \A z \in S : y <= z
<1> DEFINE R == {ss \in Nat \X Nat : ss[1] < ss[2]}
<1>1. IsWellFoundedOn(R, Nat)
  BY NatLessThanWellFounded DEF OpToRel
<1> HIDE DEF R
<1>2. PICK y \in S : \A z \in S : <<z, y>> \notin R
  BY <1>1, WFMin
<1>3. \A z \in S : z < y => <<z, y>> \in R
  BY DEF R
<1>4. y \in Nat /\ \A z \in S : z \in Nat /\ ~(z < y)
  BY <1>2, <1>3
<1>5. \A z \in S : y <= z
  BY <1>4
<1> QED
  BY <1>5

\* A worker that decodes does not wait for a slot that is still in its setup: that
\* one holds the latest packet.
LEMMA OwnerIsPastSetup ==
  ASSUME Inv, NEW w \in Slots, state[w] = "SETUP_FINISHED", pkt[w] # 1, ~RefDone(w)
  PROVE  /\ Owner(w) \in Slots /\ pkt[Owner(w)] = pkt[w] - 1
         /\ state[Owner(w)] = "SETUP_FINISHED"
<1>1. Owner(w) \in Slots /\ pkt[Owner(w)] = pkt[w] - 1 /\ ~progress[Owner(w)]
  BY OwnerSlot DEF RefDone
<1>2. state[Owner(w)] # "INPUT_READY"
  BY <1>1 DEF Inv, Phases
<1>3. ~Setup(Owner(w))
  <2> SUFFICES ASSUME Setup(Owner(w)) PROVE FALSE
    OBVIOUS
  <2>1. Last = Owner(w) /\ pkt[Owner(w)] = accepted
    <3>1. Last = Owner(w) /\ None \notin Slots
      BY <1>1, NAssumption DEF Inv, Contexts, None, Slots
    <3> QED
      BY <1>1, <3>1 DEF Inv, Contexts
  <2>2. accepted \in Nat /\ taken \in Nat /\ taken <= accepted /\ pkt[w] \in Nat /\ Back(w) \in Nat
    <3>1. accepted \in Nat /\ taken \in Nat /\ taken <= accepted /\ pkt[w] \in Nat
      BY MaxPktAssumption DEF Inv, Types, UserTypes, SlotTypes, Contents
    <3>2. Back(w) \in Nat
      BY BackRange, NAssumption DEF Inv, Slots
    <3> QED
      BY <3>1, <3>2
  <2>3. Back(w) < Untaken => pkt[w] = accepted - Back(w)
    BY DEF Inv, Contents
  <2>4. ~(Back(w) < Untaken) => pkt[w] <= taken
    BY <2>2 DEF Inv, Contents, Untaken
  <2> QED
    BY <1>1, <2>1, <2>2, <2>3, <2>4
<1> QED
  BY <1>1, <1>2, <1>3 DEF Inv, Types, SlotTypes, Setup

\* Of the slots past their setup, the one with the oldest packet goes on.
LEMMA OldestGoesOn ==
  ASSUME Inv, NEW s \in Slots, state[s] = "SETUP_FINISHED"
  PROVE  \E w \in Slots : WorkerGoesOn(w)
<1> DEFINE P == {pkt[w] : w \in {v \in Slots : state[v] = "SETUP_FINISHED"}}
<1>1. P \in SUBSET Nat /\ pkt[s] \in P
  BY MaxPktAssumption DEF Inv, Types, SlotTypes
<1>2. PICK y \in P : \A z \in P : y <= z
  BY <1>1, LeastElement
<1>3. PICK w \in Slots : state[w] = "SETUP_FINISHED" /\ pkt[w] = y
  BY <1>2
<1>4. wpc[w] \in {"decode", "report", "return", "unlockHw", "unlockAsync", "ready"}
  BY <1>3 DEF Inv, Types, ThreadTypes, Phases
<1>5. pkt[w] = 1 \/ RefDone(w)
  <2> SUFFICES ASSUME pkt[w] # 1, ~RefDone(w) PROVE FALSE
    OBVIOUS
  <2>1. Owner(w) \in Slots /\ pkt[Owner(w)] = pkt[w] - 1 /\ state[Owner(w)] = "SETUP_FINISHED"
    BY <1>3, OwnerIsPastSetup
  <2>2. pkt[Owner(w)] \in P
    BY <2>1
  <2> HIDE DEF P
  <2>3. y \in Nat /\ y <= pkt[Owner(w)]
    BY <1>1, <1>2, <2>2
  <2> QED
    BY <1>3, <2>1, <2>3
<1> QED
  BY <1>4, <1>5 DEF WorkerGoesOn

\* While no slot is past its setup, the one in its setup goes on, or the user's
\* thread answers it.
LEMMA SetupGoesOn ==
  ASSUME Inv, Holders, ~Outside, NEW p \in Slots, Setup(p),
         \A w \in Slots : state[w] # "SETUP_FINISHED"
  PROVE  UserGoesOn \/ \E w \in Slots : WorkerGoesOn(w)
<1>1. \A w \in Slots : w # p => state[w] = "INPUT_READY"
  BY DEF Inv, Contexts, Types, SlotTypes, Setup
<1>2. \A w \in Slots : w # p => wpc[w] \in {"none", "wait", "loop"}
  BY <1>1 DEF Inv, Types, ThreadTypes, Phases
<1>3. hwaccel_mutex # None => hwaccel_mutex = p /\ hwaccel_serializing[p]
  BY <1>2 DEF Inv, Types, SlotTypes, Holders
<1>4. buffer_mutex # None => buffer_mutex = p
  BY <1>2 DEF Inv, Types, SlotTypes, Holders
<1>5. async_lock => async_serializing[p]
  BY <1>2 DEF Inv, Locks, Holders
<1>6. /\ wpc[p] \in {"wait", "lockHw", "format", "askFormat", "buffer", "askBuffer", "handover",
                     "finishSetup", "finishAsync", "finishState"}
      /\ Callbacks => upc = "service" /\ next_decoding = p
  BY DEF Inv, Types, ThreadTypes, Phases, Setup, Contexts, Last
<1>7. CASE wpc[p] \in {"format", "handover", "finishState"}
  BY <1>7 DEF WorkerGoesOn
<1>8. CASE wpc[p] = "wait"
  BY <1>8 DEF WorkerGoesOn, Setup
<1>9. CASE wpc[p] = "lockHw"
  BY <1>3, <1>9 DEF WorkerGoesOn, Holders
<1>10. CASE wpc[p] \in {"askFormat", "askBuffer"}
  <2>1. upc = "service" /\ next_decoding = p
    BY <1>6, <1>10 DEF Inv, Phases
  <2> QED
    BY <1>10, <2>1 DEF WorkerGoesOn, UserGoesOn
<1>11. CASE wpc[p] = "buffer"
  BY <1>4, <1>11 DEF WorkerGoesOn, Holders
<1>12. CASE wpc[p] = "finishSetup"
  BY <1>3, <1>12 DEF WorkerGoesOn
<1>13. CASE wpc[p] = "finishAsync"
  BY <1>5, <1>13 DEF WorkerGoesOn, Holders
<1> QED
  BY <1>6, <1>7, <1>8, <1>9, <1>10, <1>11, <1>12, <1>13

\* When all slots are ready for input, ff_frame_thread_free has a thread to join or
\* has joined them all.
LEMMA FreeGoesOn ==
  ASSUME Inv, \A w \in Slots : wpc[w] \in {"none", "wait"} /\ ~WorkerGoesOn(w)
  PROVE  \/ \A p \in Slots : wpc[p] = "none"
         \/ \E p \in Slots : /\ wpc[p] = "wait" /\ ~die[p]
                             /\ \A q \in Slots : q < p => wpc[q] = "none"
<1> DEFINE W == {p \in Slots : wpc[p] = "wait"}
<1> SUFFICES ASSUME NEW x \in W
             PROVE  \E p \in Slots : /\ wpc[p] = "wait" /\ ~die[p]
                                     /\ \A q \in Slots : q < p => wpc[q] = "none"
  OBVIOUS
<1>1. W \in SUBSET Nat
  BY NAssumption DEF Slots
<1>2. PICK p \in W : \A q \in W : p <= q
  BY <1>1, LeastElement
<1>3. p \in Slots /\ wpc[p] = "wait" /\ ~die[p]
  BY <1>2 DEF WorkerGoesOn
<1>4. \A q \in Slots : q < p => wpc[q] = "none"
  BY <1>2, <1>3, NAssumption DEF Slots
<1> QED
  BY <1>3, <1>4

\* While all slots are ready for input, the user's thread goes on.
LEMMA UserIsFree ==
  ASSUME Inv, Holders, upc \notin {"out", "freed"}, \A w \in Slots : ~WorkerGoesOn(w),
         \A w \in Slots : state[w] = "INPUT_READY"
  PROVE  UserGoesOn
<1>1. \A w \in Slots : wpc[w] \in {"none", "wait"}
  BY DEF Inv, Types, ThreadTypes, Phases, WorkerGoesOn
<1>2. buffer_mutex = None
  BY <1>1 DEF Inv, Types, SlotTypes, Holders
<1>3. CASE upc = "free"
  BY <1>3 DEF UserGoesOn
<1>4. CASE upc # "free"
  <2>1. ~async_lock
    BY <1>1, <1>4 DEF Inv, Locks, Holders, Outside
  <2>2. CASE upc \in {"submit", "prev", "packet", "service", "output", "finish"}
    <3>1. upc = "submit" => next_decoding \in Slots /\ wpc[next_decoding] = "wait"
      BY <1>1 DEF Inv, Caller, Phases
    <3>2. upc = "prev" => prev_thread \in Slots
      BY DEF Inv, Caller, Types, UserTypes
    <3>3. finished \in Slots /\ (upc = "service" => next_decoding \in Slots)
      BY DEF Inv, Caller, Types, UserTypes
    <3> QED
      BY <1>2, <2>1, <2>2, <3>1, <3>2, <3>3 DEF UserGoesOn, PrevReady
  <2>3. CASE upc = "parkFlush"
    BY <1>2, <2>1, <2>3 DEF UserGoesOn, Parked
  <2>4. CASE upc = "parkFree"
    BY <1>1, <2>1, <2>4, FreeGoesOn DEF UserGoesOn, Parked
  <2> QED
    BY <1>4, <2>2, <2>3, <2>4 DEF Inv, Types, UserTypes
<1> QED
  BY <1>3, <1>4

\* Whoever sleeps still has to.
LEMMA SleepersRest ==
  ASSUME Inv, Resting
  PROVE  NoWakeupLost
<1>1. None \notin Slots /\ User \notin Slots
  BY NAssumption DEF None, User, Slots
<1>2. ASSUME ~Awake(User) PROVE ~UserGoesOn
  BY <1>1, <1>2 DEF Awake, Resting, Inv, Sleeping, UserGoesOn, PrevReady
<1>3. ASSUME NEW w \in Slots, ~Awake(w) PROVE ~WorkerGoesOn(w)
  <2>1. CASE wpc[w] \in {"askFormat", "askBuffer"} /\ state[w] # "SETTING_UP"
    BY <2>1 DEF WorkerGoesOn
  <2>2. CASE wpc[w] = "decode" /\ HasUpdate /\ pkt[w] # 1
    <3>1. ~RefDone(w)
      BY <1>3, <2>2 DEF Awake, Inv, Sleeping, RefDone
    <3> QED
      BY <2>2, <3>1 DEF WorkerGoesOn
  <2> QED
    BY <1>3, <2>1, <2>2 DEF Awake, Resting
<1> QED
  BY <1>2, <1>3 DEF NoWakeupLost

\* Every call of libavcodec that the user's thread is in can be carried on by some
\* thread, and nobody sleeps through the wakeup meant for it.
THEOREM CallsNeverHang ==
  Spec => []NoCallHangs
<1>1. ASSUME Inv, Holders, Resting PROVE NoCallHangs
  <2>1. ASSUME upc \notin {"out", "freed"}, \A w \in Slots : ~WorkerGoesOn(w) PROVE UserGoesOn
    <3>1. \A w \in Slots : state[w] # "SETUP_FINISHED"
      BY <1>1, <2>1, OldestGoesOn
    <3>2. CASE \A w \in Slots : state[w] = "INPUT_READY"
      BY <1>1, <2>1, <3>2, UserIsFree
    <3>3. CASE upc = "free"
      BY <3>3 DEF UserGoesOn
    <3>4. ASSUME upc # "free", NEW p \in Slots, state[p] # "INPUT_READY" PROVE UserGoesOn
      <4>1. Setup(p)
        BY <1>1, <3>1, <3>4 DEF Inv, Types, SlotTypes, Setup
      <4>2. ~Outside
        BY <2>1, <3>4 DEF Outside
      <4> QED
        BY <1>1, <2>1, <3>1, <4>1, <4>2, SetupGoesOn
    <3> QED
      BY <3>2, <3>3, <3>4
  <2> QED
    BY <1>1, <2>1, SleepersRest DEF NoCallHangs
<1> QED
  BY Invariance, HoldersInvariance, <1>1, PTL
=============================================================================
