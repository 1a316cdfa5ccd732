--------------------------- MODULE OrderedEncoder ---------------------------
(***************************************************************************)
(* What ff_thread_video_encode_frame promises: one encoder with a delay.   *)
(* Frames are handed in one call at a time; what became of them is handed  *)
(* out in the same order, one frame per call, and no more than Delay frames*)
(* are left in the encoder between calls.                                  *)
(***************************************************************************)
EXTENDS Naturals

CONSTANT Delay

VARIABLES
    open,      \* frames may be handed in
    frames,    \* the number of frames handed in
    results,   \* the number of frames whose result was handed out
    call,      \* the call in progress
    result     \* what the last call has returned

vars == <<open, frames, results, call, result>>

NoResult == [code |-> "nothing", frame |-> 0]
Failure == [code |-> "error", frame |-> 0]

Init == ~open /\ frames = 0 /\ results = 0 /\ call = "none" /\ result = NoResult

\* Opening succeeds, or nothing is left of it.
Open ==
    /\ ~open /\ call = "none" /\ frames = 0
    /\ open' \in BOOLEAN
    /\ call' = IF open' THEN "none" ELSE "close"
    /\ UNCHANGED <<frames, results, result>>

HandIn ==
    /\ open /\ call = "none"
    /\ frames' = frames + 1 /\ call' = "frame"
    /\ UNCHANGED <<open, results, result>>

\* A frame that is not taken leaves no trace.
Refuse ==
    /\ open /\ call = "none"
    /\ result' = Failure
    /\ UNCHANGED <<open, frames, results, call>>

Drain ==
    /\ open /\ call = "none"
    /\ call' = "drain"
    /\ UNCHANGED <<open, frames, results, result>>

\* A frame makes a packet, nothing, or an error; only a packet says which frame
\* it is of, so that nothing made of a frame looks like no result.
HandOut ==
    /\ call \in {"frame", "drain"} /\ results < frames
    /\ results' = results + 1 /\ call' = "none"
    /\ \/ result' = [code |-> "packet", frame |-> results']
       \/ result' \in {NoResult, Failure}
    /\ UNCHANGED <<open, frames>>

\* A call may take no frame's result while few frames are inside, a drain only
\* when none is.
HandOutNothing ==
    /\ \/ call = "frame" /\ frames - results <= Delay
       \/ call = "drain" /\ frames = results
    /\ result' = NoResult /\ call' = "none"
    /\ UNCHANGED <<open, frames, results>>

Close ==
    /\ open /\ call = "none"
    /\ open' = FALSE /\ call' = "close"
    /\ UNCHANGED <<frames, results, result>>

Closed ==
    /\ call = "close" /\ call' = "closed"
    /\ UNCHANGED <<open, frames, results, result>>

Next == Open \/ HandIn \/ Refuse \/ Drain \/ HandOut \/ HandOutNothing \/ Close \/ Closed

Spec == Init /\ [][Next]_vars /\ WF_vars(HandOut \/ HandOutNothing \/ Closed)
=============================================================================
