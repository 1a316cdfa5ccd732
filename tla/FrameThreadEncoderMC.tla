------------------------ MODULE FrameThreadEncoderMC ------------------------
(***************************************************************************)
(* FrameThreadEncoder for TLC, and the refinement of OrderedEncoder.       *)
(***************************************************************************)
EXTENDS FrameThreadEncoder

Encoder == INSTANCE OrderedEncoder WITH
    Delay <- NThreads,
    open <- upc \in {"out", "collect", "asleep", "awake"},
    frames <- submitted, results <- returned

\* The threads of libavcodec/frame_thread_encoder.c are together one encoder:
\* packets come out in the order of the frames, one per call and none twice, a
\* call leaves the results of the frames alone only while few frames are inside,
\* a drain only when none is, no more frames stay inside than there are threads,
\* and every call returns.  (A frame that the encoder skipped has its turn too, and
\* its call returns what an empty encoder returns: a drain that brings no packet
\* need not be the last.)
ImplementsEncoder == Encoder!Spec
=============================================================================
