--------------------------- MODULE FrameThreadMC ---------------------------
(***************************************************************************)
(* FrameThread for TLC: the kinds of codecs.                               *)
(***************************************************************************)
EXTENDS FrameThread

\* H.264 and the like, with the user's callbacks or without.
Inter == [has_update |-> TRUE, callbacks |-> TRUE, hw |-> FALSE, async_safe |-> TRUE,
          delay |-> TRUE, ffv1 |-> FALSE]
\* With a hwaccel that is async safe or not.
HwInter == [Inter EXCEPT !.callbacks = FALSE, !.hw = TRUE, !.async_safe = FALSE]
AsyncHwInter == [HwInter EXCEPT !.async_safe = TRUE]
\* FFV1, which delays one packet less, and has no AV_CODEC_CAP_DELAY.
FFV1 == [Inter EXCEPT !.callbacks = FALSE, !.delay = FALSE, !.ffv1 = TRUE]
\* An intra codec.
Intra == [Inter EXCEPT !.has_update = FALSE, !.delay = FALSE]

AllCodecs == {Inter, HwInter, AsyncHwInter, FFV1, Intra}
LiveCodecs == {Inter, HwInter, Intra}
=============================================================================
