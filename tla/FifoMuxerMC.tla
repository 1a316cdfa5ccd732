---------------------------- MODULE FifoMuxerMC ----------------------------
(***************************************************************************)
(* FifoMuxer for TLC: the sets of options.                                 *)
(***************************************************************************)
EXTENDS FifoMuxer

\* A recording: no packet may be lost.
Recording ==
    [queue_size |-> 2, drop_pkts_on_overflow |-> FALSE, restart_with_keyframe |-> TRUE,
     attempt_recovery |-> TRUE, max_recovery_attempts |-> 2, recover_any_error |-> FALSE,
     recovery_wait_streamtime |-> FALSE, recovery_wait_time |-> 2, flushes |-> FALSE,
     unknown_option |-> FALSE, errors |-> {"temporary", "permanent", "exit"}]

\* A live stream: packets may be dropped.
Live == [Recording EXCEPT !.drop_pkts_on_overflow = TRUE]

\* The same, on the time of the stream, with a user that flushes, and a muxer that
\* returns AVERROR(EAGAIN).
StreamTime == [Live EXCEPT !.queue_size = 1, !.restart_with_keyframe = FALSE, !.flushes = TRUE,
                           !.recovery_wait_streamtime = TRUE, !.errors = {"again", "temporary"}]

\* Any error is recovered from, with an option the muxer does not know.
AnyError == [Recording EXCEPT !.recover_any_error = TRUE, !.unknown_option = TRUE]

\* No recovery at all.
NoRecovery == [Recording EXCEPT !.attempt_recovery = FALSE]

\* The same with a muxer that returns AVERROR(EAGAIN), with and without dropping.
Again == [NoRecovery EXCEPT !.errors = {"again", "temporary"}]
AgainLive == [Again EXCEPT !.drop_pkts_on_overflow = TRUE]

AllOptions == {Recording, Live, StreamTime, AnyError, NoRecovery, Again, AgainLive}
OnlyRecording == {Recording}
OnlyLive == {[Live EXCEPT !.queue_size = 1]}
=============================================================================
