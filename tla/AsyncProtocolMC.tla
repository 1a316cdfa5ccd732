-------------------------- MODULE AsyncProtocolMC --------------------------
(***************************************************************************)
(* AsyncProtocol for TLC, and the refinement of FileReader.                *)
(***************************************************************************)
EXTENDS AsyncProtocol

TargetsMC == -1..(FileSize + 1)

\* A call keeps the argument it was made with while the code counts down what
\* it still has to skip.
CallInProgress ==
    CASE call.op = "skip" -> [op |-> "seek", arg |-> logical_pos + call.arg]
      [] call.op \in {"ask", "answer"} -> [op |-> "seek", arg |-> call.arg]
      [] OTHER -> call

File == INSTANCE FileReader WITH
    open <- opened, pos <- logical_pos, sizeKnown <- (logical_size > 0),
    trouble <- (abort_request \/ io_error \in {"EIO", "EXIT"}), call <- CallInProgress

\* The asynchronous protocol reads like the file itself: whatever the threads
\* do, a read returns the bytes at the reader's position, the end of the file
\* is reported there and nowhere else, a seek goes where it says, and every
\* call returns.
ImplementsFile == File!Spec
=============================================================================
