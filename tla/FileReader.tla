----------------------------- MODULE FileReader -----------------------------
(***************************************************************************)
(* What a URL protocol promises its caller: a position in a file, reads    *)
(* that return the bytes that follow it, and seeks that move it.  A call   *)
(* may fail, but it always returns.  Nothing is said of threads or rings.  *)
(***************************************************************************)
EXTENDS Integers, Sequences

CONSTANTS FileSize, MaxRead, Targets

VARIABLES
    open,      \* the protocol is open
    pos,       \* the position of the next byte to read
    sizeKnown, \* the size of the file is known, so that it can seek anywhere
    trouble,   \* the source has failed, or the caller was told to give up
    call,      \* the call in progress: operation and argument
    result     \* what the last call has returned: code and bytes or position

vars == <<open, pos, sizeKnown, trouble, call, result>>
NoCall == [op |-> "none", arg |-> 0]
NoResult == [code |-> "none", data |-> <<>>, pos |-> 0]

Init ==
    /\ open = FALSE /\ pos = 0 /\ sizeKnown \in BOOLEAN /\ trouble = FALSE
    /\ call = NoCall /\ result = NoResult

Open ==
    /\ ~open /\ open' = TRUE
    /\ pos' = 0 /\ trouble' = FALSE /\ sizeKnown' \in BOOLEAN /\ result' = NoResult
    /\ UNCHANGED call

Call ==
    /\ open /\ call = NoCall
    /\ call' \in [op : {"read"}, arg : 1..MaxRead] \cup [op : {"seek"}, arg : Targets]
                 \cup [op : {"close"}, arg : {0}]
    /\ trouble' = (trouble \/ call'.op = "close")
    /\ UNCHANGED <<open, pos, sizeKnown, result>>

\* The source fails at any time, and is good again only after a seek.
Trouble == open /\ trouble' = TRUE /\ UNCHANGED <<open, pos, sizeKnown, call, result>>
Recover == call.op = "seek" /\ trouble' = FALSE /\ UNCHANGED <<open, pos, sizeKnown, call, result>>

\* A read returns at least one byte, the next ones of the file.
ReadReturns ==
    /\ call.op = "read"
    /\ \E n \in 1..call.arg :
          /\ pos + n <= FileSize
          /\ pos' = pos + n
          /\ result' = [code |-> "ok", data |-> [i \in 1..n |-> pos + i - 1], pos |-> 0]
    /\ call' = NoCall
    /\ UNCHANGED <<open, sizeKnown, trouble>>

\* It fails at the end of the file and nowhere else, unless there is trouble.
ReadFails ==
    /\ call.op = "read"
    /\ \E code \in {"EOF", "EIO", "EXIT"} :
          /\ code = "EOF" => pos = FileSize
          /\ code = "EIO" => trouble
          /\ trouble' = (trouble \/ code = "EXIT")
          /\ result' = [code |-> code, data |-> <<>>, pos |-> 0]
    /\ call' = NoCall
    /\ UNCHANGED <<open, pos, sizeKnown>>

\* A forward seek may move in several steps.
Advance ==
    /\ call.op = "seek"
    /\ pos' \in pos..FileSize /\ pos' <= call.arg
    /\ UNCHANGED <<open, sizeKnown, trouble, call, result>>

\* A seek returns the position it has reached: the one asked for, or one short
\* of it where the file ends or there is trouble.
SeekReturns ==
    /\ call.op = "seek"
    /\ trouble' \in {trouble, TRUE}
    /\ \/ call.arg \in 0..FileSize /\ pos' = call.arg
       \/ pos < call.arg /\ (pos = FileSize \/ trouble') /\ UNCHANGED pos
    /\ result' = [code |-> "ok", data |-> <<>>, pos |-> pos']
    /\ call' = NoCall
    /\ UNCHANGED <<open, sizeKnown>>

\* A seek that fails leaves the position alone.
SeekFails ==
    /\ call.op = "seek"
    /\ \E code \in {"EINVAL", "EIO", "EXIT"} :
          /\ code = "EINVAL" => ~sizeKnown \/ call.arg \notin 0..FileSize
          /\ trouble' = (trouble \/ code = "EXIT")
          /\ result' = [code |-> code, data |-> <<>>, pos |-> 0]
    /\ call' = NoCall
    /\ UNCHANGED <<open, pos, sizeKnown>>

CloseReturns ==
    /\ call.op = "close"
    /\ open' = FALSE /\ call' = NoCall
    /\ UNCHANGED <<pos, sizeKnown, trouble, result>>

Return == ReadReturns \/ ReadFails \/ SeekReturns \/ SeekFails \/ CloseReturns
Next == Open \/ Call \/ Trouble \/ Recover \/ Advance \/ Return

\* Every call returns.
Spec == Init /\ [][Next]_vars /\ WF_vars(Return)
=============================================================================
