------------------------------ MODULE MessageLog ------------------------------
(***************************************************************************)
(* What a client of the writer may rely on, with records, chunks and       *)
(* indexes forgotten: the messages of the file form a log.  A message is   *)
(* appended at the end; the log is never reordered; messages may only be   *)
(* lost by failing for good, and then only those that were not yet in a    *)
(* finished part of the file (`durable`); a closed or failed log is final. *)
(***************************************************************************)
EXTENDS Naturals, Sequences

CONSTANT Message

VARIABLES log,      \* the messages a reader would find, in order
          durable,  \* how many of them lie in finished chunks
          status    \* "open", "failed" or "closed"

vars == <<log, durable, status>>

Init == log = <<>> /\ durable = 0 /\ status = "open"

\* A write; finishing a full chunk on the way makes earlier messages durable.
AppendMessage ==
    /\ status = "open" /\ status' = "open"
    /\ Len(log') = Len(log) + 1
    /\ log'[Len(log')] \in Message
    /\ SubSeq(log', 1, Len(log)) = log
    /\ durable' \in durable..Len(log')

\* A chunk is finished.
Commit ==
    /\ status = "open" /\ status' = "open"
    /\ log' = log
    /\ durable' \in durable..Len(log)

\* The log is closed: every message is in it for good.
Close ==
    /\ status = "open" /\ status' = "closed"
    /\ log' = log
    /\ durable' = Len(log)

\* The writer gave up, or was given up: what was not durable may be gone.
Fail ==
    /\ status = "open" /\ status' = "failed"
    /\ durable' \in durable..Len(log)
    /\ log' = SubSeq(log, 1, durable')

Next == AppendMessage \/ Commit \/ Close \/ Fail

Spec == Init /\ [][Next]_vars

===============================================================================
