---------------------------- MODULE TopicContract ----------------------------
(***************************************************************************)
(* What a consumer group promises of a partition: from where it began to   *)
(* read, its messages are finished one after the other, the committed      *)
(* offset follows and never points behind an unfinished one, and in the    *)
(* end both reach the last message.  Where it began to read is settled by  *)
(* the first commit: before that, a group that does not read from the      *)
(* beginning may pass over all there is and start anew.                    *)
(***************************************************************************)
EXTENDS Integers

CONSTANTS
    Last,          \* the last offset of the partition
    fromBeginning  \* the group begins to read at the first message

VARIABLES
    end,         \* the last message produced so far
    base,        \* where the group began to read
    frontier,    \* all messages from there up to this one are finished
    committed    \* the offset a restarted consumer goes on from, -1 for none

vars == <<end, base, frontier, committed>>

Init ==
    /\ end \in 0..Last
    /\ base = IF fromBeginning THEN 0 ELSE end
    /\ frontier = base
    /\ committed = -1

Produce == end < Last /\ end' = end + 1 /\ UNCHANGED <<base, frontier, committed>>

Finish == frontier < end /\ frontier' = frontier + 1 /\ UNCHANGED <<end, base, committed>>

PassOver ==
    /\ ~fromBeginning /\ committed = -1
    /\ base' = end /\ frontier' = end
    /\ UNCHANGED <<end, committed>>

Commit ==
    /\ committed' \in (base + 1)..frontier /\ committed' > committed
    /\ UNCHANGED <<end, base, frontier>>

Next == Produce \/ Finish \/ PassOver \/ Commit

Safety == Init /\ [][Next]_vars
Spec == Safety /\ WF_vars(Finish) /\ WF_vars(Commit)
=============================================================================
