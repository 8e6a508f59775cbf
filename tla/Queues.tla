------------------------------- MODULE Queues -------------------------------
(* What is in a queue of messages, by the kinds of the messages.             *)
EXTENDS Integers, Sequences

\* The messages of the given kinds, in order.  (SelectSeq, spelled out: proofs
\* have to look inside.)
Only(kinds, queue) ==
    LET kept[i \in 0 .. Len(queue)] ==
          IF i = 0 THEN <<>>
          ELSE IF queue[i].kind \in kinds THEN Append(kept[i - 1], queue[i])
          ELSE kept[i - 1]
    IN kept[Len(queue)]
=============================================================================
