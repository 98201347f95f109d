------------------------------ MODULE ByteQueue ------------------------------
(***************************************************************************)
(* What BufferChain promises: chains that are plain queues of bytes.       *)
(***************************************************************************)
EXTENDS Naturals, Sequences

CONSTANT Chains

VARIABLE queue   \* the unconsumed bytes of each chain

Init == queue = [c \in Chains |-> <<>>]

\* Bytes are added at the end.
Put(c) ==
    LET old == queue[c]
        new == queue'[c]
    IN  /\ Len(new) > Len(old)
        /\ SubSeq(new, 1, Len(old)) = old
        /\ \A d \in Chains \ {c} : queue'[d] = queue[d]

Take(c) == \E n \in 1..Len(queue[c]) :
    queue' = [queue EXCEPT ![c] = SubSeq(@, n + 1, Len(@))]

Move(c, d) ==
    /\ c # d
    /\ queue' = [queue EXCEPT ![c] = @ \o queue[d], ![d] = <<>>]

Next == \E c \in Chains : Put(c) \/ Take(c) \/ \E d \in Chains : Move(c, d)

Spec == Init /\ [][Next]_queue
=============================================================================
