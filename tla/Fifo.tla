-------------------------------- MODULE Fifo --------------------------------
(* What a pipe promises: a queue of at most N bytes, read in the order they *)
(* were written.                                                            *)
EXTENDS Naturals, Sequences

CONSTANTS Bytes, N

VARIABLE q

Init == q = <<>>

Put(b) == Len(q) < N /\ q' = Append(q, b)

Get == q # <<>> /\ q' = Tail(q)

Next == Get \/ \E b \in Bytes : Put(b)

Spec == Init /\ [][Next]_q
=============================================================================
