------------------------------- MODULE MCLog -------------------------------
(* Instances of the log on a blank disk: two processes and crashes, and three *)
(* processes that compete for the space of the log.                           *)
EXTENDS Log

CONSTANTS p1, p2, p3, b1, b2, v0

BlankInit == Init /\ disk = [b \in Blocks |-> v0] /\ logblk = [i \in 1 .. LOGSIZE |-> v0]
BlankSpec == BlankInit /\ [][Next]_vars /\ Fairness

crashing == [ops |-> [p \in Procs |-> CASE p = p1 -> 2 [] p = p2 -> 1 [] p = p3 -> 0], writes |-> 2, crashes |-> 2,
             blocks |-> {b1, b2}, vals |-> Vals]
crowded == [ops |-> [p \in Procs |-> 1], writes |-> 2, crashes |-> 0,
            blocks |-> Blocks, vals |-> {v0}]
CrashingOrCrowded == {crashing, crowded}
=============================================================================
