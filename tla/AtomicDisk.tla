----------------------------- MODULE AtomicDisk -----------------------------
(***************************************************************************)
(* What the file-system log promises its callers: the blocks that survive  *)
(* a crash change only all at once, and only to a state in which no file-  *)
(* system call is half done.                                               *)
(***************************************************************************)
CONSTANTS Procs, Blocks, Vals

VARIABLES
  durable,   \* the blocks as a reboot would show them
  current,   \* the blocks as the running system shows them
  active     \* the processes inside a file-system call

advars == <<durable, current, active>>

Init ==
  /\ durable \in [Blocks -> Vals]
  /\ current = durable
  /\ active = {}

Begin(p) ==
  /\ active' = active \cup {p}
  /\ UNCHANGED <<durable, current>>

Write(p, b, v) ==
  /\ p \in active
  /\ current' = [current EXCEPT ![b] = v]
  /\ UNCHANGED <<durable, active>>

End(p) ==
  /\ active' = active \ {p}
  /\ UNCHANGED <<durable, current>>

Commit ==
  /\ active = {}
  /\ durable' = current
  /\ UNCHANGED <<current, active>>

Crash ==
  /\ current' = durable
  /\ active' = {}
  /\ UNCHANGED durable

Next ==
  \/ \E p \in Procs : Begin(p) \/ End(p)
  \/ \E p \in Procs, b \in Blocks, v \in Vals : Write(p, b, v)
  \/ Commit \/ Crash

Spec == Init /\ [][Next]_advars
=============================================================================
