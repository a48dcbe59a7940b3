---------------------------- MODULE PrivateMemory ----------------------------
(***************************************************************************)
(* What copy-on-write must preserve: every process has an address space of *)
(* its own.  A process changes its own memory only, and fork() gives the   *)
(* child a snapshot of the parent's memory.  Nothing is shared.            *)
(***************************************************************************)
CONSTANTS Procs, VA, Vals, Zero, None

VARIABLE view   \* view[p][va]: contents of p's page va, None if unmapped

vars == <<view>>

Unmapped == [va \in VA |-> None]

Init == \E p \in Procs, m \in [VA -> Vals \cup {None}] :
          view = [q \in Procs |-> IF q = p THEN m ELSE Unmapped]

\* A store of the program, or of the kernel on its behalf.
Write(p, va) ==
  /\ view[p][va] # None
  /\ \E v \in Vals : view' = [view EXCEPT ![p][va] = v]

\* sbrk() maps and unmaps single pages; a new page reads as zero.
Map(p, va) ==
  /\ view[p][va] = None
  /\ view' = [view EXCEPT ![p][va] = Zero]

Unmap(p, va) ==
  view' = [view EXCEPT ![p][va] = None]

\* The child starts with the parent's memory.
Fork(p, c) ==
  /\ view[c] = Unmapped
  /\ view' = [view EXCEPT ![c] = view[p]]

\* exec() replaces the whole image.
Exec(p) ==
  \E m \in [VA -> Vals \cup {None}] : view' = [view EXCEPT ![p] = m]

Exit(p) ==
  view' = [view EXCEPT ![p] = Unmapped]

Next ==
  \E p \in Procs :
     \/ \E va \in VA : Write(p, va) \/ Map(p, va) \/ Unmap(p, va)
     \/ \E c \in Procs : Fork(p, c)
     \/ Exec(p)
     \/ Exit(p)

Spec == Init /\ [][Next]_vars
=============================================================================
