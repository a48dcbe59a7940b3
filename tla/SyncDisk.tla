------------------------------ MODULE SyncDisk ------------------------------
(* What the disk driver promises: a call is one read or one write of one    *)
(* sector.                                                                  *)
EXTENDS Naturals

CONSTANTS Procs, Vals

VARIABLES phase, write, data, sector

vars == <<phase, write, data, sector>>

Init ==
  /\ phase = [p \in Procs |-> "idle"]
  /\ write = [p \in Procs |-> FALSE]
  /\ sector \in [Procs -> Vals] /\ data = sector

Ask(p, w, v) ==
  /\ phase[p] = "idle"
  /\ phase' = [phase EXCEPT ![p] = "asked"]
  /\ write' = [write EXCEPT ![p] = w]
  /\ data' = [data EXCEPT ![p] = v]
  /\ UNCHANGED sector

Do(p) ==
  /\ phase[p] = "asked"
  /\ phase' = [phase EXCEPT ![p] = "done"]
  /\ \/ write[p] /\ sector' = [sector EXCEPT ![p] = data[p]] /\ UNCHANGED data
     \/ ~write[p] /\ data' = [data EXCEPT ![p] = sector[p]] /\ UNCHANGED sector
  /\ UNCHANGED write

Return(p) ==
  /\ phase[p] = "done"
  /\ phase' = [phase EXCEPT ![p] = "idle"]
  /\ UNCHANGED <<write, data, sector>>

Next == \E p \in Procs : Do(p) \/ Return(p) \/ \E w \in BOOLEAN, v \in Vals : Ask(p, w, v)

Spec == Init /\ [][Next]_vars
=============================================================================
