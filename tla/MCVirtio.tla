------------------------------ MODULE MCVirtio ------------------------------
EXTENDS VirtioDisk, TLC

\* Processes and contents are interchangeable.
Symmetric == Permutations(Procs) \cup Permutations(Vals)

\* The entries of a ring from index lo on, n of them; the others are stale, and
\* are overwritten before they are read again.
Live(r, lo, n) == [k \in 0 .. n - 1 |-> r[(lo + k) % NUM]]

\* The state without its stale parts: ring entries that were consumed, the
\* fields of free descriptors, the locals of calls that have returned.
WithoutStale ==
  <<free, desc, avail, seen, used, used_idx, busy, sector, data, disk, pc, lock, irq, panicked>> \o
  <<Live(ring, seen, ((avail - seen) % UINT16) + (IF lock \in Procs THEN 1 ELSE 0)),
    Live(uring, used_idx, (used - used_idx) % UINT16),
    [d \in Desc \ free |-> <<info[d], ops[d]>>],
    [d \in free |-> info[d].b],
    [p \in InFlight |-> idx[p]],
    [p \in {q \in Procs : pc[q] # "idle"} |-> write[p]]>>
=============================================================================
