----------------------------- MODULE VirtioDisk -----------------------------
(***************************************************************************)
(* The virtio disk driver (virtio_disk.c), its interrupt handler, and the  *)
(* device at the other side of the descriptor table and the two rings.     *)
(* Each process does disk operations on a buffer of its own, which it has  *)
(* locked (bio.c).  A request is a chain of three descriptors: the         *)
(* operation, the data, the status byte.                                   *)
(***************************************************************************)
EXTENDS Integers, FiniteSets, Sequences

CONSTANTS
  Procs,     \* processes; a process stands for its buffer and its sector too
  NULL,
  NUM,       \* descriptors, and entries of each ring
  UINT16,    \* values of a ring index, 2^16 in the code
  Vals       \* contents of a block

ASSUME VirtioConstantsOK ==
  /\ IsFiniteSet(Procs) /\ NULL \notin Procs /\ "intr" \notin Procs \cup {NULL}
  /\ NUM \in Nat /\ NUM >= 3
  /\ UINT16 \in Nat /\ UINT16 >= NUM /\ UINT16 % NUM = 0

Desc == 0 .. NUM - 1

VARIABLES
  free, desc,                 \* disk.free, disk.desc
  ring, avail,                \* disk.avail->ring, ->idx
  uring, used,                \* disk.used->ring[].id, ->idx
  used_idx,                   \* disk.used_idx
  info, ops,                  \* disk.info, disk.ops
  lock,                       \* holder of disk.vdisk_lock: a process or "intr"
  disk, data,                 \* b->disk, b->data
  pc, write, idx,             \* the calls of virtio_disk_rw() and their locals
  seen, busy, sector, irq,    \* the device: avail entries seen, chains taken,
                              \* contents, the interrupt line
  panicked

driver == <<free, desc, ring, avail, used_idx, info, ops>>
device == <<uring, used, seen, busy, sector>>
calls == <<pc, write, idx>>
vars == <<driver, device, calls, lock, disk, data, irq, panicked>>

-----------------------------------------------------------------------------
\* The three lowest free descriptors, as alloc_desc() finds them.
three == CHOOSE t \in [1 .. 3 -> free] :
           /\ t[1] < t[2] /\ t[2] < t[3]
           /\ \A d \in free : d < t[3] => d \in {t[1], t[2]}

NoDesc == [addr |-> NULL, next |-> 0, flags |-> {}]

\* The calls free_desc() on the descriptors freed: the processes that sleep on
\* &disk.free[0] start over.  p goes to the label.
wakefree(p, label, freed) ==
  pc' = [q \in Procs |-> IF q = p THEN label
                         ELSE IF pc[q] = "allocsleep" /\ freed # {} THEN "alloc"
                         ELSE pc[q]]

\* virtio_disk_rw() is called with v in the buffer: the block to write, or what
\* the buffer held before.
rw(p, w, v) ==
  /\ pc[p] = "idle"
  /\ pc' = [pc EXCEPT ![p] = "alloc"]
  /\ write' = [write EXCEPT ![p] = w]
  /\ data' = [data EXCEPT ![p] = v]
  /\ UNCHANGED <<driver, device, idx, lock, disk, irq, panicked>>

\* Mutant of alloc3_fail: what it had allocated it keeps.
alloc3_fail_leak(p) ==
  /\ pc[p] = "alloc" /\ lock = NULL
  /\ Cardinality(free) < 3
  /\ free' = {}
  /\ pc' = [pc EXCEPT ![p] = "allocsleep"]
  /\ UNCHANGED <<desc, ring, avail, used_idx, info, ops, device, write, idx, lock, disk, data, irq, panicked>>

\* alloc3_desc() fails.  What it had allocated it frees again, and free_desc()
\* wakes the other processes that wait for descriptors.
alloc3_fail(p) ==
  /\ pc[p] = "alloc" /\ lock = NULL
  /\ Cardinality(free) < 3
  /\ wakefree(p, "allocsleep", free)
  /\ UNCHANGED <<driver, device, write, idx, lock, disk, data, irq, panicked>>

\* alloc3_desc() succeeds; the descriptors are formatted, and the ring entry is
\* written, but not yet counted.
format(p) ==
  LET t == three
  IN /\ pc[p] = "alloc" /\ lock = NULL
     /\ Cardinality(free) >= 3
     /\ free' = free \ {t[1], t[2], t[3]}
     /\ idx' = [idx EXCEPT ![p] = t[1]]
     /\ ops' = [ops EXCEPT ![t[1]] = [type |-> IF write[p] THEN "OUT" ELSE "IN",
                                      sector |-> p]]
     /\ desc' = [desc EXCEPT
          ![t[1]] = [addr |-> t[1], next |-> t[2], flags |-> {"NEXT"}],
          ![t[2]] = [addr |-> p, next |-> t[3],
                     flags |-> IF write[p] THEN {"NEXT"} ELSE {"NEXT", "WRITE"}],
          ![t[3]] = [addr |-> t[1], next |-> 0, flags |-> {"WRITE"}]]
     /\ info' = [info EXCEPT ![t[1]] = [b |-> p, status |-> 255]]
     /\ disk' = [disk EXCEPT ![p] = 1]
     /\ ring' = [ring EXCEPT ![avail % NUM] = t[1]]
     /\ lock' = p
     /\ pc' = [pc EXCEPT ![p] = "publish"]
     /\ UNCHANGED <<avail, used_idx, device, write, data, irq, panicked>>

\* The device is told of the entry; then sleep(b), which releases the lock.
publish(p) ==
  /\ pc[p] = "publish"
  /\ avail' = (avail + 1) % UINT16
  /\ lock' = NULL
  /\ pc' = [pc EXCEPT ![p] = "wait"]
  /\ UNCHANGED <<free, desc, ring, used_idx, info, ops, device, write, idx, disk, data, irq, panicked>>

\* The descriptors that free_chain(d) frees.
chain(d) ==
  LET e == desc[d].next
      f == desc[e].next
  IN {d} \cup (IF "NEXT" \in desc[d].flags THEN {e} ELSE {})
         \cup (IF {"NEXT"} \subseteq desc[d].flags \cap desc[e].flags THEN {f} ELSE {})

\* Mutant of done: the wakeup is trusted, b->disk not looked at again.
done_trusting(p) == TRUE

done(p) == disk[p] = 0

\* The loop of virtio_disk_rw(): woken, but not for this.
resleep(p) ==
  /\ pc[p] = "woken" /\ lock = NULL
  /\ ~done(p)
  /\ pc' = [pc EXCEPT ![p] = "wait"]
  /\ UNCHANGED <<driver, device, write, idx, lock, disk, data, irq, panicked>>

\* kill() makes a sleeping process runnable, wherever it sleeps.
kill(p) ==
  /\ pc[p] \in {"wait", "allocsleep"}
  /\ pc' = [pc EXCEPT ![p] = IF @ = "wait" THEN "woken" ELSE "alloc"]
  /\ UNCHANGED <<driver, device, write, idx, lock, disk, data, irq, panicked>>

\* The operation is over: free the chain and return.
finish(p) ==
  /\ pc[p] = "woken" /\ lock = NULL
  /\ done(p)
  /\ info' = [info EXCEPT ![idx[p]].b = NULL]
  /\ free' = free \cup chain(idx[p])
  /\ desc' = [d \in Desc |-> IF d \in chain(idx[p]) THEN NoDesc ELSE desc[d]]
  /\ panicked' = (panicked \/ chain(idx[p]) \cap free # {})
  /\ wakefree(p, "idle", chain(idx[p]))
  /\ UNCHANGED <<ring, avail, used_idx, ops, device, write, idx, lock, disk, data, irq>>

-----------------------------------------------------------------------------
\* virtio_disk_intr() starts: it acquires the lock and acknowledges.
intr_ack ==
  /\ irq /\ lock = NULL
  /\ irq' = FALSE
  /\ lock' = "intr"
  /\ UNCHANGED <<driver, device, calls, disk, data, panicked>>

\* One used entry: the buffer is the process's again, and it wakes.
intr_entry ==
  LET id == uring[used_idx % NUM]
      b == info[id].b
  IN /\ lock = "intr" /\ used_idx # used
     /\ used_idx' = (used_idx + 1) % UINT16
     /\ \/ /\ info[id].status = 0 /\ b # NULL
           /\ disk' = [disk EXCEPT ![b] = 0]
           /\ pc' = [pc EXCEPT ![b] = IF @ = "wait" THEN "woken" ELSE @]
           /\ UNCHANGED panicked
        \/ /\ info[id].status # 0 \/ b = NULL
           /\ panicked' = TRUE
           /\ UNCHANGED <<disk, pc>>
     /\ UNCHANGED <<free, desc, ring, avail, info, ops, device, write, idx, lock, data, irq>>

\* Mutant of intr_return: the handler does not look at the used ring again.
intr_return_early ==
  /\ lock = "intr"
  /\ lock' = NULL
  /\ UNCHANGED <<driver, device, calls, disk, data, irq, panicked>>

intr_return ==
  /\ lock = "intr" /\ used_idx = used
  /\ lock' = NULL
  /\ UNCHANGED <<driver, device, calls, disk, data, irq, panicked>>

-----------------------------------------------------------------------------
\* The device takes the next entry of the avail ring.
DeviceTake ==
  /\ seen # avail
  /\ busy' = busy \cup {ring[seen % NUM]}
  /\ seen' = (seen + 1) % UINT16
  /\ UNCHANGED <<driver, uring, used, sector, calls, lock, disk, data, irq, panicked>>

\* It performs any of the operations it has taken, as the chain says, and
\* reports it in the used ring, with an interrupt.
DeviceDo(d) ==
  LET op == ops[desc[d].addr]
      dd == desc[desc[d].next]
      st == desc[dd.next].addr
  IN /\ d \in busy
     /\ busy' = busy \ {d}
     /\ \/ op.type = "OUT" /\ sector' = [sector EXCEPT ![op.sector] = data[dd.addr]] /\ UNCHANGED data
        \/ op.type = "IN" /\ data' = [data EXCEPT ![dd.addr] = sector[op.sector]] /\ UNCHANGED sector
     /\ info' = [info EXCEPT ![st].status = 0]
     /\ uring' = [uring EXCEPT ![used % NUM] = d]
     /\ used' = (used + 1) % UINT16
     /\ irq' = TRUE
     /\ UNCHANGED <<free, desc, ring, avail, used_idx, ops, calls, lock, disk, seen, panicked>>

-----------------------------------------------------------------------------
Init ==
  /\ free = Desc /\ desc = [d \in Desc |-> NoDesc]
  /\ ring = [k \in Desc |-> 0] /\ avail = 0
  /\ uring = [k \in Desc |-> 0] /\ used = 0 /\ used_idx = 0
  /\ info = [d \in Desc |-> [b |-> NULL, status |-> 0]]
  /\ ops = [d \in Desc |-> [type |-> "IN", sector |-> NULL]]
  /\ lock = NULL /\ disk = [p \in Procs |-> 0]
  /\ sector \in [Procs -> Vals] /\ data = sector
  /\ pc = [p \in Procs |-> "idle"]
  /\ write = [p \in Procs |-> FALSE] /\ idx = [p \in Procs |-> 0]
  /\ seen = 0 /\ busy = {} /\ irq = FALSE
  /\ panicked = FALSE

Proceed(p) == alloc3_fail(p) \/ format(p) \/ publish(p) \/ resleep(p) \/ finish(p)

Intr == intr_ack \/ intr_entry \/ intr_return

Device == DeviceTake \/ \E d \in Desc : DeviceDo(d)

Next ==
  \/ \E p \in Procs : Proceed(p) \/ kill(p) \/ \E w \in BOOLEAN, v \in Vals : rw(p, w, v)
  \/ Intr
  \/ Device

Spec == Init /\ [][Next]_vars
-----------------------------------------------------------------------------
\* Every variable has its type, and the ring indices are unsigned.
TypeOK ==
  /\ free \subseteq Desc /\ busy \subseteq Desc
  /\ desc \in [Desc -> [addr : Procs \cup Desc \cup {NULL}, next : Desc,
                       flags : SUBSET {"NEXT", "WRITE"}]]
  /\ ring \in [Desc -> Desc] /\ uring \in [Desc -> Desc]
  /\ avail \in 0 .. UINT16 - 1 /\ seen \in 0 .. UINT16 - 1
  /\ used \in 0 .. UINT16 - 1 /\ used_idx \in 0 .. UINT16 - 1
  /\ info \in [Desc -> [b : Procs \cup {NULL}, status : {0, 255}]]
  /\ ops \in [Desc -> [type : {"IN", "OUT"}, sector : Procs \cup {NULL}]]
  /\ lock \in Procs \cup {NULL, "intr"}
  /\ disk \in [Procs -> {0, 1}] /\ data \in [Procs -> Vals] /\ sector \in [Procs -> Vals]
  /\ pc \in [Procs -> {"idle", "alloc", "allocsleep", "publish", "wait", "woken"}]
  /\ write \in [Procs -> BOOLEAN] /\ idx \in [Procs -> Desc]
  /\ irq \in BOOLEAN /\ panicked \in BOOLEAN

\* The processes that have a request in the queue.
InFlight == {p \in Procs : pc[p] \in {"publish", "wait", "woken"}}

\* The descriptors that are not free are those of the requests in the queue,
\* three for each: none leaks, and no two requests share one.  No panic().
DescriptorsOwned ==
  /\ ~panicked
  /\ \A p \in InFlight : Cardinality(chain(idx[p])) = 3 /\ chain(idx[p]) \cap free = {}
  /\ \A p, q \in InFlight : p # q => chain(idx[p]) \cap chain(idx[q]) = {}
  /\ Cardinality(free) + 3 * Cardinality(InFlight) = NUM

\* A call of virtio_disk_rw() reads or writes its own sector exactly once, at
\* one moment between call and return, whatever order the device works in.
Sync == INSTANCE SyncDisk WITH
  phase <- [p \in Procs |-> IF pc[p] = "idle" THEN "idle"
                            ELSE IF p \in InFlight /\ info[idx[p]].status = 0 THEN "done"
                            ELSE "asked"]
DiskIsSynchronous == Sync!Spec

\* The entries of a ring that its reader has still to look at.
pending(r, lo, hi) == {r[(lo + k) % NUM] : k \in 0 .. ((hi - lo) % UINT16) - 1}

\* No request and no interrupt is lost, also when the device adds to the used
\* ring while the handler runs: a request that is not done is in a ring or with
\* the device, the handler is on its way for a used entry, the process of a
\* request that is done does not sleep, and nobody sleeps for descriptors while
\* three are free.
NoRequestLost ==
  /\ \A p \in InFlight :
       pc[p] # "publish" /\ disk[p] = 1 =>
         idx[p] \in pending(ring, seen, avail) \cup busy \cup pending(uring, used_idx, used)
  /\ used_idx # used => irq \/ lock = "intr"
  /\ \A p \in Procs : pc[p] = "wait" => disk[p] = 1
  /\ \A p \in Procs : pc[p] = "allocsleep" => Cardinality(free) < 3
=============================================================================
