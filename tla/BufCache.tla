------------------------------ MODULE BufCache ------------------------------
(***************************************************************************)
(* The buffer cache (bio.c) and the sleep lock of each buffer              *)
(* (sleeplock.c), as log.c and fs.c use them: a process reads a block,     *)
(* which locks its buffer, may change it and hand it to log_write(), which *)
(* pins the buffer, and releases it; a commit writes a pinned block home   *)
(* and unpins it.  bcache.lock and lk->lk are held over one step each.     *)
(* A member of Procs holds one buffer at a time: a process that holds two  *)
(* (write_log(), bmap()) counts as two of them.                            *)
(***************************************************************************)
EXTENDS Integers, Sequences, FiniteSets

CONSTANTS
  Procs, Bufs, Blocks, Vals,
  NULL,
  MaxPins    \* blocks that the log can hold

ASSUME BufConstantsOK ==
  /\ IsFiniteSet(Procs) /\ IsFiniteSet(Bufs)
  /\ NULL \notin Procs \cup Bufs \cup Blocks
  /\ MaxPins \in Nat

VARIABLES
  order,                          \* the list from head.next to head.prev
  blockno, valid, refcnt, data,   \* struct buf
  locked,                         \* b->lock: its holder
  disk,                           \* the home blocks
  pinned,                         \* the blocks in the log
  pc, buf, want,                  \* the process's step, its buffer and block
  panicked

bufs == <<order, blockno, valid, refcnt, data>>
vars == <<bufs, locked, disk, pinned, pc, buf, want, panicked>>

goto(p, label) == pc' = [pc EXCEPT ![p] = label]

cached(blk) == {b \in Bufs : blockno[b] = blk}

\* b is the least recently used of the buffers that are not in use.
lru(b) ==
  \E n \in DOMAIN order :
    /\ order[n] = b /\ refcnt[b] = 0
    /\ \A m \in DOMAIN order : m > n => refcnt[order[m]] # 0

\* bread() is called.
bread(p, blk) ==
  /\ pc[p] = "idle"
  /\ goto(p, "bget")
  /\ want' = [want EXCEPT ![p] = blk]
  /\ UNCHANGED <<bufs, locked, disk, pinned, buf, panicked>>

\* bget(): the block is cached.
bget_hit(p) ==
  \E b \in cached(want[p]) :
    /\ pc[p] = "bget"
    /\ refcnt' = [refcnt EXCEPT ![b] = @ + 1]
    /\ buf' = [buf EXCEPT ![p] = b]
    /\ goto(p, "acquiresleep")
    /\ UNCHANGED <<order, blockno, valid, data, locked, disk, pinned, want, panicked>>

\* bget(): recycle the least recently used buffer that is not in use.
bget_recycle(p) ==
  \E b \in Bufs :
    /\ pc[p] = "bget" /\ cached(want[p]) = {} /\ lru(b)
    /\ blockno' = [blockno EXCEPT ![b] = want[p]]
    /\ valid' = [valid EXCEPT ![b] = FALSE]
    /\ refcnt' = [refcnt EXCEPT ![b] = 1]
    /\ buf' = [buf EXCEPT ![p] = b]
    /\ goto(p, "acquiresleep")
    /\ UNCHANGED <<order, data, locked, disk, pinned, want, panicked>>

\* Mutant of bget_panic: only the last buffer of the list is looked at.
bget_panic_last(p) ==
  /\ pc[p] = "bget" /\ cached(want[p]) = {} /\ refcnt[order[Len(order)]] # 0
  /\ panicked' = TRUE
  /\ UNCHANGED <<bufs, locked, disk, pinned, pc, buf, want>>

\* bget: no buffers
bget_panic(p) ==
  /\ pc[p] = "bget" /\ cached(want[p]) = {} /\ \A b \in Bufs : refcnt[b] # 0
  /\ panicked' = TRUE
  /\ UNCHANGED <<bufs, locked, disk, pinned, pc, buf, want>>

\* Mutant of acquiresleep: the lock is not looked at again after sleep().
acquiresleep_once(p) ==
  LET b == buf[p]
  IN /\ \/ /\ pc[p] = "acquiresleep" /\ locked[b] # NULL
           /\ goto(p, "sleep")
           /\ UNCHANGED locked
        \/ /\ pc[p] = "woken" \/ (pc[p] = "acquiresleep" /\ locked[b] = NULL)
           /\ locked' = [locked EXCEPT ![b] = p]
           /\ goto(p, "fill")
     /\ UNCHANGED <<bufs, disk, pinned, buf, want, panicked>>

\* acquiresleep(), from its start or from its wakeup.
acquiresleep(p) ==
  LET b == buf[p]
  IN /\ pc[p] \in {"acquiresleep", "woken"}
     /\ \/ /\ locked[b] # NULL
           /\ goto(p, "sleep")
           /\ UNCHANGED locked
        \/ /\ locked[b] = NULL
           /\ locked' = [locked EXCEPT ![b] = p]
           /\ goto(p, "fill")
     /\ UNCHANGED <<bufs, disk, pinned, buf, want, panicked>>

\* kill() wakes a process that waits for a buffer.
kill(p) ==
  /\ pc[p] = "sleep"
  /\ goto(p, "woken")
  /\ UNCHANGED <<bufs, locked, disk, pinned, buf, want, panicked>>

\* Mutant of fill: the block is read again, cached or not.
fill_always(p) ==
  LET b == buf[p]
  IN /\ pc[p] = "fill"
     /\ data' = [data EXCEPT ![b] = disk[blockno[b]]]
     /\ valid' = [valid EXCEPT ![b] = TRUE]
     /\ goto(p, "use")
     /\ UNCHANGED <<order, blockno, refcnt, locked, disk, pinned, buf, want, panicked>>

\* bread() reads the block from the disk if the buffer does not have it.
fill(p) ==
  LET b == buf[p]
  IN /\ pc[p] = "fill"
     /\ data' = [data EXCEPT ![b] = IF valid[b] THEN @ ELSE disk[blockno[b]]]
     /\ valid' = [valid EXCEPT ![b] = TRUE]
     /\ goto(p, "use")
     /\ UNCHANGED <<order, blockno, refcnt, locked, disk, pinned, buf, want, panicked>>

-----------------------------------------------------------------------------
bpin(b) == refcnt' = [refcnt EXCEPT ![b] = @ + 1]

bunpin(b) == refcnt' = [refcnt EXCEPT ![b] = @ - 1]

\* The process changes the block and calls log_write(), which pins a block
\* that is new in the log.
log_write(p, v) ==
  LET b == buf[p]
      blk == blockno[b]
  IN /\ pc[p] = "use" /\ data[b] # v
     /\ Cardinality(pinned \cup {blk}) <= MaxPins
     /\ data' = [data EXCEPT ![b] = v]
     /\ \/ blk \in pinned /\ UNCHANGED refcnt
        \/ blk \notin pinned /\ bpin(b)
     /\ pinned' = pinned \cup {blk}
     /\ UNCHANGED <<order, blockno, valid, locked, disk, pc, buf, want, panicked>>

\* install_trans() on a block in the log: bwrite() and bunpin().
install(p) ==
  LET b == buf[p]
      blk == blockno[b]
  IN /\ pc[p] = "use" /\ blk \in pinned
     /\ disk' = [disk EXCEPT ![blk] = data[b]]
     /\ bunpin(b)
     /\ pinned' = pinned \ {blk}
     /\ UNCHANGED <<order, blockno, valid, data, locked, pc, buf, want, panicked>>

\* Mutant of releasesleep: the sleepers are not woken.
releasesleep_silent(p) ==
  /\ pc[p] = "use"
  /\ locked' = [locked EXCEPT ![buf[p]] = NULL]
  /\ goto(p, "brelse")
  /\ UNCHANGED <<bufs, disk, pinned, buf, want, panicked>>

\* brelse() starts with releasesleep(), which wakes the buffer's waiters.
releasesleep(p) ==
  /\ pc[p] = "use"
  /\ locked' = [locked EXCEPT ![buf[p]] = NULL]
  /\ pc' = [[q \in Procs |-> IF pc[q] = "sleep" /\ buf[q] = buf[p]
                             THEN "woken" ELSE pc[q]] EXCEPT ![p] = "brelse"]
  /\ UNCHANGED <<bufs, disk, pinned, buf, want, panicked>>

\* The list with b moved to its front.
mostrecent(b) ==
  [n \in DOMAIN order |->
     IF n = 1 THEN b
     ELSE IF \E m \in DOMAIN order : m >= n /\ order[m] = b THEN order[n - 1]
     ELSE order[n]]

\* Then the reference is given back; an unused buffer moves to the front.
brelse(p) ==
  LET b == buf[p]
  IN /\ pc[p] = "brelse"
     /\ refcnt' = [refcnt EXCEPT ![b] = @ - 1]
     /\ order' = IF refcnt[b] = 1 THEN mostrecent(b) ELSE order
     /\ buf' = [buf EXCEPT ![p] = NULL]
     /\ want' = [want EXCEPT ![p] = NULL]
     /\ goto(p, "idle")
     /\ UNCHANGED <<blockno, valid, data, locked, disk, pinned, panicked>>

-----------------------------------------------------------------------------
\* The orders in which the buffers can be in the list.
listings ==
  {s \in [1 .. Cardinality(Bufs) -> Bufs] : \A b \in Bufs : \E n \in DOMAIN s : s[n] = b}

\* binit(); the buffers belong to no device yet.
Init ==
  /\ order \in listings
  /\ blockno = [b \in Bufs |-> NULL] /\ valid = [b \in Bufs |-> FALSE]
  /\ refcnt = [b \in Bufs |-> 0] /\ \E v \in Vals : data = [b \in Bufs |-> v]
  /\ locked = [b \in Bufs |-> NULL]
  /\ disk \in [Blocks -> Vals] /\ pinned = {}
  /\ pc = [p \in Procs |-> "idle"]
  /\ buf = [p \in Procs |-> NULL] /\ want = [p \in Procs |-> NULL]
  /\ panicked = FALSE

Proceed(p) ==
  \/ bget_hit(p) \/ bget_recycle(p) \/ bget_panic(p) \/ acquiresleep(p) \/ fill(p)
  \/ releasesleep(p) \/ brelse(p)

Step(p) ==
  \/ Proceed(p) \/ kill(p) \/ install(p)
  \/ \E v \in Vals : log_write(p, v)
  \/ \E blk \in Blocks : bread(p, blk)

\* After a panic() the machine stands still.
Next ==
  \/ ~panicked /\ \E p \in Procs : Step(p)
  \/ panicked /\ UNCHANGED vars

Spec == Init /\ [][Next]_vars
-----------------------------------------------------------------------------
\* Every variable has its type, and every buffer is once in the list.
TypeOK ==
  /\ order \in listings
  /\ blockno \in [Bufs -> Blocks \cup {NULL}] /\ valid \in [Bufs -> BOOLEAN]
  /\ refcnt \in [Bufs -> Nat] /\ data \in [Bufs -> Vals]
  /\ locked \in [Bufs -> Procs \cup {NULL}]
  /\ disk \in [Blocks -> Vals] /\ pinned \subseteq Blocks
  /\ pc \in [Procs -> {"idle", "bget", "acquiresleep", "sleep", "woken", "fill", "use", "brelse"}]
  /\ buf \in [Procs -> Bufs \cup {NULL}] /\ want \in [Procs -> Blocks \cup {NULL}]
  /\ panicked \in BOOLEAN

\* A buffer is counted once for each process that has it or waits for it, and
\* once if its block is in the log, so bget() recycles none that is needed.
RefcntExact ==
  \A b \in Bufs :
    refcnt[b] = Cardinality({p \in Procs : buf[p] = b})
                + (IF blockno[b] \in pinned THEN 1 ELSE 0)

\* No block is in two buffers, and no two processes use one buffer at a time.
OneBufferOneUser ==
  /\ \A b, c \in Bufs : blockno[b] = blockno[c] /\ b # c => blockno[b] = NULL
  /\ \A p, q \in Procs : pc[p] \in {"fill", "use"} /\ pc[q] \in {"fill", "use"} /\ p # q
                         => buf[p] # buf[q]
  /\ \A p \in Procs : buf[p] # NULL => blockno[buf[p]] = want[p]

\* What bread() of a block returns.
Content(blk) == IF \E b \in cached(blk) : valid[b]
                THEN data[CHOOSE b \in cached(blk) : valid[b]]
                ELSE disk[blk]

\* The contents of a block change only when a process that holds its buffer
\* changes them; recycling, reading and installing never do.  So an update
\* handed to log_write() is not lost before it is installed.
CacheIsTransparent ==
  [][\A blk \in Blocks : Content(blk)' # Content(blk)
       => \E p \in Procs : pc[p] = "use" /\ want[p] = blk /\ blk \in pinned']_vars

\* The processes that have a buffer or ask for one.
Callers == {p \in Procs : pc[p] # "idle"}

\* bget() gives up only when it must: the callers, and the blocks in the log,
\* are together more than the buffers.
NoBuffersPanic == panicked => Cardinality(Bufs) < Cardinality(Callers) + Cardinality(pinned)

\* A process never sleeps on a buffer that is not locked: releasesleep() wakes
\* all its waiters, and acquiresleep() tests the lock again before it sleeps.
BufferWaiterWakes == \A p \in Procs : pc[p] = "sleep" => locked[buf[p]] # NULL
=============================================================================
