-------------------------------- MODULE Log --------------------------------
(***************************************************************************)
(* The file-system log (log.c): begin_op, log_write, end_op, the commit    *)
(* that the last end_op runs without a lock, a crash between any two disk  *)
(* writes, and recovery.  One step is one critical section of log.lock or  *)
(* one bwrite().  A bwrite() of a block is atomic on the disk.             *)
(*                                                                         *)
(* cache[b] is what bread(b) shows: log_write() pins the buffers it logs,  *)
(* so they stay cached until they are installed.                           *)
(***************************************************************************)
EXTENDS Integers, Sequences, FiniteSets

CONSTANTS
  Procs, Blocks, Vals,
  MAXOPBLOCKS,   \* blocks reserved for one file-system call
  LOGSIZE,       \* entries of struct logheader
  NLOG,          \* sb->nlog, header block included; mkfs.c makes it LOGSIZE
  Loads          \* bounds: the file-system calls of each process, the blocks one
                 \* of them logs, blocks, values and crashes

ASSUME LogConstantsOK ==
  /\ IsFiniteSet(Procs)
  /\ MAXOPBLOCKS \in Nat /\ LOGSIZE \in Nat /\ NLOG \in Nat
  /\ Loads \subseteq [ops : [Procs -> Nat], writes : Nat, crashes : Nat,
                      blocks : SUBSET Blocks, vals : SUBSET Vals]

VARIABLES
  lh,            \* log.lh: the blocks of the transaction, in memory
  outstanding,   \* log.outstanding
  committing,    \* log.committing
  cache,         \* blocks as bread() shows them
  disk,          \* blocks at their home locations
  logblk,        \* data blocks of the on-disk log
  head,          \* header block of the on-disk log
  pc,            \* where each process is
  tail,          \* loop index of write_log() and install_trans()
  used, ops,     \* blocks this call of p logged; calls p may still make
  boot,          \* progress of recover_from_log(); "done" when the system is up
  crashes,       \* crashes so far
  panicked,      \* panic() was called
  load           \* the bounds of this behaviour

logvars == <<lh, outstanding, committing>>
diskvars == <<disk, logblk, head>>
vars == <<logvars, cache, diskvars, pc, tail, used, ops, boot, crashes, panicked, load>>

Up == boot = "done" /\ ~panicked
blocks(s) == {s[i] : i \in DOMAIN s}

\* Mutant of wakeup: the sleepers are not woken.
wakeup_lost(p, label) == [pc EXCEPT ![p] = label]

\* wakeup(&log), after the caller itself has moved to label.
wakeup(p, label) ==
  [[q \in Procs |-> IF pc[q] = "sleep" THEN "begin" ELSE pc[q]] EXCEPT ![p] = label]

-----------------------------------------------------------------------------
\* Mutant of nospace: the reservation of the calling operation is forgotten.
nospace_others == Len(lh) + outstanding * MAXOPBLOCKS > LOGSIZE

\* "this op might exhaust log space"
nospace == Len(lh) + (outstanding + 1) * MAXOPBLOCKS > LOGSIZE

begin_op(p) ==
  /\ Up
  /\ (pc[p] = "idle" /\ ops[p] > 0) \/ pc[p] = "begin"
  /\ \/ /\ committing \/ nospace
        /\ pc' = [pc EXCEPT ![p] = "sleep"]
        /\ UNCHANGED <<logvars, ops>>
     \/ /\ ~committing /\ ~nospace
        /\ outstanding' = outstanding + 1
        /\ pc' = [pc EXCEPT ![p] = "op"]
        /\ ops' = [ops EXCEPT ![p] = @ - 1]
        /\ UNCHANGED <<lh, committing>>
  /\ UNCHANGED <<cache, diskvars, tail, used, boot, crashes, panicked>>

\* kill() makes a sleeper runnable; begin_op() goes round its loop again.
kill(p) ==
  /\ Up
  /\ pc[p] = "sleep"
  /\ pc' = [pc EXCEPT ![p] = "begin"]
  /\ UNCHANGED <<logvars, cache, diskvars, tail, used, ops, boot, crashes, panicked>>

\* The caller, holding the buffer, changed its data and logs it.
log_write(p, b, v) ==
  /\ Up
  /\ pc[p] = "op" /\ b \in load.blocks /\ v \in load.vals
  /\ used' = [used EXCEPT ![p] = @ \cup {b}]
  /\ Cardinality(used'[p]) <= load.writes
  /\ cache' = [cache EXCEPT ![b] = v]
  /\ IF Len(lh) >= LOGSIZE \/ Len(lh) >= NLOG - 1 \/ outstanding < 1
     THEN panicked' = TRUE /\ UNCHANGED lh
     ELSE /\ lh' = IF b \in blocks(lh) THEN lh ELSE Append(lh, b)
          /\ UNCHANGED panicked
  /\ UNCHANGED <<outstanding, committing, diskvars, pc, tail, ops, boot, crashes>>

\* end_op() up to its first release(); the last operation goes on to commit(),
\* which does nothing when no block was logged.
end_op(p) ==
  /\ Up
  /\ pc[p] = "op"
  /\ outstanding' = outstanding - 1
  /\ panicked' = committing
  /\ IF outstanding' = 0
     THEN /\ committing' = TRUE
          /\ pc' = [pc EXCEPT ![p] = IF lh = <<>> THEN "committed" ELSE "write_log"]
     ELSE /\ pc' = wakeup(p, "idle")
          /\ UNCHANGED committing
  /\ tail' = 0
  /\ used' = [used EXCEPT ![p] = {}]
  /\ UNCHANGED <<lh, cache, diskvars, ops, boot, crashes>>

write_log(p) ==
  /\ Up
  /\ pc[p] = "write_log"
  /\ logblk' = [logblk EXCEPT ![tail + 1] = cache[lh[tail + 1]]]
  /\ tail' = tail + 1
  /\ pc' = [pc EXCEPT ![p] = IF tail' = Len(lh) THEN "write_head" ELSE @]
  /\ UNCHANGED <<logvars, cache, disk, head, used, ops, boot, crashes, panicked>>

write_head(p) ==
  /\ Up
  /\ pc[p] = "write_head"
  /\ head' = lh
  /\ tail' = 0
  /\ pc' = [pc EXCEPT ![p] = "install"]
  /\ UNCHANGED <<logvars, cache, disk, logblk, used, ops, boot, crashes, panicked>>

install_trans(p) ==
  /\ Up
  /\ pc[p] = "install"
  /\ cache' = [cache EXCEPT ![lh[tail + 1]] = logblk[tail + 1]]
  /\ disk' = [disk EXCEPT ![lh[tail + 1]] = logblk[tail + 1]]
  /\ tail' = tail + 1
  /\ pc' = [pc EXCEPT ![p] = IF tail' = Len(lh) THEN "clear" ELSE @]
  /\ UNCHANGED <<logvars, logblk, head, used, ops, boot, crashes, panicked>>

\* Mutant of clear: the header on disk is not erased.
clear_memory(p) ==
  /\ Up
  /\ pc[p] = "clear"
  /\ lh' = <<>>
  /\ pc' = [pc EXCEPT ![p] = "committed"]
  /\ UNCHANGED <<outstanding, committing, cache, diskvars, tail, used, ops, boot,
                 crashes, panicked>>

\* log.lh.n = 0 and the second write_head() of commit().
clear(p) ==
  /\ Up
  /\ pc[p] = "clear"
  /\ lh' = <<>>
  /\ head' = <<>>
  /\ pc' = [pc EXCEPT ![p] = "committed"]
  /\ UNCHANGED <<outstanding, committing, cache, disk, logblk, tail, used, ops,
                 boot, crashes, panicked>>

\* The end of end_op() after commit().
committed(p) ==
  /\ Up
  /\ pc[p] = "committed"
  /\ committing' = FALSE
  /\ pc' = wakeup(p, "idle")
  /\ UNCHANGED <<lh, outstanding, cache, diskvars, tail, used, ops, boot, crashes,
                 panicked>>

-----------------------------------------------------------------------------
(* A crash at any moment, and initlog()'s recover_from_log() on the reboot. *)

crash ==
  /\ crashes < load.crashes /\ ~panicked
  /\ crashes' = crashes + 1
  /\ boot' = "read_head"
  /\ lh' = <<>> /\ outstanding' = 0 /\ committing' = FALSE
  /\ pc' = [p \in Procs |-> "idle"]
  /\ tail' = 0
  /\ used' = [p \in Procs |-> {}]
  /\ UNCHANGED <<cache, diskvars, ops, panicked>>

\* Mutant of read_head: a committed transaction is dropped.
read_head_drop ==
  /\ boot = "read_head"
  /\ cache' = disk
  /\ boot' = "clear"
  /\ UNCHANGED <<logvars, diskvars, pc, tail, used, ops, crashes, panicked>>

\* The cache of a booted kernel is empty: bread() shows the disk.
read_head ==
  /\ boot = "read_head"
  /\ lh' = head
  /\ cache' = disk
  /\ boot' = IF head = <<>> THEN "clear" ELSE "install"
  /\ UNCHANGED <<outstanding, committing, diskvars, pc, tail, used, ops, crashes,
                 panicked>>

recover_install ==
  /\ boot = "install"
  /\ cache' = [cache EXCEPT ![lh[tail + 1]] = logblk[tail + 1]]
  /\ disk' = [disk EXCEPT ![lh[tail + 1]] = logblk[tail + 1]]
  /\ tail' = tail + 1
  /\ boot' = IF tail' = Len(lh) THEN "clear" ELSE "install"
  /\ UNCHANGED <<logvars, logblk, head, pc, used, ops, crashes, panicked>>

recover_clear ==
  /\ boot = "clear"
  /\ lh' = <<>>
  /\ head' = <<>>
  /\ boot' = "done"
  /\ UNCHANGED <<outstanding, committing, cache, disk, logblk, pc, tail, used, ops,
                 crashes, panicked>>

-----------------------------------------------------------------------------
Init ==
  /\ lh = <<>> /\ outstanding = 0 /\ committing = FALSE
  /\ disk \in [Blocks -> Vals]
  /\ cache = disk
  /\ logblk \in [1 .. LOGSIZE -> Vals]
  /\ head = <<>>
  /\ pc = [p \in Procs |-> "idle"]
  /\ tail = 0
  /\ used = [p \in Procs |-> {}]
  /\ load \in Loads /\ ops = load.ops
  /\ boot = "read_head"
  /\ crashes = 0
  /\ panicked = FALSE

Proceed(p) ==
  \/ begin_op(p) \/ end_op(p)
  \/ \E b \in Blocks, v \in Vals : log_write(p, b, v)
  \/ write_log(p) \/ write_head(p) \/ install_trans(p) \/ clear(p) \/ committed(p)

Recover == read_head \/ recover_install \/ recover_clear

\* Every process is back from its last file-system call, or the kernel panicked.
Stopped ==
  /\ \/ panicked
     \/ boot = "done" /\ \A p \in Procs : pc[p] = "idle" /\ ops[p] = 0
  /\ UNCHANGED vars

Next ==
  /\ \/ \E p \in Procs : Proceed(p) \/ kill(p)
     \/ Recover \/ crash \/ Stopped
  /\ UNCHANGED load

Spec == Init /\ [][Next]_vars

\* The scheduler runs every process that can run (begin_op() re-checks with
\* log.lock held, so a waiting process is a step that is enabled), and every
\* file-system call comes to its end_op().
Fairness ==
  /\ WF_vars(Recover /\ UNCHANGED load)
  /\ \A p \in Procs : WF_vars(Proceed(p) /\ UNCHANGED load) /\ WF_vars(end_op(p) /\ UNCHANGED load)
-----------------------------------------------------------------------------
\* Every variable has its type; the transaction fits struct logheader.
TypeOK ==
  /\ lh \in Seq(Blocks) /\ Len(lh) <= LOGSIZE
  /\ outstanding \in Nat /\ committing \in BOOLEAN
  /\ cache \in [Blocks -> Vals] /\ disk \in [Blocks -> Vals]
  /\ logblk \in [1 .. LOGSIZE -> Vals]
  /\ head \in Seq(Blocks) /\ Len(head) <= LOGSIZE
  /\ pc \in [Procs -> {"idle", "begin", "sleep", "op", "write_log", "write_head",
                       "install", "clear", "committed"}]
  /\ tail \in 0 .. LOGSIZE
  /\ used \in [Procs -> SUBSET Blocks] /\ ops \in [Procs -> Int]
  /\ boot \in {"read_head", "install", "clear", "done"}
  /\ crashes \in Nat /\ panicked \in BOOLEAN

\* No panic() of log.c is called: a call that keeps to its reservation never
\* fills the log, and nobody ends an operation during a commit.
NoLogPanic == ~panicked

\* The blocks a reboot at this moment would end up with.
Recovered ==
  [b \in Blocks |->
     IF b \in blocks(head)
     THEN logblk[CHOOSE i \in DOMAIN head : head[i] = b]
     ELSE disk[b]]

\* Once the last end_op() has returned, everything written so far survives a
\* crash and is at its home location.
QuietIsDurable ==
  boot = "done" /\ outstanding = 0 /\ ~committing => disk = cache /\ head = <<>>

\* No wakeup is lost: a process that sleeps in begin_op(), for a commit or for
\* log space, gets into its file-system call.
SleeperEnters == \A p \in Procs : pc[p] = "sleep" ~> pc[p] = "op"

\* log.c's promise: "there is never any reasoning required about whether a
\* commit might write an uncommitted system call's updates to disk".
AD == INSTANCE AtomicDisk WITH
  durable <- Recovered,
  current <- IF boot = "done" THEN cache ELSE Recovered,
  active <- {p \in Procs : pc[p] = "op"}
LogIsAtomic == AD!Spec
=============================================================================
