-------------------------------- MODULE Pipe --------------------------------
(***************************************************************************)
(* A pipe (pipe.c) and the processes that hold its two ends.  pi->lock is  *)
(* held over a whole call of pipewrite() or piperead(), except in sleep(). *)
(* The two counters are unsigned and wrap.                                 *)
(***************************************************************************)
EXTENDS Integers, Sequences, FiniteSets

CONSTANTS
  Readers, Writers,   \* the processes that have the read end, the write end
  Bytes,
  NULL,
  PIPESIZE,
  UINT,               \* values of an unsigned counter, 2^32 in the code
  MaxCount            \* bound: bytes of one read() or write()

ASSUME PipeConstantsOK ==
  /\ IsFiniteSet(Readers) /\ IsFiniteSet(Writers) /\ Readers \cap Writers = {}
  /\ NULL \notin Readers \cup Writers
  /\ PIPESIZE \in Nat \ {0} /\ UINT \in Nat /\ UINT > PIPESIZE
  /\ UINT % PIPESIZE = 0
  /\ MaxCount \in Nat

Procs == Readers \cup Writers

VARIABLES
  data, nread, nwrite, readopen, writeopen,   \* struct pipe
  lock,      \* the process that holds pi->lock
  freed,     \* kfree(pi) was called
  open,      \* the processes that still have their end open
  killed,    \* p->killed
  pc, i, n   \* where p is, and the locals of its call

pipe == <<data, nread, nwrite, readopen, writeopen>>
vars == <<pipe, lock, freed, open, killed, pc, i, n>>

goto(p, label) == pc' = [pc EXCEPT ![p] = label]

\* Where sleep() goes on.
relock(sleeping) == IF sleeping = "rsleep" THEN "rlock" ELSE "wlock"

\* Mutant of wake: only the process itself moves on.
wake_nobody(sleeping, p, label) == goto(p, label)

\* wakeup(&pi->nread) with label "rsleep", wakeup(&pi->nwrite) with "wsleep":
\* the sleepers reacquire pi->lock; p itself goes to the label given.
wake(sleeping, p, label) ==
  pc' = [[q \in Procs |-> IF pc[q] = sleeping THEN relock(sleeping) ELSE pc[q]]
           EXCEPT ![p] = label]

\* The locals of a call that returns.
forget(p) == i' = [i EXCEPT ![p] = 0] /\ n' = [n EXCEPT ![p] = 0]

\* Mutant of full: the sum does not wrap as an unsigned one does.
full_unwrapped == nwrite = nread + PIPESIZE

full == nwrite = (nread + PIPESIZE) % UINT
empty == nread = nwrite

-----------------------------------------------------------------------------
\* write(fd, addr, k) and read(fd, addr, k)
Call(p, k) ==
  /\ p \in open /\ pc[p] = "idle" /\ ~killed[p]
  /\ goto(p, IF p \in Writers THEN "wlock" ELSE "rlock")
  /\ i' = [i EXCEPT ![p] = 0]
  /\ n' = [n EXCEPT ![p] = k]
  /\ UNCHANGED <<pipe, lock, freed, open, killed>>

Acquire(p) ==
  /\ lock = NULL
  /\ lock' = p
  /\ \/ pc[p] = "wlock" /\ goto(p, "wloop")
     \/ pc[p] = "rlock" /\ goto(p, "rwait")
  /\ UNCHANGED <<pipe, freed, open, killed, i, n>>

\* The early return of pipewrite(): nobody is woken.
WriteFail(p) ==
  /\ pc[p] = "wloop" /\ i[p] < n[p]
  /\ ~readopen \/ killed[p]
  /\ lock' = NULL
  /\ goto(p, "idle")
  /\ UNCHANGED <<pipe, freed, open, killed, i, n>>

\* pipewrite-full
WriteSleep(p) ==
  /\ pc[p] = "wloop" /\ i[p] < n[p]
  /\ readopen /\ ~killed[p] /\ full
  /\ wake("rsleep", p, "wsleep")
  /\ lock' = NULL
  /\ UNCHANGED <<pipe, freed, open, killed, i, n>>

WriteByte(p, b) ==
  /\ pc[p] = "wloop" /\ i[p] < n[p]
  /\ readopen /\ ~killed[p] /\ ~full
  /\ data' = [data EXCEPT ![nwrite % PIPESIZE] = b]
  /\ nwrite' = (nwrite + 1) % UINT
  /\ i' = [i EXCEPT ![p] = @ + 1]
  /\ UNCHANGED <<nread, readopen, writeopen, lock, freed, open, killed, pc, n>>

\* All bytes are written, or copyin() fails for the next one.
WriteDone(p) ==
  /\ pc[p] = "wloop"
  /\ i[p] = n[p] \/ (readopen /\ ~killed[p] /\ ~full)
  /\ wake("rsleep", p, "idle")
  /\ lock' = NULL
  /\ forget(p)
  /\ UNCHANGED <<pipe, freed, open, killed>>

-----------------------------------------------------------------------------
\* piperead()'s first loop; it gives up when the process was killed.
ReadWait(p) ==
  /\ pc[p] = "rwait"
  /\ \/ /\ empty /\ writeopen
        /\ goto(p, IF killed[p] THEN "idle" ELSE "rsleep")
        /\ lock' = NULL
     \/ /\ ~(empty /\ writeopen)
        /\ goto(p, "rcopy")
        /\ UNCHANGED lock
  /\ UNCHANGED <<pipe, freed, open, killed, i, n>>

\* One byte; it is gone from the pipe also when copyout() then fails.
ReadByte(p) ==
  /\ pc[p] = "rcopy" /\ i[p] < n[p] /\ ~empty
  /\ nread' = (nread + 1) % UINT
  /\ \/ i' = [i EXCEPT ![p] = @ + 1] /\ UNCHANGED pc
     \/ goto(p, "rdone") /\ UNCHANGED i
  /\ UNCHANGED <<data, nwrite, readopen, writeopen, lock, freed, open, killed, n>>

ReadDone(p) ==
  /\ \/ pc[p] = "rcopy" /\ (i[p] = n[p] \/ empty)
     \/ pc[p] = "rdone"
  /\ wake("wsleep", p, "idle")
  /\ lock' = NULL
  /\ forget(p)
  /\ UNCHANGED <<pipe, freed, open, killed>>

-----------------------------------------------------------------------------
\* Mutant of bothclosed: one closed end is enough.
bothclosed_either(r, w) == ~r \/ ~w

bothclosed(r, w) == ~r /\ ~w

\* p closes its end; fileclose() calls pipeclose() for the last one.
Close(p) ==
  LET last == open \cap (IF p \in Readers THEN Readers ELSE Writers) = {p}
  IN /\ p \in open /\ pc[p] = "idle" /\ lock = NULL
     /\ open' = open \ {p}
     /\ readopen' = (readopen /\ ~(last /\ p \in Readers))
     /\ writeopen' = (writeopen /\ ~(last /\ p \in Writers))
     /\ \/ ~last /\ UNCHANGED pc
        \/ last /\ p \in Writers /\ wake("rsleep", p, "idle")
        \/ last /\ p \in Readers /\ wake("wsleep", p, "idle")
     /\ freed' = (last /\ bothclosed(readopen', writeopen'))
     /\ UNCHANGED <<data, nread, nwrite, lock, killed, i, n>>

\* kill() of the process: sleep() returns.
Kill(p) ==
  /\ ~killed[p]
  /\ killed' = [killed EXCEPT ![p] = TRUE]
  /\ pc' = [pc EXCEPT ![p] = IF @ \in {"rsleep", "wsleep"} THEN relock(@) ELSE @]
  /\ UNCHANGED <<pipe, lock, freed, open, i, n>>

-----------------------------------------------------------------------------
\* pipealloc() in a page that kalloc() filled, with every process holding its end.
Init ==
  /\ \E b \in Bytes : data = [k \in 0 .. PIPESIZE - 1 |-> b]
  /\ nread = 0 /\ nwrite = 0 /\ readopen = TRUE /\ writeopen = TRUE
  /\ lock = NULL /\ freed = FALSE
  /\ open = Procs
  /\ killed = [p \in Procs |-> FALSE]
  /\ pc = [p \in Procs |-> "idle"]
  /\ i = [p \in Procs |-> 0] /\ n = [p \in Procs |-> 0]

Proceed(p) ==
  \/ Acquire(p)
  \/ WriteFail(p) \/ WriteSleep(p) \/ (\E b \in Bytes : WriteByte(p, b)) \/ WriteDone(p)
  \/ ReadWait(p) \/ ReadByte(p) \/ ReadDone(p)

Next ==
  \/ \E p \in Procs : Proceed(p) \/ Close(p) \/ Kill(p) \/ \E k \in 0 .. MaxCount : Call(p, k)
  \/ open = {} /\ UNCHANGED vars

Spec == Init /\ [][Next]_vars
-----------------------------------------------------------------------------
\* Every variable has its type; the counters are unsigned.
TypeOK ==
  /\ data \in [0 .. PIPESIZE - 1 -> Bytes]
  /\ nread \in 0 .. UINT - 1 /\ nwrite \in 0 .. UINT - 1
  /\ readopen \in BOOLEAN /\ writeopen \in BOOLEAN
  /\ lock \in Procs \cup {NULL} /\ freed \in BOOLEAN
  /\ open \subseteq Procs
  /\ killed \in [Procs -> BOOLEAN]
  /\ pc \in [Procs -> {"idle", "wlock", "wloop", "wsleep", "rlock", "rwait", "rcopy",
                       "rdone", "rsleep"}]
  /\ i \in [Procs -> 0 .. MaxCount] /\ n \in [Procs -> 0 .. MaxCount]

\* The pipe is freed only when nobody can be in one of its operations.
NoUseAfterFree == freed => open = {} /\ \A p \in Procs : pc[p] = "idle"

\* The bytes in the pipe are read in the order they were written, each at most
\* once, whatever the counters are modulo 2^32.
FIFO == INSTANCE Fifo WITH
  N <- PIPESIZE,
  q <- [k \in 1 .. (nwrite - nread) % UINT |-> data[(nread + k - 1) % PIPESIZE]]
PipeIsFifo == FIFO!Spec

\* A writer killed in the middle of a write() left bytes and woke nobody.
KilledMidWrite == \E w \in Writers : killed[w] /\ i[w] > 0 /\ i[w] < n[w]

\* No wakeup is lost: when nobody is in the middle of a call, no reader sleeps
\* on a pipe that has data or no writer left, and no writer on a pipe that has
\* room or no reader left.  The exception is in the code: pipewrite() returns
\* without wakeup(&pi->nread) when the writer was killed, so bytes it wrote may
\* wait for the next write() or the last close().
NoSleeperForgotten ==
  lock = NULL =>
    \A p \in Procs :
      /\ pc[p] = "rsleep" => (empty \/ KilledMidWrite) /\ writeopen
      /\ pc[p] = "wsleep" => full /\ readopen
=============================================================================
