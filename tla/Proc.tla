-------------------------------- MODULE Proc --------------------------------
(***************************************************************************)
(* The life of a process (proc.c): fork, exit, wait, kill, sleep/wakeup,   *)
(* yield, the round-robin scheduler() of every CPU, sys_sleep() and the    *)
(* clock interrupt.  One step is one critical section.  p->lock is held    *)
(* from the moment a process decides to give up its CPU until the          *)
(* scheduler, on its own stack again, releases it; wait_lock and tickslock *)
(* are held over several steps.                                            *)
(*                                                                         *)
(* Left out: what fork and exit do to memory (CowMemory), files and the    *)
(* current directory, and the allocation failures of allocproc(), which    *)
(* leave the process table as it was.                                      *)
(***************************************************************************)
EXTENDS Integers

CONSTANTS
  NPROC,      \* slots of proc[]; slot 1 is initproc
  CPUs,
  CPU0,       \* the CPU whose timer interrupt runs clockintr()
  NULL,
  Sleepers,   \* bound: the processes that call sleep()
  MaxSleep    \* bound: the largest argument of sleep()

ASSUME ProcConstantsOK ==
  /\ NPROC \in Nat \ {0} /\ CPU0 \in CPUs /\ MaxSleep \in Nat
  /\ NULL \notin CPUs /\ NULL \notin 0 .. NPROC

Procs == 1 .. NPROC
initproc == 1
TICKS == 0          \* the channel &ticks; other channels are processes

VARIABLES
  state, chan, killed, parent,   \* the fields of struct proc
  plock,       \* the CPU that holds p->lock from one step to the next
  wait_lock,   \* the process that holds wait_lock
  on,          \* c->proc: the process on whose kernel stack c runs
  next,        \* the slot c's scheduler looks at next
  pc,          \* where each process is in the kernel
  i, kids,     \* its loop index and havekids
  np,          \* the child fork() makes
  left,        \* n - (ticks - ticks0) in sys_sleep(), not below 0
  clock        \* clockintr()'s loop index on CPU0, 0 outside it

table == <<state, chan, killed, parent>>
locals == <<i, kids, np, left>>
vars == <<table, plock, wait_lock, on, next, pc, locals, clock>>

CPUof(p) == CHOOSE c \in CPUs : on[c] = p

\* p executes: it is on a CPU, not on its way out of it, and no interrupt
\* handler runs in its place.
Runs(p) ==
  \E c \in CPUs :
    /\ on[c] = p /\ plock[p] # c
    /\ ~(c = CPU0 /\ clock # 0)

goto(p, label) == pc' = [pc EXCEPT ![p] = label]

\* Back to user mode; the locals of the call are gone.
ret(p) ==
  /\ goto(p, "user")
  /\ i' = [i EXCEPT ![p] = 1] /\ kids' = [kids EXCEPT ![p] = FALSE]
  /\ np' = [np EXCEPT ![p] = NULL] /\ left' = [left EXCEPT ![p] = 0]

-----------------------------------------------------------------------------
(* Giving up the CPU, and the scheduler. *)

\* sched(): p keeps its lock until the scheduler has left p's stack.
sched(p, st, ch) ==
  /\ plock[p] = NULL
  /\ plock' = [plock EXCEPT ![p] = CPUof(p)]
  /\ state' = [state EXCEPT ![p] = st]
  /\ chan' = [chan EXCEPT ![p] = ch]

\* Back in scheduler() after swtch().
SchedulerReturn(c) ==
  /\ on[c] # NULL /\ plock[on[c]] = c
  /\ on' = [on EXCEPT ![c] = NULL]
  /\ plock' = [plock EXCEPT ![on[c]] = NULL]
  /\ next' = [next EXCEPT ![c] = (next[c] % NPROC) + 1]
  /\ UNCHANGED <<table, wait_lock, pc, locals, clock>>

\* Mutant of Scheduler: it does not look at p->state.
SchedulerBlind(c) ==
  LET p == next[c]
  IN /\ on[c] = NULL /\ ~(c = CPU0 /\ clock # 0)
     /\ plock[p] = NULL /\ state[p] # "UNUSED"
     /\ state' = [state EXCEPT ![p] = "RUNNING"]
     /\ chan' = [chan EXCEPT ![p] = NULL]
     /\ on' = [on EXCEPT ![c] = p]
     /\ UNCHANGED <<next, killed, parent, plock, wait_lock, pc, locals, clock>>

\* One turn of the loop.  The process switched to releases its lock at once,
\* in sleep() (which also clears p->chan), yield() or forkret().
Scheduler(c) ==
  LET p == next[c]
  IN /\ on[c] = NULL /\ ~(c = CPU0 /\ clock # 0)
     /\ plock[p] = NULL
     /\ \/ /\ state[p] = "RUNNABLE"
           /\ state' = [state EXCEPT ![p] = "RUNNING"]
           /\ chan' = [chan EXCEPT ![p] = NULL]
           /\ on' = [on EXCEPT ![c] = p]
           /\ UNCHANGED next
        \/ /\ state[p] # "RUNNABLE"
           /\ next' = [next EXCEPT ![c] = (p % NPROC) + 1]
           /\ UNCHANGED <<state, chan, on>>
     /\ UNCHANGED <<killed, parent, plock, wait_lock, pc, locals, clock>>

\* The labels at which p holds a spinlock or spins for one: interrupts are off.
\* fork() can be interrupted before its acquire(&wait_lock), not while it spins.
IntrOff == {"wait", "scan", "waitsleep", "exit", "reparent", "wakeparent", "zombie",
            "sleep", "sleepcheck", "ticksleep"}
Preemptible(p) ==
  Runs(p) /\ pc[p] \notin IntrOff /\ (pc[p] = "forkparent" => wait_lock = NULL)

\* Mutant of Timer: usertrap() does not test killed(p) after the interrupt.
Timer_unkillable(p) ==
  /\ Preemptible(p)
  /\ sched(p, "RUNNABLE", NULL)
  /\ UNCHANGED <<killed, parent, wait_lock, on, next, pc, locals, clock>>

\* A timer interrupt: a killed process leaves from user mode, any other yields.
Timer(p) ==
  /\ Preemptible(p)
  /\ IF pc[p] = "user" /\ killed[p]
     THEN /\ goto(p, "exit")
          /\ UNCHANGED <<table, plock>>
     ELSE /\ sched(p, "RUNNABLE", NULL)
          /\ UNCHANGED <<killed, parent, pc>>
  /\ UNCHANGED <<wait_lock, on, next, locals, clock>>

\* Mutant of wake: the sleeper is not made runnable.
wake_lost(q, ch) == state

\* wakeup()'s visit to slot q.
wake(q, ch) ==
  IF state[q] = "SLEEPING" /\ chan[q] = ch
  THEN [state EXCEPT ![q] = "RUNNABLE"] ELSE state

-----------------------------------------------------------------------------
(* fork() *)

\* Entering the kernel with killed(p) set leads to exit(-1).
Syscall(p) == Runs(p) /\ pc[p] = "user" /\ ~killed[p]

\* Up to release(&np->lock): the child exists and is not runnable yet.
ForkAlloc(p, c) ==
  /\ Syscall(p)
  /\ plock[c] = NULL /\ state[c] = "UNUSED"
  /\ state' = [state EXCEPT ![c] = "USED"]
  /\ np' = [np EXCEPT ![p] = c]
  /\ goto(p, "forkparent")
  /\ UNCHANGED <<chan, killed, parent, plock, wait_lock, on, next, i, kids, left,
                 clock>>

ForkParent(p) ==
  /\ Runs(p) /\ pc[p] = "forkparent" /\ wait_lock = NULL
  /\ parent' = [parent EXCEPT ![np[p]] = p]
  /\ goto(p, "forkrun")
  /\ UNCHANGED <<state, chan, killed, plock, wait_lock, on, next, locals, clock>>

ForkRun(p) ==
  /\ Runs(p) /\ pc[p] = "forkrun" /\ plock[np[p]] = NULL
  /\ state' = [state EXCEPT ![np[p]] = "RUNNABLE"]
  /\ ret(p)
  /\ UNCHANGED <<chan, killed, parent, plock, wait_lock, on, next, clock>>

-----------------------------------------------------------------------------
(* wait(); waitx() has the same steps. *)

WaitCall(p) ==
  /\ Syscall(p)
  /\ goto(p, "wait")
  /\ UNCHANGED <<table, plock, wait_lock, on, next, locals, clock>>

\* acquire(&wait_lock), on entry and at the end of sleep().
WaitLock(p) ==
  /\ Runs(p) /\ pc[p] = "wait" /\ wait_lock = NULL
  /\ wait_lock' = p
  /\ i' = [i EXCEPT ![p] = 1]
  /\ kids' = [kids EXCEPT ![p] = FALSE]
  /\ goto(p, "scan")
  /\ UNCHANGED <<table, plock, on, next, np, left, clock>>

\* Mutant of kidlock: the child's lock is not taken.
kidlock_none(c) == TRUE

\* "make sure the child isn't still in exit() or swtch()"
kidlock(c) == plock[c] = NULL

\* One turn of the scan: a zombie child is freed, or its status cannot be
\* copied out and wait() fails.
WaitScan(p) ==
  LET c == i[p]
      zombie == parent[c] = p /\ state[c] = "ZOMBIE"
  IN /\ Runs(p) /\ pc[p] = "scan" /\ c <= NPROC
     /\ parent[c] = p => kidlock(c)
     /\ \/ /\ zombie
           /\ state' = [state EXCEPT ![c] = "UNUSED"]
           /\ chan' = [chan EXCEPT ![c] = NULL]
           /\ killed' = [killed EXCEPT ![c] = FALSE]
           /\ parent' = [parent EXCEPT ![c] = NULL]
           /\ wait_lock' = NULL
           /\ ret(p)
        \/ /\ zombie
           /\ wait_lock' = NULL
           /\ ret(p)
           /\ UNCHANGED table
        \/ /\ ~zombie
           /\ i' = [i EXCEPT ![p] = @ + 1]
           /\ kids' = [kids EXCEPT ![p] = @ \/ parent[c] = p]
           /\ UNCHANGED <<table, wait_lock, pc, np, left>>
     /\ UNCHANGED <<plock, on, next, clock>>

\* if(!havekids || killed(p)) return -1
WaitCheck(p) ==
  /\ Runs(p) /\ pc[p] = "scan" /\ i[p] > NPROC
  /\ plock[p] = NULL
  /\ IF ~kids[p] \/ killed[p]
     THEN wait_lock' = NULL /\ ret(p)
     ELSE goto(p, "waitsleep") /\ UNCHANGED <<wait_lock, locals>>
  /\ UNCHANGED <<table, plock, on, next, clock>>

\* sleep(p, &wait_lock)
WaitSleep(p) ==
  /\ Runs(p) /\ pc[p] = "waitsleep"
  /\ sched(p, "SLEEPING", p)
  /\ wait_lock' = NULL
  /\ goto(p, "wait")
  /\ UNCHANGED <<killed, parent, on, next, locals, clock>>

-----------------------------------------------------------------------------
(* exit() *)

ExitCall(p) ==
  /\ Runs(p) /\ pc[p] = "user" /\ p # initproc
  /\ goto(p, "exit")
  /\ UNCHANGED <<table, plock, wait_lock, on, next, locals, clock>>

ExitLock(p) ==
  /\ Runs(p) /\ pc[p] = "exit" /\ wait_lock = NULL
  /\ wait_lock' = p
  /\ i' = [i EXCEPT ![p] = 1]
  /\ goto(p, "reparent")
  /\ UNCHANGED <<table, plock, on, next, kids, np, left, clock>>

\* Mutant of Reparent: a child whose exit is already over is left where it is.
ReparentLiving(p) ==
  LET c == i[p]
      mine == parent[c] = p /\ state[c] # "ZOMBIE"
  IN /\ Runs(p) /\ pc[p] = "reparent" /\ c <= NPROC
     /\ mine => plock[initproc] = NULL
     /\ parent' = IF mine THEN [parent EXCEPT ![c] = initproc] ELSE parent
     /\ state' = IF mine THEN wake(initproc, initproc) ELSE state
     /\ i' = [i EXCEPT ![p] = c + 1]
     /\ goto(p, IF c = NPROC THEN "wakeparent" ELSE "reparent")
     /\ UNCHANGED <<chan, killed, plock, wait_lock, on, next, kids, np, left, clock>>

\* One turn of reparent(); only initproc sleeps on the channel initproc, so
\* wakeup(initproc) is the visit to its slot.
Reparent(p) ==
  LET c == i[p]
      mine == parent[c] = p
  IN /\ Runs(p) /\ pc[p] = "reparent" /\ c <= NPROC
     /\ mine => plock[initproc] = NULL
     /\ parent' = IF mine THEN [parent EXCEPT ![c] = initproc] ELSE parent
     /\ state' = IF mine THEN wake(initproc, initproc) ELSE state
     /\ i' = [i EXCEPT ![p] = c + 1]
     /\ goto(p, IF c = NPROC THEN "wakeparent" ELSE "reparent")
     /\ UNCHANGED <<chan, killed, plock, wait_lock, on, next, kids, np, left, clock>>

\* wakeup(p->parent)
ExitWakeParent(p) ==
  /\ Runs(p) /\ pc[p] = "wakeparent" /\ plock[parent[p]] = NULL
  /\ state' = wake(parent[p], parent[p])
  /\ goto(p, "zombie")
  /\ UNCHANGED <<chan, killed, parent, plock, wait_lock, on, next, locals, clock>>

\* acquire(&p->lock), state = ZOMBIE, release(&wait_lock), sched()
ExitZombie(p) ==
  /\ Runs(p) /\ pc[p] = "zombie"
  /\ sched(p, "ZOMBIE", NULL)
  /\ wait_lock' = NULL
  /\ ret(p)
  /\ UNCHANGED <<killed, parent, on, next, clock>>

\* To kill initproc is to stop the machine: its exit() panics.
kill(p, q) ==
  /\ Syscall(p) /\ q # initproc /\ plock[q] = NULL /\ state[q] # "UNUSED"
  /\ killed' = [killed EXCEPT ![q] = TRUE]
  /\ state' = wake(q, chan[q])
  /\ UNCHANGED <<chan, parent, plock, wait_lock, on, next, pc, locals, clock>>

-----------------------------------------------------------------------------
(* sys_sleep() and clockintr(); tickslock is held at the labels sleepcheck  *)
(* and ticksleep and by the clock interrupt.                                *)

tickslockfree ==
  clock = 0 /\ \A p \in Procs : pc[p] \notin {"sleepcheck", "ticksleep"}

\* acquire(&tickslock); ticks0 = ticks
SleepCall(p, n) ==
  /\ Syscall(p) /\ p \in Sleepers /\ tickslockfree
  /\ left' = [left EXCEPT ![p] = n]
  /\ goto(p, "sleepcheck")
  /\ UNCHANGED <<table, plock, wait_lock, on, next, i, kids, np, clock>>

\* acquire(&tickslock) at the end of sleep().
SleepLock(p) ==
  /\ Runs(p) /\ pc[p] = "sleep" /\ tickslockfree
  /\ goto(p, "sleepcheck")
  /\ UNCHANGED <<table, plock, wait_lock, on, next, locals, clock>>

SleepCheck(p) ==
  /\ Runs(p) /\ pc[p] = "sleepcheck" /\ plock[p] = NULL
  /\ IF left[p] = 0 \/ killed[p]
     THEN ret(p)
     ELSE goto(p, "ticksleep") /\ UNCHANGED locals
  /\ UNCHANGED <<table, plock, wait_lock, on, next, clock>>

\* sleep(&ticks, &tickslock)
TickSleep(p) ==
  /\ Runs(p) /\ pc[p] = "ticksleep"
  /\ sched(p, "SLEEPING", TICKS)
  /\ goto(p, "sleep")
  /\ UNCHANGED <<killed, parent, wait_lock, on, next, locals, clock>>

\* clockintr() interrupts whatever runs on CPU0 with interrupts on.  A tick
\* while nobody is in sys_sleep() changes nothing.
ClockTick ==
  /\ tickslockfree /\ \E p \in Procs : left[p] # 0 \/ pc[p] = "sleep"
  /\ on[CPU0] # NULL => Preemptible(on[CPU0])
  /\ clock' = 1
  /\ left' = [p \in Procs |-> IF left[p] = 0 THEN 0 ELSE left[p] - 1]
  /\ UNCHANGED <<table, plock, wait_lock, on, next, pc, i, kids, np>>

\* p++ until p == &proc[NPROC], which ends the loop
slotafter(n) == (n + 1) % (NPROC + 1)

\* One turn of wakeup(&ticks), which skips myproc(); then the CPU goes on
\* where it was (its yield() is a Timer step).
ClockWake ==
  /\ clock # 0
  /\ clock # on[CPU0] => plock[clock] = NULL
  /\ state' = IF clock = on[CPU0] THEN state ELSE wake(clock, TICKS)
  /\ clock' = slotafter(clock)
  /\ UNCHANGED <<chan, killed, parent, plock, wait_lock, on, next, pc, locals>>

-----------------------------------------------------------------------------
Init ==
  /\ state = [p \in Procs |-> IF p = initproc THEN "RUNNABLE" ELSE "UNUSED"]
  /\ chan = [p \in Procs |-> NULL]
  /\ killed = [p \in Procs |-> FALSE]
  /\ parent = [p \in Procs |-> NULL]
  /\ plock = [p \in Procs |-> NULL]
  /\ wait_lock = NULL
  /\ on = [c \in CPUs |-> NULL]
  /\ next = [c \in CPUs |-> 1]
  /\ pc = [p \in Procs |-> "user"]
  /\ i = [p \in Procs |-> 1] /\ kids = [p \in Procs |-> FALSE]
  /\ np = [p \in Procs |-> NULL]
  /\ left = [p \in Procs |-> 0]
  /\ clock = 0

\* What p does in the kernel, once it is there.
Kernel(p) ==
  \/ ForkParent(p) \/ ForkRun(p)
  \/ WaitLock(p) \/ WaitScan(p) \/ WaitCheck(p) \/ WaitSleep(p)
  \/ ExitLock(p) \/ Reparent(p) \/ ExitWakeParent(p) \/ ExitZombie(p)
  \/ SleepLock(p) \/ SleepCheck(p) \/ TickSleep(p)

\* What its program asks for.
User(p) ==
  \/ \E q \in Procs : ForkAlloc(p, q) \/ kill(p, q)
  \/ WaitCall(p) \/ ExitCall(p) \/ \E n \in 1 .. MaxSleep : SleepCall(p, n)

CPU(c) == Scheduler(c) \/ SchedulerReturn(c)

Next ==
  \/ \E p \in Procs : Kernel(p) \/ User(p) \/ Timer(p)
  \/ \E c \in CPUs : CPU(c)
  \/ ClockTick \/ ClockWake

Spec == Init /\ [][Next]_vars

\* Every CPU goes on, timer and clock interrupts keep coming, and a process in
\* the kernel gets on when it is on a CPU (and gets a spinlock it spins for).
FairSpec ==
  /\ Spec
  /\ \A c \in CPUs : WF_vars(CPU(c)) /\ SF_vars(\E p \in Procs : on[c] = p /\ Timer(p))
  /\ \A p \in Procs : SF_vars(Kernel(p))
  /\ SF_vars(ClockTick \/ ClockWake)
-----------------------------------------------------------------------------
\* Every variable has its type.
TypeOK ==
  /\ state \in [Procs -> {"UNUSED", "USED", "RUNNABLE", "RUNNING", "SLEEPING",
                          "ZOMBIE"}]
  /\ chan \in [Procs -> {NULL, TICKS} \cup Procs]
  /\ killed \in [Procs -> BOOLEAN]
  /\ parent \in [Procs -> {NULL} \cup Procs]
  /\ plock \in [Procs -> {NULL} \cup CPUs]
  /\ wait_lock \in {NULL} \cup Procs
  /\ on \in [CPUs -> {NULL} \cup Procs]
  /\ next \in [CPUs -> Procs]
  /\ pc \in [Procs -> IntrOff \cup {"user", "forkparent", "forkrun"}]
  /\ i \in [Procs -> 1 .. NPROC + 1]
  /\ kids \in [Procs -> BOOLEAN]
  /\ np \in [Procs -> {NULL} \cup Procs]
  /\ left \in [Procs -> 0 .. MaxSleep]
  /\ clock \in 0 .. NPROC

\* No process runs on two CPUs, a RUNNING process is on one, and a process in
\* any other state is on a CPU only while that CPU holds its lock: nobody can
\* schedule, wake or free a process that is still on its way into sched().
OneCPU ==
  /\ \A c, d \in CPUs : on[c] # NULL /\ on[c] = on[d] => c = d
  /\ \A p \in Procs : state[p] = "RUNNING" => \E c \in CPUs : on[c] = p
  /\ \A c \in CPUs : on[c] # NULL /\ state[on[c]] # "RUNNING" => plock[on[c]] = c

\* wait() frees a zombie only when no CPU is on its kernel stack any more.
FreedOffStack == \A c \in CPUs : on[c] # NULL => state[on[c]] # "UNUSED"

\* A process that exits leaves no child behind (reparent()), so that the
\* parent of every process is one that can still wait() for it.
ParentAlive ==
  \A c \in Procs :
    parent[c] # NULL => state[parent[c]] \in {"RUNNABLE", "RUNNING", "SLEEPING"}

\* No wakeup is lost: no process sleeps in wait() while it has a child to reap,
\* also one that exit() of another process gave it, and none in sys_sleep() when
\* its time is over, unless clockintr() is on its way to it.
NoSleeperMissed ==
  \A p \in Procs : state[p] = "SLEEPING" =>
    /\ chan[p] = p => \A c \in Procs : parent[c] = p => state[c] # "ZOMBIE"
    /\ chan[p] = TICKS => left[p] > 0 \/ clock \in 1 .. p

\* A killed process exits, unless the kill() came between wait()'s test of
\* p->killed and its sleep(): then it stays there until a child exits.
KilledExits ==
  \A p \in Procs :
    killed[p] ~> \/ state[p] \in {"ZOMBIE", "UNUSED"}
                 \/ state[p] = "SLEEPING" /\ chan[p] = p
=============================================================================
