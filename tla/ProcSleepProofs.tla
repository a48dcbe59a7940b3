-------------------------- MODULE ProcSleepProofs ---------------------------
(***************************************************************************)
(* Proc.tla, for every size of the process table and every set of CPUs: no *)
(* wakeup is lost.  In wait() this rests on wait_lock: a parent that has   *)
(* found no zombie holds it until it sleeps, and a child that exits holds  *)
(* it from the wakeup to the moment it is a zombie.  In sys_sleep() it     *)
(* rests on tickslock, and on the process of CPU0 being interrupted while  *)
(* clockintr() runs.                                                       *)
(***************************************************************************)
EXTENDS ProcProofs

\* The labels at which wait_lock is held.
Locked == {"scan", "waitsleep", "reparent", "wakeparent", "zombie"}

WaitLocked == \A p \in Procs : pc[p] \in Locked <=> wait_lock = p

Waiting(p) == state[p] = "SLEEPING" /\ chan[p] = p

\* The children a parent has looked at are not zombies, and one that is about
\* to be a zombie has woken its parent.
Reaping ==
  \A p, c \in Procs :
    /\ parent[c] = p /\ state[c] = "ZOMBIE" =>
         /\ pc[p] = "scan" => ~(c < i[p])
         /\ pc[p] # "waitsleep" /\ ~Waiting(p)
    /\ parent[c] = p /\ pc[c] = "zombie" => ~Waiting(p)

\* Who sleeps on &ticks has time left or a wakeup coming.
Ticking ==
  /\ \A p \in Procs : pc[p] = "ticksleep" => left[p] > 0
  /\ \A p \in Procs : state[p] = "SLEEPING" /\ chan[p] = TICKS => left[p] > 0 \/ clock \in 1 .. p
  /\ clock # 0 /\ on[CPU0] # NULL => state[on[CPU0]] = "RUNNING"

\* clockintr() runs on top of the process of CPU0, which meanwhile does nothing.
LEMMA Interrupted ==
  ASSUME ProcInv, NEW p \in Procs, Runs(p), clock # 0
  PROVE  on[CPU0] # p
BY Slots, ProcConstantsOK DEF ProcConstantsOK, Runs, ProcInv, Stacks

\* The loop of wakeup(&ticks) passes over no slot.
LEMMA SlotAfter ==
  ASSUME NEW n \in Procs, NEW p \in Procs, n \in 1 .. p, p # n
  PROVE  slotafter(n) \in 1 .. p
<1>1. NPROC \in Nat /\ n < NPROC /\ n + 1 <= p
  BY ProcConstantsOK DEF ProcConstantsOK, Procs
<1>2. (n + 1) % (NPROC + 1) = n + 1
  BY <1>1 DEF Procs
<1>3. QED
  BY <1>1, <1>2 DEF Procs, slotafter

\* wait_lock is held exactly at the labels at which the code holds it.
LEMMA StepWaitLocked == ProcInv /\ WaitLocked /\ [Next]_vars => WaitLocked'
<1> SUFFICES ASSUME ProcInv, WaitLocked, [Next]_vars PROVE WaitLocked'
  OBVIOUS
<1> USE Slots DEF ProcInv, TypeOK, WaitLocked, Locked
<1>1. ASSUME NEW c \in CPUs, SchedulerReturn(c) PROVE WaitLocked'
  BY <1>1 DEF SchedulerReturn, table, locals
<1>2. ASSUME NEW c \in CPUs, Scheduler(c) PROVE WaitLocked'
  BY <1>2 DEF Scheduler, locals
<1>3. ASSUME NEW p \in Procs, Timer(p) PROVE WaitLocked'
  BY <1>3, RunsIs DEF Timer, sched, goto, Preemptible, table, locals
<1>4. ASSUME NEW p \in Procs, NEW q \in Procs, ForkAlloc(p, q) PROVE WaitLocked'
  BY <1>4, RunsIs DEF ForkAlloc, Syscall, goto
<1>5. ASSUME NEW p \in Procs, ForkParent(p) PROVE WaitLocked'
  BY <1>5, RunsIs DEF ForkParent, goto, locals
<1>6. ASSUME NEW p \in Procs, ForkRun(p) PROVE WaitLocked'
  BY <1>6, RunsIs DEF ForkRun, ret, goto
<1>7. ASSUME NEW p \in Procs, WaitCall(p) PROVE WaitLocked'
  BY <1>7, RunsIs DEF WaitCall, Syscall, goto, table, locals
<1>8. ASSUME NEW p \in Procs, WaitLock(p) PROVE WaitLocked'
  BY <1>8, RunsIs DEF WaitLock, goto, table
<1>9. ASSUME NEW p \in Procs, WaitScan(p) PROVE WaitLocked'
  BY <1>9, RunsIs DEF WaitScan, kidlock, ret, goto, table
<1>10. ASSUME NEW p \in Procs, WaitCheck(p) PROVE WaitLocked'
  BY <1>10, RunsIs DEF WaitCheck, ret, goto, table, locals
<1>11. ASSUME NEW p \in Procs, WaitSleep(p) PROVE WaitLocked'
  BY <1>11, RunsIs DEF WaitSleep, sched, goto, locals
<1>12. ASSUME NEW p \in Procs, ExitCall(p) PROVE WaitLocked'
  BY <1>12, RunsIs DEF ExitCall, goto, table, locals
<1>13. ASSUME NEW p \in Procs, ExitLock(p) PROVE WaitLocked'
  BY <1>13, RunsIs DEF ExitLock, goto, table
<1>14. ASSUME NEW p \in Procs, Reparent(p) PROVE WaitLocked'
  BY <1>14, RunsIs DEF Reparent, wake, goto
<1>15. ASSUME NEW p \in Procs, ExitWakeParent(p) PROVE WaitLocked'
  BY <1>15, RunsIs DEF ExitWakeParent, wake, goto, locals
<1>16. ASSUME NEW p \in Procs, ExitZombie(p) PROVE WaitLocked'
  BY <1>16, RunsIs DEF ExitZombie, sched, ret, goto
<1>17. ASSUME NEW p \in Procs, NEW q \in Procs, kill(p, q) PROVE WaitLocked'
  BY <1>17, RunsIs DEF kill, Syscall, wake, locals
<1>18. ASSUME NEW p \in Procs, NEW n \in 1 .. MaxSleep, SleepCall(p, n) PROVE WaitLocked'
  BY <1>18, RunsIs DEF SleepCall, Syscall, goto, table
<1>19. ASSUME NEW p \in Procs, SleepLock(p) PROVE WaitLocked'
  BY <1>19, RunsIs DEF SleepLock, goto, table, locals
<1>20. ASSUME NEW p \in Procs, SleepCheck(p) PROVE WaitLocked'
  BY <1>20, RunsIs DEF SleepCheck, ret, goto, table, locals
<1>21. ASSUME NEW p \in Procs, TickSleep(p) PROVE WaitLocked'
  BY <1>21, RunsIs DEF TickSleep, sched, goto, locals
<1>22. CASE ClockTick
  BY <1>22 DEF ClockTick, table
<1>23. CASE ClockWake
  BY <1>23 DEF ClockWake, wake, locals
<1>24. CASE UNCHANGED vars
  BY <1>24, SMTT(60) DEF vars, table, locals
<1>25. QED
  BY Zenon, <1>1, <1>2, <1>3, <1>4, <1>5, <1>6, <1>7, <1>8, <1>9, <1>10, <1>11, <1>12,
     <1>13, <1>14, <1>15, <1>16, <1>17, <1>18, <1>19, <1>20, <1>21, <1>22, <1>23,
     <1>24
  DEF Next, Kernel, User, CPU

\* A turn of wait()'s loop goes on to the next slot, or frees the zombie it
\* found and leaves.
LEMMA ScanDoes ==
  ASSUME TypeOK, NEW p \in Procs, i[p] \in Procs, WaitScan(p)
  PROVE  /\ pc'[p] = "scan" => ~(parent[i[p]] = p /\ state[i[p]] = "ZOMBIE") /\ i'[p] = i[p] + 1
         /\ \A q \in Procs : pc'[q] \in {pc[q], "user"}
         /\ \A c \in Procs : parent'[c] \in {parent[c], NULL}
         /\ \A c \in Procs : state'[c] \in {state[c], "UNUSED"} /\ chan'[c] \in {chan[c], NULL}
         /\ \A c \in Procs : state[c] # "ZOMBIE" => state'[c] = state[c] /\ chan'[c] = chan[c]
         /\ \A q \in Procs : q # p => left'[q] = left[q]
<1> USE DEF TypeOK
<1>1. CASE /\ parent[i[p]] = p /\ state[i[p]] = "ZOMBIE" /\ goto(p, "user") /\ UNCHANGED table
           /\ left' = [left EXCEPT ![p] = 0]
  BY <1>1 DEF goto, table
<1>2. CASE /\ parent[i[p]] = p /\ state[i[p]] = "ZOMBIE" /\ goto(p, "user")
           /\ left' = [left EXCEPT ![p] = 0]
           /\ state' = [state EXCEPT ![i[p]] = "UNUSED"]
           /\ chan' = [chan EXCEPT ![i[p]] = NULL]
           /\ parent' = [parent EXCEPT ![i[p]] = NULL]
  BY <1>2 DEF goto
<1>3. CASE /\ ~(parent[i[p]] = p /\ state[i[p]] = "ZOMBIE")
           /\ i' = [i EXCEPT ![p] = @ + 1] /\ pc' = pc /\ left' = left /\ UNCHANGED table
  BY <1>3 DEF table
<1>4. QED
  BY <1>1, <1>2, <1>3, Zenon DEF WaitScan, ret

\* A parent that looks for zombies, or sleeps, has missed none.
LEMMA StepReaping == ProcInv /\ WaitLocked /\ Reaping /\ [Next]_vars => Reaping'
<1> SUFFICES ASSUME ProcInv, WaitLocked, Reaping, [Next]_vars PROVE Reaping'
  OBVIOUS
<1> USE Slots DEF ProcInv, TypeOK, WaitLocked, Locked, Reaping, Waiting, Children, Alive, Forking
<1>1. ASSUME NEW c \in CPUs, SchedulerReturn(c) PROVE Reaping'
  BY <1>1 DEF SchedulerReturn, table, locals
<1>2. ASSUME NEW c \in CPUs, Scheduler(c) PROVE Reaping'
  BY <1>2 DEF Scheduler, locals
<1>3. ASSUME NEW p \in Procs, Timer(p) PROVE Reaping'
  BY <1>3, RunsIs DEF Timer, sched, goto, Preemptible, table, locals
<1>4. ASSUME NEW p \in Procs, NEW q \in Procs, ForkAlloc(p, q) PROVE Reaping'
  BY <1>4, RunsIs DEF ForkAlloc, Syscall, goto
<1>5. ASSUME NEW p \in Procs, ForkParent(p) PROVE Reaping'
  BY <1>5, RunsIs DEF ForkParent, goto, locals
<1>6. ASSUME NEW p \in Procs, ForkRun(p) PROVE Reaping'
  BY <1>6, RunsIs DEF ForkRun, ret, goto
<1>7. ASSUME NEW p \in Procs, WaitCall(p) PROVE Reaping'
  BY <1>7, RunsIs DEF WaitCall, Syscall, goto, table, locals
<1>8. ASSUME NEW p \in Procs, WaitLock(p) PROVE Reaping'
  <2>1. \A c \in Procs : ~(c < i'[p])
    BY <1>8 DEF WaitLock, Procs
  <2>2. QED
    BY <1>8, <2>1, RunsIs DEF WaitLock, goto, table
<1>9. ASSUME NEW p \in Procs, WaitScan(p) PROVE Reaping'
  <2>1. i[p] \in Procs /\ wait_lock = p /\ state[p] = "RUNNING" /\ pc[p] = "scan"
    BY <1>9, Ranges, RunsIs DEF WaitScan
  <2>2. /\ pc'[p] = "scan" => ~(parent[i[p]] = p /\ state[i[p]] = "ZOMBIE") /\ i'[p] = i[p] + 1
        /\ \A q \in Procs : pc'[q] \in {pc[q], "user"}
        /\ \A c \in Procs : parent'[c] \in {parent[c], NULL}
        /\ \A c \in Procs : /\ state'[c] \in {state[c], "UNUSED"}
                            /\ chan'[c] \in {chan[c], NULL}
    BY <1>9, <2>1, ScanDoes, Zenon DEF ProcInv
  <2>3. \A q, c \in Procs : /\ parent'[c] = q => parent[c] = q
                            /\ state'[c] = "ZOMBIE" => state[c] = "ZOMBIE"
                            /\ Waiting(q)' => Waiting(q)
    BY <2>2
  <2>4. \A c \in Procs : pc'[p] = "scan" /\ c < i'[p] => c < i[p] \/ c = i[p]
    BY <2>1, <2>2 DEF Procs
  <2>5. \A q \in Procs : pc[q] = "scan" => q = p
    BY <2>1
  <2>6. QED
    BY <2>1, <2>2, <2>3, <2>4, <2>5
<1>10. ASSUME NEW p \in Procs, WaitCheck(p) PROVE Reaping'
  <2>1. \A c \in Procs : c < i[p]
    <3>1. i[p] \in 1 .. NPROC + 1 /\ i[p] > NPROC
      BY <1>10 DEF WaitCheck
    <3>2. QED
      BY <3>1, ProcConstantsOK DEF ProcConstantsOK, Procs
  <2>2. pc[p] = "scan" /\ (pc' = [pc EXCEPT ![p] = "user"] \/ pc' = [pc EXCEPT ![p] = "waitsleep"])
    BY <1>10 DEF WaitCheck, ret, goto
  <2>3. \A q \in Procs : q # p => pc'[q] # "scan"
    BY <2>2
  <2>4. QED
    BY <1>10, <2>1, <2>2, <2>3 DEF WaitCheck, table
<1>11. ASSUME NEW p \in Procs, WaitSleep(p) PROVE Reaping'
  BY <1>11, RunsIs DEF WaitSleep, sched, goto, locals
<1>12. ASSUME NEW p \in Procs, ExitCall(p) PROVE Reaping'
  BY <1>12, RunsIs DEF ExitCall, goto, table, locals
<1>13. ASSUME NEW p \in Procs, ExitLock(p) PROVE Reaping'
  BY <1>13, RunsIs DEF ExitLock, goto, table
<1>14. ASSUME NEW p \in Procs, Reparent(p) PROVE Reaping'
  BY <1>14, RunsIs DEF Reparent, wake, goto
<1>15. ASSUME NEW p \in Procs, ExitWakeParent(p) PROVE Reaping'
  BY <1>15, RunsIs DEF ExitWakeParent, wake, goto, locals
<1>16. ASSUME NEW p \in Procs, ExitZombie(p) PROVE Reaping'
  BY <1>16, RunsIs DEF ExitZombie, sched, ret, goto
<1>17. ASSUME NEW p \in Procs, NEW q \in Procs, kill(p, q) PROVE Reaping'
  BY <1>17, RunsIs DEF kill, Syscall, wake, locals
<1>18. ASSUME NEW p \in Procs, NEW n \in 1 .. MaxSleep, SleepCall(p, n) PROVE Reaping'
  BY <1>18, RunsIs DEF SleepCall, Syscall, goto, table
<1>19. ASSUME NEW p \in Procs, SleepLock(p) PROVE Reaping'
  BY <1>19, RunsIs DEF SleepLock, goto, table, locals
<1>20. ASSUME NEW p \in Procs, SleepCheck(p) PROVE Reaping'
  BY <1>20, RunsIs DEF SleepCheck, ret, goto, table, locals
<1>21. ASSUME NEW p \in Procs, TickSleep(p) PROVE Reaping'
  BY <1>21, RunsIs DEF TickSleep, sched, goto, locals
<1>22. CASE ClockTick
  BY <1>22 DEF ClockTick, table
<1>23. CASE ClockWake
  BY <1>23 DEF ClockWake, wake, locals
<1>24. CASE UNCHANGED vars
  BY <1>24, SMTT(60) DEF vars, table, locals
<1>25. QED
  BY Zenon, <1>1, <1>2, <1>3, <1>4, <1>5, <1>6, <1>7, <1>8, <1>9, <1>10, <1>11, <1>12,
     <1>13, <1>14, <1>15, <1>16, <1>17, <1>18, <1>19, <1>20, <1>21, <1>22, <1>23,
     <1>24
  DEF Next, Kernel, User, CPU

\* sys_sleep() goes to sleep only when there is time left.
LEMMA SleepCheckDoes ==
  ASSUME TypeOK, NEW p \in Procs, SleepCheck(p)
  PROVE  pc'[p] = "user" \/ (left'[p] = left[p] /\ left[p] > 0)
<1> USE DEF TypeOK
<1>1. CASE left[p] = 0 \/ killed[p]
  <2>1. pc' = [pc EXCEPT ![p] = "user"]
    BY <1>1, Zenon DEF SleepCheck, ret, goto
  <2>2. QED
    BY <2>1
<1>2. CASE ~(left[p] = 0 \/ killed[p])
  <2>1. UNCHANGED locals /\ left[p] # 0
    BY <1>2, Zenon DEF SleepCheck
  <2>2. QED
    BY <2>1, ProcConstantsOK DEF locals, ProcConstantsOK
<1>3. QED
  BY <1>1, <1>2, Zenon

\* clockintr() comes to every process whose time is over.
LEMMA StepTicking == ProcInv /\ Ticking /\ [Next]_vars => Ticking'
<1> SUFFICES ASSUME ProcInv, Ticking, [Next]_vars PROVE Ticking'
  OBVIOUS
<1>a. CPU0 \in CPUs
  BY ProcConstantsOK DEF ProcConstantsOK
<1>b. \A p \in Procs : Runs(p) /\ clock # 0 => on[CPU0] # p
  BY Interrupted, Zenon
<1> USE Slots, <1>a, <1>b DEF ProcInv, TypeOK, Ticking
<1>1. ASSUME NEW c \in CPUs, SchedulerReturn(c) PROVE Ticking'
  BY <1>1 DEF SchedulerReturn, table, locals, Stacks
<1>2. ASSUME NEW c \in CPUs, Scheduler(c) PROVE Ticking'
  BY <1>2 DEF Scheduler, locals
<1>3. ASSUME NEW p \in Procs, Timer(p) PROVE Ticking'
  BY <1>3, RunsIs DEF Timer, sched, goto, Preemptible, table, locals
<1>4. ASSUME NEW p \in Procs, NEW q \in Procs, ForkAlloc(p, q) PROVE Ticking'
  BY <1>4, RunsIs DEF ForkAlloc, Syscall, goto
<1>5. ASSUME NEW p \in Procs, ForkParent(p) PROVE Ticking'
  BY <1>5, RunsIs DEF ForkParent, goto, locals
<1>6. ASSUME NEW p \in Procs, ForkRun(p) PROVE Ticking'
  BY <1>6, RunsIs DEF ForkRun, ret, goto, Children, Forking
<1>7. ASSUME NEW p \in Procs, WaitCall(p) PROVE Ticking'
  BY <1>7, RunsIs DEF WaitCall, Syscall, goto, table, locals
<1>8. ASSUME NEW p \in Procs, WaitLock(p) PROVE Ticking'
  BY <1>8, RunsIs DEF WaitLock, goto, table
<1>9. ASSUME NEW p \in Procs, WaitScan(p) PROVE Ticking'
  <2>1. /\ i[p] \in Procs /\ state[p] = "RUNNING" /\ pc[p] = "scan"
        /\ UNCHANGED <<on, clock>>
    BY <1>9, Ranges, RunsIs DEF WaitScan
  <2>2. /\ \A q \in Procs : pc'[q] \in {pc[q], "user"}
        /\ \A c \in Procs : /\ state'[c] \in {state[c], "UNUSED"}
                            /\ state[c] # "ZOMBIE" => state'[c] = state[c] /\ chan'[c] = chan[c]
        /\ \A q \in Procs : q # p => left'[q] = left[q]
    BY <1>9, <2>1, ScanDoes, Zenon DEF ProcInv
  <2>3. QED
    BY <2>1, <2>2
<1>10. ASSUME NEW p \in Procs, WaitCheck(p) PROVE Ticking'
  BY <1>10, RunsIs, SMTT(60) DEF WaitCheck, ret, goto, table, locals
<1>11. ASSUME NEW p \in Procs, WaitSleep(p) PROVE Ticking'
  BY <1>11, RunsIs DEF WaitSleep, sched, goto, locals
<1>12. ASSUME NEW p \in Procs, ExitCall(p) PROVE Ticking'
  BY <1>12, RunsIs DEF ExitCall, goto, table, locals
<1>13. ASSUME NEW p \in Procs, ExitLock(p) PROVE Ticking'
  BY <1>13, RunsIs DEF ExitLock, goto, table
<1>14. ASSUME NEW p \in Procs, Reparent(p) PROVE Ticking'
  BY <1>14, RunsIs DEF Reparent, wake, goto
<1>15. ASSUME NEW p \in Procs, ExitWakeParent(p) PROVE Ticking'
  BY <1>15, RunsIs DEF ExitWakeParent, wake, goto, locals
<1>16. ASSUME NEW p \in Procs, ExitZombie(p) PROVE Ticking'
  BY <1>16, RunsIs DEF ExitZombie, sched, ret, goto
<1>17. ASSUME NEW p \in Procs, NEW q \in Procs, kill(p, q) PROVE Ticking'
  BY <1>17, RunsIs DEF kill, Syscall, wake, locals
<1>18. ASSUME NEW p \in Procs, NEW n \in 1 .. MaxSleep, SleepCall(p, n) PROVE Ticking'
  BY <1>18, RunsIs DEF SleepCall, Syscall, goto, table
<1>19. ASSUME NEW p \in Procs, SleepLock(p) PROVE Ticking'
  BY <1>19, RunsIs DEF SleepLock, goto, table, locals
<1>20. ASSUME NEW p \in Procs, SleepCheck(p) PROVE Ticking'
  <2>1. /\ state[p] = "RUNNING" /\ UNCHANGED <<on, clock, state, chan>>
        /\ \A q \in Procs : q # p => pc'[q] = pc[q] /\ left'[q] = left[q]
    BY <1>20, RunsIs DEF SleepCheck, ret, goto, table, locals
  <2>2. pc'[p] = "user" \/ (left'[p] = left[p] /\ left[p] > 0)
    BY <1>20, SleepCheckDoes, Zenon
  <2>3. QED
    BY <2>1, <2>2
<1>21. ASSUME NEW p \in Procs, TickSleep(p) PROVE Ticking'
  BY <1>21, RunsIs DEF TickSleep, sched, goto, locals
<1>22. CASE ClockTick
  <2>1. clock' = 1 /\ \A p \in Procs : clock' \in 1 .. p /\ pc[p] # "ticksleep"
    BY <1>22 DEF ClockTick, tickslockfree, Procs
  <2>2. on[CPU0] # NULL => state[on[CPU0]] = "RUNNING"
    BY <1>22, RunsIs DEF ClockTick, Preemptible
  <2>3. QED
    BY <1>22, <2>1, <2>2 DEF ClockTick, table
<1>23. CASE ClockWake
  <2>1. clock \in Procs /\ \A p \in Procs : clock \in 1 .. p /\ p # clock => clock' \in 1 .. p
    <3>1. clock \in Procs /\ clock' = slotafter(clock)
      BY <1>23, Ranges DEF ClockWake
    <3>2. QED
      BY <3>1, SlotAfter, Zenon
  <2>2. \A p \in Procs : state'[p] = "SLEEPING" => state[p] = "SLEEPING"
    BY <1>23 DEF ClockWake, wake
  <2>3. state[clock] = "SLEEPING" /\ chan[clock] = TICKS => state'[clock] # "SLEEPING"
    BY <1>23, <2>1 DEF ClockWake, wake
  <2>4. on[CPU0] # NULL => state'[on[CPU0]] = "RUNNING"
    BY <1>23, <2>1 DEF ClockWake, wake
  <2>5. QED
    BY <1>23, <2>1, <2>2, <2>3, <2>4 DEF ClockWake, locals
<1>24. CASE UNCHANGED vars
  BY <1>24, SMTT(60) DEF vars, table, locals
<1>25. QED
  BY Zenon, <1>1, <1>2, <1>3, <1>4, <1>5, <1>6, <1>7, <1>8, <1>9, <1>10, <1>11, <1>12,
     <1>13, <1>14, <1>15, <1>16, <1>17, <1>18, <1>19, <1>20, <1>21, <1>22, <1>23,
     <1>24
  DEF Next, Kernel, User, CPU

\* No wakeup is lost: no parent sleeps in wait() while it has a zombie child,
\* and no process sleeps in sys_sleep() when its time is over, unless
\* clockintr()'s wakeup() is still on its way to its slot.
THEOREM SleepersHold == Spec => []NoSleeperMissed
<1>1. Init => WaitLocked /\ Reaping /\ Ticking
  BY Slots DEF Init, WaitLocked, Locked, Reaping, Waiting, Ticking
<1>2. ProcInv /\ WaitLocked /\ Reaping /\ Ticking /\ [Next]_vars
      => (WaitLocked /\ Reaping /\ Ticking)'
  BY StepWaitLocked, StepReaping, StepTicking
<1>3. ProcInv /\ Reaping /\ Ticking => NoSleeperMissed
  BY DEF ProcInv, TypeOK, Reaping, Waiting, Ticking, NoSleeperMissed
<1>4. QED
  BY <1>1, <1>2, <1>3, ProcInvariant, PTL DEF Spec
=============================================================================
