----------------------------- MODULE ProcProofs -----------------------------
(***************************************************************************)
(* Proc.tla, for every size of the process table and every set of CPUs:    *)
(* no process is on two CPUs or freed while it is on one, and the parent   *)
(* of every process is alive.                                              *)
(***************************************************************************)
EXTENDS Proc, TLAPS

Alive == {"RUNNABLE", "RUNNING", "SLEEPING"}
Forking == {"forkparent", "forkrun"}
Exiting == {"exit", "reparent", "wakeparent", "zombie"}

\* c->proc, p->lock and p->state: a lock that is held from one step to the
\* next is held by the CPU that is still on the process's stack.
Stacks ==
  /\ \A c, d \in CPUs : on[c] # NULL /\ on[c] = on[d] => c = d
  /\ \A p \in Procs, c \in CPUs : plock[p] = c => on[c] = p
  /\ \A p \in Procs, c \in CPUs : on[c] = p /\ plock[p] # c => state[p] = "RUNNING"
  /\ \A p \in Procs, c \in CPUs : on[c] = p => state[p] \in Alive \cup {"ZOMBIE"}
  /\ \A p \in Procs : state[p] = "RUNNING" => plock[p] = NULL /\ \E c \in CPUs : on[c] = p

\* The child that fork() makes is nobody else's, and a process that is not
\* alive is not in the kernel.
Children ==
  /\ \A p \in Procs : pc[p] \in Forking => np[p] \in Procs /\ state[np[p]] = "USED"
  /\ \A p, q \in Procs : pc[p] \in Forking /\ pc[q] \in Forking /\ np[p] = np[q] => p = q
  /\ \A p \in Procs : state[p] \notin Alive => pc[p] = "user"

\* initproc never exits, and exit() has given away the children it has passed.
Parents ==
  /\ state[initproc] \in Alive /\ pc[initproc] \notin Exiting /\ ~killed[initproc]
  /\ \A p, c \in Procs : pc[p] \in {"wakeparent", "zombie"} => parent[c] # p
  /\ \A p, c \in Procs : pc[p] = "reparent" /\ c < i[p] => parent[c] # p
  /\ \A c \in Procs : parent[c] # NULL => state[parent[c]] \in Alive

ProcInv == TypeOK /\ Stacks /\ Children /\ Parents
-----------------------------------------------------------------------------
\* The slots, CPUs and channels are told apart from the null pointer.
LEMMA Slots == initproc \in Procs /\ NULL \notin Procs /\ NULL \notin CPUs /\ TICKS \notin Procs
BY ProcConstantsOK DEF ProcConstantsOK, Procs, initproc, TICKS

\* A process that executes is RUNNING, on the CPU CPUof() finds.
LEMMA RunsIs ==
  ASSUME ProcInv, NEW p \in Procs, Runs(p)
  PROVE  /\ state[p] = "RUNNING" /\ plock[p] = NULL
         /\ CPUof(p) \in CPUs /\ on[CPUof(p)] = p
BY DEF Runs, CPUof, ProcInv, Stacks

\* The loop indices stay in their ranges.
LEMMA Ranges ==
  /\ 1 \in Procs /\ 1 \in 1 .. NPROC + 1 /\ 0 \in 0 .. MaxSleep /\ 1 \in 0 .. NPROC
  /\ \A n \in 1 .. NPROC + 1 : n <= NPROC => n \in Procs /\ n + 1 \in 1 .. NPROC + 1
  /\ \A n \in Procs : (n % NPROC) + 1 \in Procs
  /\ \A n \in 1 .. MaxSleep : n \in 0 .. MaxSleep
  /\ \A n \in 0 .. MaxSleep : n # 0 => n - 1 \in 0 .. MaxSleep
  /\ \A n \in 0 .. NPROC : slotafter(n) \in 0 .. NPROC /\ (n # 0 => n \in Procs)
BY ProcConstantsOK DEF ProcConstantsOK, Procs, slotafter

\* userinit() establishes the invariant.
LEMMA InitInv == Init => ProcInv
<1> SUFFICES ASSUME Init PROVE ProcInv
  OBVIOUS
<1>1. TypeOK
  BY ProcConstantsOK DEF ProcConstantsOK, Init, TypeOK, Procs, IntrOff, initproc
<1>2. Stacks /\ Children /\ Parents
  BY Slots, SMTT(60) DEF Init, Stacks, Children, Parents, Alive, Forking, Exiting
<1>3. QED
  BY <1>1, <1>2 DEF ProcInv

\* A kernel stack is in use on at most one CPU, by the process the CPU runs.
LEMMA StepStacks == ProcInv /\ [Next]_vars => Stacks'
<1> SUFFICES ASSUME ProcInv, [Next]_vars PROVE Stacks'
  OBVIOUS
<1> USE Slots DEF ProcInv, Stacks, TypeOK, Alive
<1>1. ASSUME NEW c \in CPUs, SchedulerReturn(c) PROVE Stacks'
  BY <1>1 DEF SchedulerReturn, table, locals
<1>2. ASSUME NEW c \in CPUs, Scheduler(c) PROVE Stacks'
  BY <1>2 DEF Scheduler, locals
<1>3. ASSUME NEW p \in Procs, Timer(p) PROVE Stacks'
  BY <1>3, RunsIs DEF Timer, sched, goto, Preemptible, table, locals
<1>4. ASSUME NEW p \in Procs, NEW q \in Procs, ForkAlloc(p, q) PROVE Stacks'
  BY <1>4, RunsIs DEF ForkAlloc, Syscall, goto
<1>5. ASSUME NEW p \in Procs, ForkParent(p) PROVE Stacks'
  BY <1>5, RunsIs DEF ForkParent, goto, locals
<1>6. ASSUME NEW p \in Procs, ForkRun(p) PROVE Stacks'
  <2>1. state[np[p]] = "USED" /\ np[p] \in Procs
    BY <1>6 DEF ForkRun, Children, Forking
  <2>2. QED
    BY <1>6, <2>1, RunsIs DEF ForkRun
<1>7. ASSUME NEW p \in Procs, WaitCall(p) PROVE Stacks'
  BY <1>7, RunsIs DEF WaitCall, Syscall, goto, table, locals
<1>8. ASSUME NEW p \in Procs, WaitLock(p) PROVE Stacks'
  BY <1>8, RunsIs DEF WaitLock, goto, table
<1>9. ASSUME NEW p \in Procs, WaitScan(p) PROVE Stacks'
  BY <1>9, RunsIs DEF WaitScan, kidlock, ret, goto, table
<1>10. ASSUME NEW p \in Procs, WaitCheck(p) PROVE Stacks'
  BY <1>10, RunsIs DEF WaitCheck, ret, goto, table, locals
<1>11. ASSUME NEW p \in Procs, WaitSleep(p) PROVE Stacks'
  BY <1>11, RunsIs DEF WaitSleep, sched, goto, locals
<1>12. ASSUME NEW p \in Procs, ExitCall(p) PROVE Stacks'
  BY <1>12, RunsIs DEF ExitCall, goto, table, locals
<1>13. ASSUME NEW p \in Procs, ExitLock(p) PROVE Stacks'
  BY <1>13, RunsIs DEF ExitLock, goto, table
<1>14. ASSUME NEW p \in Procs, Reparent(p) PROVE Stacks'
  BY <1>14, RunsIs DEF Reparent, wake, goto
<1>15. ASSUME NEW p \in Procs, ExitWakeParent(p) PROVE Stacks'
  BY <1>15, RunsIs DEF ExitWakeParent, wake, goto, locals
<1>16. ASSUME NEW p \in Procs, ExitZombie(p) PROVE Stacks'
  BY <1>16, RunsIs DEF ExitZombie, sched, ret, goto
<1>17. ASSUME NEW p \in Procs, NEW q \in Procs, kill(p, q) PROVE Stacks'
  BY <1>17, RunsIs DEF kill, Syscall, wake, locals
<1>18. ASSUME NEW p \in Procs, NEW n \in 1 .. MaxSleep, SleepCall(p, n) PROVE Stacks'
  BY <1>18, RunsIs DEF SleepCall, Syscall, goto, table
<1>19. ASSUME NEW p \in Procs, SleepLock(p) PROVE Stacks'
  BY <1>19, RunsIs DEF SleepLock, goto, table, locals
<1>20. ASSUME NEW p \in Procs, SleepCheck(p) PROVE Stacks'
  BY <1>20, RunsIs DEF SleepCheck, ret, goto, table, locals
<1>21. ASSUME NEW p \in Procs, TickSleep(p) PROVE Stacks'
  BY <1>21, RunsIs DEF TickSleep, sched, goto, locals
<1>22. CASE ClockTick
  BY <1>22 DEF ClockTick, table
<1>23. CASE ClockWake
  BY <1>23 DEF ClockWake, wake, locals
<1>24. CASE UNCHANGED vars
  BY <1>24, SMTT(60) DEF vars, table, locals
<1>25. QED
  BY Zenon, <1>1, <1>2, <1>3, <1>4, <1>5, <1>6, <1>7, <1>8, <1>9, <1>10, <1>11, <1>12,
     <1>13, <1>14, <1>15, <1>16, <1>17, <1>18, <1>19, <1>20, <1>21, <1>22, <1>23,
     <1>24
  DEF Next, Kernel, User, CPU

\* Whoever is in the middle of fork() or exit() keeps the slots it holds.
LEMMA StepChildren == ProcInv /\ [Next]_vars => Children'
<1> SUFFICES ASSUME ProcInv, [Next]_vars PROVE Children'
  OBVIOUS
<1> USE Slots DEF ProcInv, Children, TypeOK, Alive, Forking
<1>1. ASSUME NEW c \in CPUs, SchedulerReturn(c) PROVE Children'
  BY <1>1 DEF SchedulerReturn, table, locals
<1>2. ASSUME NEW c \in CPUs, Scheduler(c) PROVE Children'
  BY <1>2 DEF Scheduler, locals
<1>3. ASSUME NEW p \in Procs, Timer(p) PROVE Children'
  BY <1>3, RunsIs DEF Timer, sched, goto, Preemptible, table, locals
<1>4. ASSUME NEW p \in Procs, NEW q \in Procs, ForkAlloc(p, q) PROVE Children'
  BY <1>4, RunsIs DEF ForkAlloc, Syscall, goto
<1>5. ASSUME NEW p \in Procs, ForkParent(p) PROVE Children'
  BY <1>5, RunsIs DEF ForkParent, goto, locals
<1>6. ASSUME NEW p \in Procs, ForkRun(p) PROVE Children'
  BY <1>6, RunsIs DEF ForkRun, ret, goto
<1>7. ASSUME NEW p \in Procs, WaitCall(p) PROVE Children'
  BY <1>7, RunsIs DEF WaitCall, Syscall, goto, table, locals
<1>8. ASSUME NEW p \in Procs, WaitLock(p) PROVE Children'
  BY <1>8, RunsIs DEF WaitLock, goto, table
<1>9. ASSUME NEW p \in Procs, WaitScan(p) PROVE Children'
  BY <1>9, RunsIs, SMTT(60) DEF WaitScan, kidlock, ret, goto, table
<1>10. ASSUME NEW p \in Procs, WaitCheck(p) PROVE Children'
  BY <1>10, RunsIs DEF WaitCheck, ret, goto, table, locals
<1>11. ASSUME NEW p \in Procs, WaitSleep(p) PROVE Children'
  BY <1>11, RunsIs DEF WaitSleep, sched, goto, locals
<1>12. ASSUME NEW p \in Procs, ExitCall(p) PROVE Children'
  BY <1>12, RunsIs DEF ExitCall, goto, table, locals
<1>13. ASSUME NEW p \in Procs, ExitLock(p) PROVE Children'
  BY <1>13, RunsIs DEF ExitLock, goto, table
<1>14. ASSUME NEW p \in Procs, Reparent(p) PROVE Children'
  BY <1>14, RunsIs DEF Reparent, wake, goto
<1>15. ASSUME NEW p \in Procs, ExitWakeParent(p) PROVE Children'
  BY <1>15, RunsIs DEF ExitWakeParent, wake, goto, locals
<1>16. ASSUME NEW p \in Procs, ExitZombie(p) PROVE Children'
  BY <1>16, RunsIs DEF ExitZombie, sched, ret, goto
<1>17. ASSUME NEW p \in Procs, NEW q \in Procs, kill(p, q) PROVE Children'
  BY <1>17, RunsIs DEF kill, Syscall, wake, locals
<1>18. ASSUME NEW p \in Procs, NEW n \in 1 .. MaxSleep, SleepCall(p, n) PROVE Children'
  BY <1>18, RunsIs DEF SleepCall, Syscall, goto, table
<1>19. ASSUME NEW p \in Procs, SleepLock(p) PROVE Children'
  BY <1>19, RunsIs DEF SleepLock, goto, table, locals
<1>20. ASSUME NEW p \in Procs, SleepCheck(p) PROVE Children'
  BY <1>20, RunsIs, SMTT(60) DEF SleepCheck, ret, goto, table, locals
<1>21. ASSUME NEW p \in Procs, TickSleep(p) PROVE Children'
  BY <1>21, RunsIs DEF TickSleep, sched, goto, locals
<1>22. CASE ClockTick
  BY <1>22 DEF ClockTick, table
<1>23. CASE ClockWake
  BY <1>23 DEF ClockWake, wake, locals
<1>24. CASE UNCHANGED vars
  BY <1>24, SMTT(60) DEF vars, table, locals
<1>25. QED
  BY Zenon, <1>1, <1>2, <1>3, <1>4, <1>5, <1>6, <1>7, <1>8, <1>9, <1>10, <1>11, <1>12,
     <1>13, <1>14, <1>15, <1>16, <1>17, <1>18, <1>19, <1>20, <1>21, <1>22, <1>23,
     <1>24
  DEF Next, Kernel, User, CPU

\* reparent() under wait_lock leaves no living child behind.
LEMMA StepParents == ProcInv /\ [Next]_vars => Parents'
<1> SUFFICES ASSUME ProcInv, [Next]_vars PROVE Parents'
  OBVIOUS
<1> USE Slots DEF ProcInv, Parents, TypeOK, Alive, Exiting
<1>1. ASSUME NEW c \in CPUs, SchedulerReturn(c) PROVE Parents'
  BY <1>1 DEF SchedulerReturn, table, locals
<1>2. ASSUME NEW c \in CPUs, Scheduler(c) PROVE Parents'
  BY <1>2 DEF Scheduler, locals
<1>3. ASSUME NEW p \in Procs, Timer(p) PROVE Parents'
  BY <1>3, RunsIs DEF Timer, sched, goto, Preemptible, table, locals
<1>4. ASSUME NEW p \in Procs, NEW q \in Procs, ForkAlloc(p, q) PROVE Parents'
  BY <1>4, RunsIs DEF ForkAlloc, Syscall, goto
<1>5. ASSUME NEW p \in Procs, ForkParent(p) PROVE Parents'
  BY <1>5, RunsIs DEF ForkParent, goto, locals
<1>6. ASSUME NEW p \in Procs, ForkRun(p) PROVE Parents'
  BY <1>6, RunsIs DEF ForkRun, ret, goto
<1>7. ASSUME NEW p \in Procs, WaitCall(p) PROVE Parents'
  BY <1>7, RunsIs DEF WaitCall, Syscall, goto, table, locals
<1>8. ASSUME NEW p \in Procs, WaitLock(p) PROVE Parents'
  BY <1>8, RunsIs DEF WaitLock, goto, table
<1>9. ASSUME NEW p \in Procs, WaitScan(p) PROVE Parents'
  <2> DEFINE c == i[p]
  <2>1. c \in Procs /\ state[p] = "RUNNING" /\ pc[p] = "scan"
    BY <1>9, Ranges, RunsIs DEF WaitScan
  <2>2. CASE i' = [i EXCEPT ![p] = @ + 1] /\ UNCHANGED <<state, killed, parent, pc>>
    BY <2>1, <2>2
  <2>3. ASSUME ret(p), UNCHANGED <<state, killed, parent>> PROVE Parents'
    BY <2>1, <2>3 DEF ret, goto
  <2>4. ASSUME state[c] = "ZOMBIE", state' = [state EXCEPT ![c] = "UNUSED"],
               killed' = [killed EXCEPT ![c] = FALSE],
               parent' = [parent EXCEPT ![c] = NULL], ret(p)
        PROVE Parents'
    BY <2>1, <2>4 DEF ret, goto
  <2>5. QED
    BY <1>9, <2>2, <2>3, <2>4, ZenonT(60) DEF WaitScan, table
<1>10. ASSUME NEW p \in Procs, WaitCheck(p) PROVE Parents'
  BY <1>10, RunsIs DEF WaitCheck, ret, goto, table, locals
<1>11. ASSUME NEW p \in Procs, WaitSleep(p) PROVE Parents'
  BY <1>11, RunsIs DEF WaitSleep, sched, goto, locals
<1>12. ASSUME NEW p \in Procs, ExitCall(p) PROVE Parents'
  BY <1>12, RunsIs DEF ExitCall, goto, table, locals
<1>13. ASSUME NEW p \in Procs, ExitLock(p) PROVE Parents'
  <2>1. \A c \in Procs : ~(c < 1)
    BY DEF Procs
  <2>2. QED
    BY <1>13, <2>1, RunsIs DEF ExitLock, goto, table
<1>14. ASSUME NEW p \in Procs, Reparent(p) PROVE Parents'
  <2> DEFINE c == i[p]
             mine == parent[c] = p
  <2>1. c \in Procs /\ state[p] = "RUNNING" /\ pc[p] = "reparent" /\ p # initproc
    BY <1>14, Ranges, RunsIs DEF Reparent
  <2>2. /\ i' = [i EXCEPT ![p] = c + 1] /\ killed' = killed
        /\ pc' = [pc EXCEPT ![p] = IF c = NPROC THEN "wakeparent" ELSE "reparent"]
        /\ parent' = IF mine THEN [parent EXCEPT ![c] = initproc] ELSE parent
    BY <1>14, Zenon DEF Reparent, goto
  <2>3. \A q \in Procs : state[q] \in Alive => state'[q] \in Alive
    BY <1>14 DEF Reparent, wake
  <2>4. \A k \in Procs : k < c + 1 => parent'[k] # p
    <3>1. \A k \in Procs : k < c + 1 => k < c \/ k = c
      BY <2>1 DEF Procs
    <3>2. QED
      BY <2>1, <2>2, <3>1
  <2>5. c = NPROC => \A k \in Procs : k < c + 1
    BY ProcConstantsOK DEF Procs, ProcConstantsOK
  <2>6. QED
    BY <2>1, <2>2, <2>3, <2>4, <2>5, SMTT(60)
<1>15. ASSUME NEW p \in Procs, ExitWakeParent(p) PROVE Parents'
  BY <1>15, RunsIs DEF ExitWakeParent, wake, goto, locals
<1>16. ASSUME NEW p \in Procs, ExitZombie(p) PROVE Parents'
  BY <1>16, RunsIs DEF ExitZombie, sched, ret, goto
<1>17. ASSUME NEW p \in Procs, NEW q \in Procs, kill(p, q) PROVE Parents'
  BY <1>17, RunsIs DEF kill, Syscall, wake, locals
<1>18. ASSUME NEW p \in Procs, NEW n \in 1 .. MaxSleep, SleepCall(p, n) PROVE Parents'
  BY <1>18, RunsIs DEF SleepCall, Syscall, goto, table
<1>19. ASSUME NEW p \in Procs, SleepLock(p) PROVE Parents'
  BY <1>19, RunsIs DEF SleepLock, goto, table, locals
<1>20. ASSUME NEW p \in Procs, SleepCheck(p) PROVE Parents'
  BY <1>20, RunsIs, SMTT(60) DEF SleepCheck, ret, goto, table, locals
<1>21. ASSUME NEW p \in Procs, TickSleep(p) PROVE Parents'
  BY <1>21, RunsIs DEF TickSleep, sched, goto, locals
<1>22. CASE ClockTick
  BY <1>22 DEF ClockTick, table
<1>23. CASE ClockWake
  BY <1>23 DEF ClockWake, wake, locals
<1>24. CASE UNCHANGED vars
  BY <1>24, SMTT(60) DEF vars, table, locals
<1>25. QED
  BY Zenon, <1>1, <1>2, <1>3, <1>4, <1>5, <1>6, <1>7, <1>8, <1>9, <1>10, <1>11, <1>12,
     <1>13, <1>14, <1>15, <1>16, <1>17, <1>18, <1>19, <1>20, <1>21, <1>22, <1>23,
     <1>24
  DEF Next, Kernel, User, CPU

\* The types, step by step.
LEMMA StepTypes == ProcInv /\ [Next]_vars => TypeOK'
<1> SUFFICES ASSUME ProcInv, [Next]_vars PROVE TypeOK'
  OBVIOUS
<1> USE Slots, Ranges DEF ProcInv, TypeOK, IntrOff
<1>1. ASSUME NEW c \in CPUs, SchedulerReturn(c) PROVE TypeOK'
  BY <1>1 DEF SchedulerReturn, table, locals
<1>2. ASSUME NEW c \in CPUs, Scheduler(c) PROVE TypeOK'
  BY <1>2 DEF Scheduler, locals
<1>3. ASSUME NEW p \in Procs, Timer(p) PROVE TypeOK'
  BY <1>3, RunsIs, SMTT(60) DEF Timer, sched, goto, Preemptible, table, locals
<1>4. ASSUME NEW p \in Procs, NEW q \in Procs, ForkAlloc(p, q) PROVE TypeOK'
  BY <1>4, RunsIs DEF ForkAlloc, Syscall, goto
<1>5. ASSUME NEW p \in Procs, ForkParent(p) PROVE TypeOK'
  BY <1>5, RunsIs, Zenon DEF ForkParent, goto, locals
<1>6. ASSUME NEW p \in Procs, ForkRun(p) PROVE TypeOK'
  BY <1>6, RunsIs, Zenon DEF ForkRun, ret, goto
<1>7. ASSUME NEW p \in Procs, WaitCall(p) PROVE TypeOK'
  BY <1>7, RunsIs DEF WaitCall, Syscall, goto, table, locals
<1>8. ASSUME NEW p \in Procs, WaitLock(p) PROVE TypeOK'
  BY <1>8, RunsIs DEF WaitLock, goto, table
<1>9. ASSUME NEW p \in Procs, WaitScan(p) PROVE TypeOK'
  <2>1. i[p] \in Procs /\ kids' \in [Procs -> BOOLEAN]
    BY <1>9, ZenonT(60) DEF WaitScan, ret
  <2>2. CASE ret(p)
    <3>1. chan' \in [Procs -> {NULL, TICKS} \cup Procs] /\ killed' \in [Procs -> BOOLEAN]
      BY <1>9, <2>1, <2>2, ZenonT(60) DEF WaitScan, table
    <3>2. /\ parent' \in [Procs -> {NULL} \cup Procs] /\ wait_lock' = NULL
          /\ state' \in [Procs -> {"UNUSED", "USED", "RUNNABLE", "RUNNING", "SLEEPING",
                                  "ZOMBIE"}]
      BY <1>9, <2>1, <2>2 DEF WaitScan, table, ret, goto
    <3>3. QED
      BY <1>9, <2>1, <2>2, <3>1, <3>2, Zenon DEF WaitScan, ret, goto
  <2>3. CASE UNCHANGED <<table, wait_lock, pc, np, left>> /\ i' = [i EXCEPT ![p] = @ + 1]
    BY <1>9, <2>1, <2>3 DEF WaitScan, table
  <2>4. QED
    BY <1>9, <2>2, <2>3, Zenon DEF WaitScan
<1>10. ASSUME NEW p \in Procs, WaitCheck(p) PROVE TypeOK'
  <2>1. CASE ret(p) /\ wait_lock' = NULL
    BY <1>10, <2>1 DEF WaitCheck, ret, goto, table
  <2>2. CASE goto(p, "waitsleep") /\ UNCHANGED <<wait_lock, locals>>
    BY <1>10, <2>2 DEF WaitCheck, goto, table, locals
  <2>3. QED
    BY <1>10, <2>1, <2>2, Zenon DEF WaitCheck
<1>11. ASSUME NEW p \in Procs, WaitSleep(p) PROVE TypeOK'
  BY <1>11, RunsIs DEF WaitSleep, sched, goto, locals
<1>12. ASSUME NEW p \in Procs, ExitCall(p) PROVE TypeOK'
  BY <1>12, RunsIs DEF ExitCall, goto, table, locals
<1>13. ASSUME NEW p \in Procs, ExitLock(p) PROVE TypeOK'
  BY <1>13, RunsIs DEF ExitLock, goto, table
<1>14. ASSUME NEW p \in Procs, Reparent(p) PROVE TypeOK'
  BY <1>14, RunsIs DEF Reparent, wake, goto
<1>15. ASSUME NEW p \in Procs, ExitWakeParent(p) PROVE TypeOK'
  BY <1>15, RunsIs, ZenonT(60) DEF ExitWakeParent, wake, goto, locals
<1>16. ASSUME NEW p \in Procs, ExitZombie(p) PROVE TypeOK'
  BY <1>16, RunsIs DEF ExitZombie, sched, ret, goto
<1>17. ASSUME NEW p \in Procs, NEW q \in Procs, kill(p, q) PROVE TypeOK'
  BY <1>17, RunsIs DEF kill, Syscall, wake, locals
<1>18. ASSUME NEW p \in Procs, NEW n \in 1 .. MaxSleep, SleepCall(p, n) PROVE TypeOK'
  BY <1>18, RunsIs DEF SleepCall, Syscall, goto, table
<1>19. ASSUME NEW p \in Procs, SleepLock(p) PROVE TypeOK'
  BY <1>19, RunsIs DEF SleepLock, goto, table, locals
<1>20. ASSUME NEW p \in Procs, SleepCheck(p) PROVE TypeOK'
  <2>1. CASE ret(p)
    BY <1>20, <2>1 DEF SleepCheck, ret, goto, table
  <2>2. CASE goto(p, "ticksleep") /\ UNCHANGED locals
    BY <1>20, <2>2, SMTT(60) DEF SleepCheck, goto, table, locals
  <2>3. QED
    BY <1>20, <2>1, <2>2, ZenonT(60) DEF SleepCheck
<1>21. ASSUME NEW p \in Procs, TickSleep(p) PROVE TypeOK'
  BY <1>21, RunsIs, SMTT(60) DEF TickSleep, sched, goto, locals
<1>22. CASE ClockTick
  BY <1>22 DEF ClockTick, table
<1>23. CASE ClockWake
  BY <1>23 DEF ClockWake, wake, locals
<1>24. CASE UNCHANGED vars
  BY <1>24 DEF vars, table, locals
<1>25. QED
  BY ZenonT(60), <1>1, <1>2, <1>3, <1>4, <1>5, <1>6, <1>7, <1>8, <1>9, <1>10, <1>11, <1>12,
     <1>13, <1>14, <1>15, <1>16, <1>17, <1>18, <1>19, <1>20, <1>21, <1>22, <1>23,
     <1>24
  DEF Next, Kernel, User, CPU

\* The invariant is inductive: it holds in every reachable state.
THEOREM ProcInvariant == Spec => []ProcInv
<1>1. ProcInv /\ [Next]_vars => ProcInv'
  BY StepStacks, StepChildren, StepParents, StepTypes DEF ProcInv
<1>2. QED
  BY <1>1, InitInv, PTL DEF Spec
-----------------------------------------------------------------------------
\* Every field of struct proc and every local keeps its type.
THEOREM TypesHold == Spec => []TypeOK
BY ProcInvariant, PTL DEF ProcInv

\* scheduler(), sched() and the hand-over of p->lock between them: no process
\* runs on two CPUs, and one that is not RUNNING any more is on a CPU only
\* while that CPU holds its lock.
THEOREM OneCPUHolds == Spec => []OneCPU
<1>1. ProcInv => OneCPU
  BY Slots DEF ProcInv, Stacks, TypeOK, OneCPU
<1>2. QED
  BY <1>1, ProcInvariant, PTL

\* wait() never frees the kernel stack that exit() still runs on.
THEOREM FreedHolds == Spec => []FreedOffStack
<1>1. ProcInv => FreedOffStack
  BY DEF ProcInv, Stacks, TypeOK, Alive, FreedOffStack
<1>2. QED
  BY <1>1, ProcInvariant, PTL

\* reparent() leaves no child with a dead parent.
THEOREM ParentHolds == Spec => []ParentAlive
<1>1. ProcInv => ParentAlive
  BY DEF ProcInv, Parents, Alive, ParentAlive
<1>2. QED
  BY <1>1, ProcInvariant, PTL
=============================================================================
